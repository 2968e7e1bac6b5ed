------------------------- MODULE IncrementalProofs --------------------------
(***************************************************************************)
(* A splice leaves the knowledge base a full build would, for any files,   *)
(* contents and sequence of batches, as long as the splice follows every   *)
(* kind of content there is.  The kinds it does not follow are excluded by *)
(* name (Splicable, Indexable, Diagnosable); MCIncremental's Widened adds  *)
(* each of them back.                                                      *)
(***************************************************************************)
EXTENDS Incremental, FiniteSetTheorems, TLAPS

\* The disk holds contents its files may have.
DiskOK ==
    /\ disk = [p \in DOMAIN disk |-> disk[p]]
    /\ DOMAIN disk \subseteq Paths
    /\ \A p \in DOMAIN disk : disk[p] \in Contents[p]

\* A batch the splice is taken for.
Step(d) == d \in Batches /\ Batch(d) /\ ~NeedsFull(d) /\ ~Declines(d)

\* What the splice works from is the catalog of the disk before the batch.
HeldIsDisk == kb.catalog = disk /\ kb.index = DOMAIN disk

-----------------------------------------------------------------------------
(* The disk and the catalog.                                               *)

LEMMA BatchDisk ==
    ASSUME DiskOK, NEW d \in Batches, Batch(d)
    PROVE  /\ DiskOK'
           /\ \A p \in Paths \ d : (p \in DOMAIN disk') = (p \in DOMAIN disk)
           /\ \A p \in DOMAIN disk' \ d : disk'[p] = disk[p]
           /\ \A p \in DOMAIN disk' \cap d :
                disk'[p].kind = "unread" => Unreadable \/ p \in DOMAIN disk
<1>1. PICK new \in [d -> UNION {Contents[p] : p \in d} \cup {Absent}] :
        /\ \A p \in d : /\ new[p] \in Contents[p] \cup {Absent}
                        /\ new[p].kind = "unread" => Unreadable \/ p \in DOMAIN disk
        /\ disk' = [p \in {q \in (DOMAIN disk) \cup d : q \in d => new[q] # Absent} |->
                      IF p \in d THEN new[p] ELSE disk[p]]
  BY DEF Batch
<1>2. DOMAIN disk' = {q \in (DOMAIN disk) \cup d : q \in d => new[q] # Absent}
  BY <1>1
<1>3. d \subseteq Paths
  BY DEF Batches
<1>4. \A p \in DOMAIN disk' : disk'[p] = IF p \in d THEN new[p] ELSE disk[p]
  BY <1>1, <1>2
<1>5. \A p \in DOMAIN disk' : disk'[p] \in Contents[p]
  BY <1>1, <1>2, <1>4 DEF DiskOK
<1>6. DiskOK'
  BY <1>1, <1>2, <1>3, <1>5 DEF DiskOK
<1>7. QED
  BY <1>1, <1>2, <1>3, <1>4, <1>6

\* The patched catalog is the new disk.
LEMMA PatchedIsDisk ==
    ASSUME ~Unreadable, DiskOK, HeldIsDisk, NEW d, Step(d)
    PROVE  PatchedIndex(d) = DOMAIN disk' /\ Patched(d) = disk'
<1>1. d \in Batches /\ Batch(d) /\ d \subseteq Paths
  BY DEF Step, Batches
<1>2. DiskOK'
  BY <1>1, BatchDisk
<1>3. \A p \in d : On(p) /\ p \notin Assets => disk'[p].kind # "large"
  BY DEF Step, Declines
<1>4. \A p \in d : On(p) /\ p \notin Assets => disk'[p].kind # "unread"
  BY <1>1, BatchDisk DEF Step, Declines, On, Held, HeldIsDisk
<1>5. \A p \in d : On(p) => Parsed(p) \/ p \in Assets
  BY <1>3, <1>4 DEF Parsed
<1>6. Added(d) = {p \in d : ~Held(p) /\ On(p)}
  BY <1>5 DEF Added
<1>7. PatchedIndex(d) = DOMAIN disk'
  <2>1. \A p \in Paths : p \in PatchedIndex(d) <=> p \in DOMAIN disk'
    BY <1>1, <1>6, BatchDisk DEF PatchedIndex, Deleted, On, Held, HeldIsDisk
  <2>2. PatchedIndex(d) \subseteq Paths /\ DOMAIN disk' \subseteq Paths
    BY <1>1, <1>2 DEF PatchedIndex, Added, Deleted, HeldIsDisk, DiskOK
  <2>3. QED
    BY <2>1, <2>2
<1>8. ASSUME NEW p \in DOMAIN disk'
      PROVE  disk'[p] = IF p \in d /\ (Parsed(p) \/ ~Held(p)) THEN disk'[p] ELSE kb.catalog[p]
  <2>1. CASE p \notin d
    BY <2>1, <1>1, BatchDisk DEF HeldIsDisk
  <2>2. CASE p \in d /\ Held(p) /\ ~Parsed(p)
    <3>1. p \in Assets
      BY <1>5, <2>2 DEF On
    <3>2. disk'[p] \in Contents[p] /\ disk[p] \in Contents[p]
      BY <1>2, <2>2 DEF DiskOK, Held, HeldIsDisk
    <3>3. QED
      BY <3>1, <3>2, IncrementalAssumption DEF HeldIsDisk
  <2>3. QED
    BY <2>1, <2>2
<1>9. disk' = [p \in DOMAIN disk' |-> disk'[p]]
  BY <1>2 DEF DiskOK
<1>10. Patched(d) = disk'
  BY <1>7, <1>8, <1>9 DEF Patched
<1>11. QED
  BY <1>7, <1>10

\* A file the splice did not read anew is as it was, or an asset.
LEMMA Untouched ==
    ASSUME ~Unreadable, DiskOK, HeldIsDisk, NEW d, Step(d), NEW p \in DOMAIN disk',
           p \notin Touched(d)
    PROVE  \/ p \in DOMAIN disk /\ disk'[p] = disk[p]
           \/ p \in Assets /\ disk'[p].kind = "asset"
<1>1. CASE p \in Assets
  BY <1>1, BatchDisk, IncrementalAssumption DEF Step, DiskOK
<1>2. CASE p \notin Assets
  <2>1. p \notin d
    BY <1>2, BatchDisk DEF Step, Declines, Touched, Parsed, On, Held, HeldIsDisk
  <2>2. QED
    BY <2>1, BatchDisk DEF Step, DiskOK
<1>3. QED
  BY <1>1, <1>2

\* A file that was there and is not a deleted one is there still.
LEMMA Staying ==
    ASSUME ~Unreadable, DiskOK, HeldIsDisk, NEW d, Step(d), NEW p \in DOMAIN disk
    PROVE  p \in DOMAIN disk' <=> p \notin Deleted(d)
  BY BatchDisk DEF Step, Deleted, On, Held, HeldIsDisk, DiskOK

-----------------------------------------------------------------------------
(* Resolution.                                                             *)

\* No name with an extension is another file's stem.
StemsUndotted == \A p \in Paths : File[p].stem \notin Dotted

\* A link is resolved alike in two indices that differ in files it cannot name.
LEMMA SameHits ==
    ASSUME StemsUndotted, NEW A \in SUBSET Paths, NEW B \in SUBSET Paths, NEW r, NEW l,
           \A q \in (A \ B) \cup (B \ A) :
              q \notin TypeDefs /\ (RepoOf(q) = r => TargetKeys(l) \cap FileKeys(q) = {})
    PROVE  Hits(A, r, l) = Hits(B, r, l)
<1> DEFINE FirstOf(S, T) == IF S # {} THEN S ELSE T
           Of(I)      == {q \in I : RepoOf(q) = r}
           InDir(I)   == {p \in Of(I) : File[p].dir = l.dir /\ File[p].name = l.name}
           StemIn(I)  == {p \in Of(I) : File[p].dir = l.dir /\ File[p].stem = l.name}
           Based(I)   == {p \in Of(I) : Lower[File[p].name] = Lower[l.name]}
           Stemmed(I) == {p \in Of(I) : Lower[File[p].stem] = Lower[l.name]}
           Aliased(I) == {p \in Of(I) \cap TypeDefs : Alias[p] = Lower[l.name]}
<1>1. \A I : Hits(I, r, l) = IF l.dir # "none" THEN FirstOf(InDir(I), StemIn(I))
                             ELSE FirstOf(Based(I), FirstOf(Stemmed(I), Aliased(I)))
  BY DEF Hits
<1>2. ASSUME NEW q \in (A \ B) \cup (B \ A), RepoOf(q) = r
      PROVE  /\ q \notin TypeDefs
             /\ l.dir # "none" => /\ ~(File[q].dir = l.dir /\ File[q].name = l.name)
                                  /\ ~(File[q].dir = l.dir /\ File[q].stem = l.name)
             /\ l.dir = "none" => /\ Lower[File[q].name] # Lower[l.name]
                                  /\ Lower[File[q].stem] # Lower[l.name]
  <2>1. TargetKeys(l) \cap FileKeys(q) = {} /\ q \in Paths
    BY <1>2
  <2>2. CASE l.dir = "none"
    <3>1. TargetKeys(l) = {<<"bare", Lower[l.name]>>}
      BY <2>2 DEF TargetKeys
    <3>2. <<"bare", Lower[File[q].name]>> \in FileKeys(q) /\ <<"bare", Lower[File[q].stem]>> \in FileKeys(q)
      BY DEF FileKeys
    <3>3. Lower[File[q].name] # Lower[l.name] /\ Lower[File[q].stem] # Lower[l.name]
      BY <2>1, <3>1, <3>2
    <3>4. QED
      BY <1>2, <2>2, <3>3
  <2>3. CASE l.dir # "none"
    <3>1. <<"rel", l.dir, l.name>> \in TargetKeys(l)
      BY <2>3 DEF TargetKeys
    <3>2. l.name \notin Dotted => <<"stem", l.dir, l.name>> \in TargetKeys(l)
      BY <2>3 DEF TargetKeys
    <3>3. /\ <<"rel", File[q].dir, File[q].name>> \in FileKeys(q)
          /\ <<"stem", File[q].dir, File[q].stem>> \in FileKeys(q)
      BY DEF FileKeys
    <3>4. ~(File[q].dir = l.dir /\ File[q].name = l.name)
      BY <2>1, <3>1, <3>3
    <3>5. ~(File[q].dir = l.dir /\ File[q].stem = l.name)
      BY <2>1, <3>2, <3>3 DEF StemsUndotted
    <3>6. QED
      BY <1>2, <2>3, <3>4, <3>5
  <2>4. QED
    BY <2>2, <2>3
<1>3. CASE l.dir # "none"
  <2>1. InDir(A) = InDir(B)
    BY <1>2, <1>3
  <2>2. StemIn(A) = StemIn(B)
    BY <1>2, <1>3
  <2>3. QED
    BY <1>1, <1>3, <2>1, <2>2
<1>4. CASE l.dir = "none"
  <2>1. Based(A) = Based(B)
    BY <1>2, <1>4
  <2>2. Stemmed(A) = Stemmed(B)
    BY <1>2, <1>4
  <2>3. Aliased(A) = Aliased(B)
    BY <1>2, <1>4
  <2>4. \A I : Hits(I, r, l) = FirstOf(Based(I), FirstOf(Stemmed(I), Aliased(I)))
    BY <1>1, <1>4
  <2> HIDE DEF Based, Stemmed, Aliased, FirstOf
  <2>5. QED
    BY <2>1, <2>2, <2>3, <2>4
<1>5. QED
  BY <1>3, <1>4

LEMMA HitsAreThere ==
    ASSUME NEW I, NEW p, NEW l
    PROVE  HitsOf(I, p, l) \subseteq {q \in I : RepoOf(q) = Toward(p, l)}
  BY DEF HitsOf, Hits

-----------------------------------------------------------------------------
(* What a file contributes to an index tells whose it is.                  *)

\* The backlinks of a full build.
AllEdges(cat) == UNION {Edges(DOMAIN cat, p, cat[p]) : p \in DOMAIN cat}

\* The kinds of parse whose links are in the index of referenced names.
Named == {"instance", "note", "typedef"}

LEMMA MembersOfOver ==
    ASSUME NEW cat
    PROVE  /\ \A x : x \in Over(cat, Names) <=> \E p \in DOMAIN cat : x \in Names(p, cat[p])
           /\ \A x : x \in Over(cat, Memberships) <=>
                       \E p \in DOMAIN cat : x \in Memberships(p, cat[p])
           /\ \A x : x \in AllEdges(cat) <=>
                       \E p \in DOMAIN cat : x \in Edges(DOMAIN cat, p, cat[p])
  BY DEF Over, AllEdges

LEMMA Owned ==
    ASSUME NEW p, NEW c
    PROVE  /\ \A x \in Names(p, c) : x.source = p
           /\ \A x \in Memberships(p, c) : x.member = p
           /\ \A I : \A x \in Edges(I, p, c) : x.source = p
  BY DEF Names, Memberships, Edges

\* An asset contributes nothing.
LEMMA AssetsAreMute ==
    ASSUME NEW p, NEW c, c.kind = "asset"
    PROVE  Names(p, c) = {} /\ Memberships(p, c) = {} /\ \A I : Edges(I, p, c) = {}
  BY DEF Names, Memberships, Edges, LinksForming, Typed

\* A file that names one which came or went is among the flips.
LEMMA FlipsAreFound ==
    ASSUME NEW d, NEW p \in DOMAIN disk, disk[p].kind \in Named, NEW l \in disk[p].links,
           kb.names = Over(disk, Names),
           NEW q \in Added(d) \cup Deleted(d), RepoOf(q) = Toward(p, l),
           TargetKeys(l) \cap FileKeys(q) # {}
    PROVE  p \in FlipSources(d)
<1>1. PICK k : k \in TargetKeys(l) /\ k \in FileKeys(q)
  OBVIOUS
<1> DEFINE n == [repo |-> Toward(p, l), key |-> k, source |-> p]
<1>2. n \in Names(p, disk[p])
  <2> DEFINE N(m) == {[repo |-> Toward(p, m), key |-> j, source |-> p] : j \in TargetKeys(m)}
  <2>1. Names(p, disk[p]) = UNION {N(m) : m \in disk[p].links}
    BY DEF Names, Named
  <2>2. n \in N(l)
    BY <1>1
  <2> HIDE DEF N, n
  <2>3. QED
    BY <2>1, <2>2
<1>3. n \in kb.names
  BY <1>2, MembersOfOver
<1>4. <<n.repo, n.key>> \in UNION {{<<RepoOf(r), j>> : j \in FileKeys(r)} : r \in Added(d) \cup Deleted(d)}
  BY <1>1
<1>5. QED
  BY <1>3, <1>4 DEF FlipSources

-----------------------------------------------------------------------------
(* The indices of a splice.                                                *)

\* Files appear readable, and names with an extension are no stems.
Splicable == ~Unreadable /\ StemsUndotted

\* And an instance that is broken keeps no links.
Indexable ==
    /\ Splicable
    /\ \A p \in Paths : \A c \in Contents[p] : c.kind = "broken" => c.links = {}

LEMMA Comings ==
    ASSUME ~Unreadable, DiskOK, HeldIsDisk, NEW d, Step(d)
    PROVE  /\ Added(d) \cup Deleted(d)
                = (DOMAIN disk \ DOMAIN disk') \cup (DOMAIN disk' \ DOMAIN disk)
           /\ (Added(d) \cup Deleted(d)) \cap TypeDefs = {}
<1>1. d \in Batches /\ Batch(d) /\ d \subseteq Paths /\ d \cap TypeDefs = {}
  BY DEF Step, Batches, NeedsFull
<1>2. DiskOK'
  BY <1>1, BatchDisk
<1>3. Added(d) \subseteq d /\ Deleted(d) \subseteq d
  BY DEF Added, Deleted
<1>4. DOMAIN disk' = (DOMAIN disk \cup Added(d)) \ Deleted(d)
  BY PatchedIsDisk DEF PatchedIndex, HeldIsDisk
<1>5. Deleted(d) \subseteq DOMAIN disk /\ Added(d) \cap DOMAIN disk = {}
  BY DEF Deleted, Added, Held, HeldIsDisk
<1>6. QED
  BY <1>1, <1>3, <1>4, <1>5

LEMMA SameHitsAcross ==
    ASSUME Splicable, DiskOK, HeldIsDisk, kb.names = Over(disk, Names), NEW d, Step(d),
           NEW p \in DOMAIN disk, p \notin FlipSources(d), disk[p].kind \in Named,
           NEW l \in disk[p].links
    PROVE  HitsOf(DOMAIN disk', p, l) = HitsOf(DOMAIN disk, p, l)
<1>1. DOMAIN disk \subseteq Paths /\ DOMAIN disk' \subseteq Paths
  BY BatchDisk DEF Step, DiskOK
<1>2. ASSUME NEW q \in (DOMAIN disk \ DOMAIN disk') \cup (DOMAIN disk' \ DOMAIN disk)
      PROVE  /\ q \notin TypeDefs
             /\ RepoOf(q) = Toward(p, l) => TargetKeys(l) \cap FileKeys(q) = {}
  <2>1. q \in Added(d) \cup Deleted(d) /\ q \notin TypeDefs
    BY <1>2, Comings DEF Splicable
  <2>2. QED
    BY <2>1, FlipsAreFound
<1>3. Hits(DOMAIN disk', Toward(p, l), l) = Hits(DOMAIN disk, Toward(p, l), l)
  BY <1>1, <1>2, SameHits DEF Splicable
<1>4. QED
  BY <1>3 DEF HitsOf

\* The files whose edges a splice computes anew.
Moved(d) == Touched(d) \cup Deleted(d) \cup Dependents(d)

\* A file neither read anew nor re-validated, that is there, was there, has the
\* links it had, and they lead where they led.
LEMMA Left ==
    ASSUME Splicable, DiskOK, HeldIsDisk, kb.names = Over(disk, Names), NEW d, Step(d),
           NEW p, p \in DOMAIN disk \/ p \in DOMAIN disk', p \notin Moved(d),
           ~(p \in Assets /\ disk'[p].kind = "asset" /\ p \notin DOMAIN disk)
    PROVE  /\ p \in DOMAIN disk /\ p \in DOMAIN disk' /\ disk'[p] = disk[p]
           /\ p \notin FlipSources(d) /\ p \notin Referrers(d)
           /\ disk[p].kind # "broken" \/ disk[p].links = {} =>
                Edges(DOMAIN disk', p, disk'[p]) = Edges(DOMAIN disk, p, disk[p])
<1>1. p \in DOMAIN disk'
  BY Staying DEF Moved, Splicable
<1>2. p \in DOMAIN disk
  BY <1>1, Untouched DEF Moved, Splicable
<1>3. disk'[p] = disk[p]
  <2>1. CASE p \in Assets
    BY <1>1, <1>2, <2>1, BatchDisk, IncrementalAssumption DEF Step, DiskOK
  <2>2. CASE p \notin Assets
    BY <1>1, <2>2, Untouched DEF Moved, Splicable
  <2>3. QED
    BY <2>1, <2>2
<1>4. p \notin FlipSources(d) /\ p \notin Referrers(d)
  BY <1>2 DEF Moved, Dependents, HeldIsDisk
<1> SUFFICES ASSUME disk[p].kind # "broken" \/ disk[p].links = {}
             PROVE  Edges(DOMAIN disk', p, disk[p]) = Edges(DOMAIN disk, p, disk[p])
  BY <1>1, <1>2, <1>3, <1>4
<1>5. LinksForming(disk[p]) # {} =>
        disk[p].kind \in Named /\ LinksForming(disk[p]) = disk[p].links
  BY DEF LinksForming, Named
<1>6. \A l \in LinksForming(disk[p]) : HitsOf(DOMAIN disk', p, l) = HitsOf(DOMAIN disk, p, l)
  BY <1>2, <1>4, <1>5, SameHitsAcross
<1> DEFINE E(I, l) == {[source |-> p, target |-> t, slot |-> l.slot, frag |-> l.frag] :
                         t \in Sole(HitsOf(I, p, l))}
<1>7. \A I : Edges(I, p, disk[p]) = UNION {E(I, l) : l \in LinksForming(disk[p])}
  BY DEF Edges
<1>8. \A l \in LinksForming(disk[p]) : E(DOMAIN disk', l) = E(DOMAIN disk, l)
  BY <1>6
<1> HIDE DEF E
<1>0. UNION {E(DOMAIN disk', l) : l \in LinksForming(disk[p])}
        = UNION {E(DOMAIN disk, l) : l \in LinksForming(disk[p])}
  BY <1>8
<1>9. Edges(DOMAIN disk', p, disk[p]) = Edges(DOMAIN disk, p, disk[p])
  BY <1>7, <1>0
<1>10. QED
  BY <1>9

\* An asset that came is not there to have edges.
LEMMA NewAssetsAreMute ==
    ASSUME NEW p, p \in Assets, disk'[p].kind = "asset"
    PROVE  /\ Edges(DOMAIN disk', p, disk'[p]) = {}
           /\ Names(p, disk'[p]) = {} /\ Memberships(p, disk'[p]) = {}
  BY AssetsAreMute

\* The edges of those before and after, and the pairs of files they join.
OldEdges(d) == UNION {EdgesIn(disk, p) : p \in Moved(d)}
NewEdges(d) == UNION {EdgesIn(disk', p) : p \in Moved(d)}
Stale(d) == {<<e.source, e.target>> : e \in OldEdges(d) \cup NewEdges(d)}

LEMMA BacklinksAre ==
    ASSUME NEW d, Patched(d) = disk', kb.catalog = disk
    PROVE  BacklinksAfter(d) =
             {b \in kb.backlinks : <<b.source, b.target>> \notin Stale(d)} \cup NewEdges(d)
  BY Zenon DEF BacklinksAfter, Moved, OldEdges, NewEdges, Stale

LEMMA StaleAreMoved ==
    ASSUME NEW d, NEW x \in OldEdges(d) \cup NewEdges(d)
    PROVE  x.source \in Moved(d)
<1>1. PICK p \in Moved(d) : x \in EdgesIn(disk, p) \/ x \in EdgesIn(disk', p)
  BY DEF OldEdges, NewEdges
<1>2. x.source = p
  BY <1>1, Owned DEF EdgesIn
<1>3. QED
  BY <1>1, <1>2

LEMMA BacklinksSpliced ==
    ASSUME Indexable, DiskOK, HeldIsDisk, kb.names = Over(disk, Names),
           kb.backlinks = AllEdges(disk), NEW d, Step(d)
    PROVE  BacklinksAfter(d) = AllEdges(disk')
<1>1. BacklinksAfter(d) =
        {b \in kb.backlinks : <<b.source, b.target>> \notin Stale(d)} \cup NewEdges(d)
  BY PatchedIsDisk, BacklinksAre DEF HeldIsDisk, Indexable, Splicable
<1>2. \A x : x \in AllEdges(disk') <=> \E p \in DOMAIN disk' : x \in Edges(DOMAIN disk', p, disk'[p])
  BY MembersOfOver
<1>3. \A x : x \in kb.backlinks <=> \E p \in DOMAIN disk : x \in Edges(DOMAIN disk, p, disk[p])
  BY MembersOfOver
<1>5. ASSUME NEW p \in DOMAIN disk \cup DOMAIN disk', p \notin Moved(d), NEW x
      PROVE  /\ p \in DOMAIN disk /\ x \in Edges(DOMAIN disk, p, disk[p]) =>
                  p \in DOMAIN disk' /\ x \in Edges(DOMAIN disk', p, disk'[p])
             /\ p \in DOMAIN disk' /\ x \in Edges(DOMAIN disk', p, disk'[p]) =>
                  p \in DOMAIN disk /\ x \in Edges(DOMAIN disk, p, disk[p])
  <2>1. CASE p \in Assets /\ disk'[p].kind = "asset" /\ p \notin DOMAIN disk
    BY <2>1, NewAssetsAreMute
  <2>2. CASE ~(p \in Assets /\ disk'[p].kind = "asset" /\ p \notin DOMAIN disk)
    <3>1. p \in DOMAIN disk => (disk[p].kind # "broken" \/ disk[p].links = {})
      BY DEF Indexable, DiskOK
    <3>2. QED
      BY <1>5, <2>2, <3>1, Left DEF Indexable
  <2>3. QED
    BY <2>1, <2>2
<1>6. ASSUME NEW x, x \in BacklinksAfter(d)
      PROVE  x \in AllEdges(disk')
  <2>1. CASE x \in NewEdges(d)
    BY <1>2, <2>1 DEF EdgesIn, NewEdges
  <2>2. CASE x \in kb.backlinks /\ <<x.source, x.target>> \notin Stale(d)
    <3>1. PICK p \in DOMAIN disk : x \in Edges(DOMAIN disk, p, disk[p])
      BY <1>3, <2>2
    <3>2. x \notin OldEdges(d)
      BY <2>2 DEF Stale
    <3>3. p \notin Moved(d)
      BY <3>1, <3>2 DEF EdgesIn, OldEdges
    <3>4. QED
      BY <1>2, <1>5, <3>1, <3>3
  <2>3. QED
    BY <1>1, <1>6, <2>1, <2>2
<1>7. ASSUME NEW x, x \in AllEdges(disk')
      PROVE  x \in BacklinksAfter(d)
  <2>1. PICK p \in DOMAIN disk' : x \in Edges(DOMAIN disk', p, disk'[p])
    BY <1>2, <1>7
  <2>2. CASE p \in Moved(d)
    BY <1>1, <2>1, <2>2 DEF EdgesIn, NewEdges
  <2>3. CASE p \notin Moved(d)
    <3>1. x \in kb.backlinks
      BY <1>3, <1>5, <2>1, <2>3
    <3>0. x.source = p
      BY <2>1, Owned
    <3>2. <<x.source, x.target>> \notin Stale(d)
      BY StaleAreMoved, <2>3, <3>0 DEF Stale
    <3>3. QED
      BY <1>1, <3>1, <3>2
  <2>4. QED
    BY <2>2, <2>3
<1>8. QED
  BY <1>6, <1>7

\* The two indices kept by differences.
LEMMA NamesSpliced ==
    ASSUME ~Unreadable, DiskOK, HeldIsDisk, kb.names = Over(disk, Names), NEW d, Step(d)
    PROVE  NamesAfter(d) = Over(disk', Names)
<1> DEFINE before == UNION {Names(p, disk[p]) : p \in (Touched(d) \cup Deleted(d)) \cap DOMAIN disk}
           after == UNION {Names(p, disk'[p]) : p \in Touched(d)}
<1>1. NamesAfter(d) = (kb.names \ before) \cup after
  BY DEF NamesAfter, Delta, Before, After, HeldIsDisk
<1>2. \A x : x \in Over(disk', Names) <=> \E p \in DOMAIN disk' : x \in Names(p, disk'[p])
  BY MembersOfOver
<1>3. \A x : x \in kb.names <=> \E p \in DOMAIN disk : x \in Names(p, disk[p])
  BY MembersOfOver
<1>4. Touched(d) \subseteq DOMAIN disk'
  BY DEF Touched, Parsed, On
<1>5. ASSUME NEW p \in DOMAIN disk', p \notin Touched(d), NEW x \in Names(p, disk'[p])
      PROVE  p \in DOMAIN disk /\ disk'[p] = disk[p]
  BY <1>5, Untouched, NewAssetsAreMute
<1>6. ASSUME NEW x, x \in NamesAfter(d)
      PROVE  x \in Over(disk', Names)
  <2>1. CASE x \in after
    BY <1>2, <1>4, <2>1
  <2>2. CASE x \in kb.names \ before
    <3>1. PICK p \in DOMAIN disk : x \in Names(p, disk[p])
      BY <1>3, <2>2
    <3>2. p \notin Touched(d) \cup Deleted(d)
      BY <2>2, <3>1
    <3>3. p \in DOMAIN disk'
      BY <3>2, Staying
    <3>4. disk'[p] = disk[p]
      <4>1. CASE p \in Assets
        BY <3>3, <4>1, BatchDisk, IncrementalAssumption DEF Step, DiskOK
      <4>2. CASE p \notin Assets
        BY <3>2, <3>3, <4>2, Untouched
      <4>3. QED
        BY <4>1, <4>2
    <3>5. QED
      BY <1>2, <3>1, <3>3, <3>4
  <2>3. QED
    BY <1>1, <1>6, <2>1, <2>2
<1>7. ASSUME NEW x, x \in Over(disk', Names)
      PROVE  x \in NamesAfter(d)
  <2>1. PICK p \in DOMAIN disk' : x \in Names(p, disk'[p])
    BY <1>2, <1>7
  <2>2. CASE p \in Touched(d)
    BY <1>1, <2>1, <2>2
  <2>3. CASE p \notin Touched(d)
    <3>1. p \in DOMAIN disk /\ x \in kb.names /\ x.source = p
      BY <1>3, <1>5, <2>1, <2>3, Owned
    <3>2. p \notin Deleted(d)
      BY DEF Deleted, On
    <3>3. x \notin before
      BY <2>3, <3>1, <3>2, Owned
    <3>4. QED
      BY <1>1, <3>1, <3>3
  <2>4. QED
    BY <2>2, <2>3
<1>8. QED
  BY <1>6, <1>7

LEMMA MembersSpliced ==
    ASSUME ~Unreadable, DiskOK, HeldIsDisk, kb.members = Over(disk, Memberships), NEW d, Step(d)
    PROVE  MembersAfter(d) = Over(disk', Memberships)
<1> DEFINE before == UNION {Memberships(p, disk[p]) : p \in (Touched(d) \cup Deleted(d)) \cap DOMAIN disk}
           after == UNION {Memberships(p, disk'[p]) : p \in Touched(d)}
<1>1. MembersAfter(d) = (kb.members \ before) \cup after
  BY DEF MembersAfter, Delta, Before, After, HeldIsDisk
<1>2. \A x : x \in Over(disk', Memberships) <=> \E p \in DOMAIN disk' : x \in Memberships(p, disk'[p])
  BY MembersOfOver
<1>3. \A x : x \in kb.members <=> \E p \in DOMAIN disk : x \in Memberships(p, disk[p])
  BY MembersOfOver
<1>4. Touched(d) \subseteq DOMAIN disk'
  BY DEF Touched, Parsed, On
<1>5. ASSUME NEW p \in DOMAIN disk', p \notin Touched(d), NEW x \in Memberships(p, disk'[p])
      PROVE  p \in DOMAIN disk /\ disk'[p] = disk[p]
  BY <1>5, Untouched, NewAssetsAreMute
<1>6. ASSUME NEW x, x \in MembersAfter(d)
      PROVE  x \in Over(disk', Memberships)
  <2>1. CASE x \in after
    BY <1>2, <1>4, <2>1
  <2>2. CASE x \in kb.members \ before
    <3>1. PICK p \in DOMAIN disk : x \in Memberships(p, disk[p])
      BY <1>3, <2>2
    <3>2. p \notin Touched(d) \cup Deleted(d)
      BY <2>2, <3>1
    <3>3. p \in DOMAIN disk'
      BY <3>2, Staying
    <3>4. disk'[p] = disk[p]
      <4>1. CASE p \in Assets
        BY <3>3, <4>1, BatchDisk, IncrementalAssumption DEF Step, DiskOK
      <4>2. CASE p \notin Assets
        BY <3>2, <3>3, <4>2, Untouched
      <4>3. QED
        BY <4>1, <4>2
    <3>5. QED
      BY <1>2, <3>1, <3>3, <3>4
  <2>3. QED
    BY <1>1, <1>6, <2>1, <2>2
<1>7. ASSUME NEW x, x \in Over(disk', Memberships)
      PROVE  x \in MembersAfter(d)
  <2>1. PICK p \in DOMAIN disk' : x \in Memberships(p, disk'[p])
    BY <1>2, <1>7
  <2>2. CASE p \in Touched(d)
    BY <1>1, <2>1, <2>2
  <2>3. CASE p \notin Touched(d)
    <3>1. p \in DOMAIN disk /\ x \in kb.members /\ x.member = p
      BY <1>3, <1>5, <2>1, <2>3, Owned
    <3>2. p \notin Deleted(d)
      BY DEF Deleted, On
    <3>3. x \notin before
      BY <2>3, <3>1, <3>2, Owned
    <3>4. QED
      BY <1>1, <3>1, <3>3
  <2>4. QED
    BY <2>2, <2>3
<1>8. QED
  BY <1>6, <1>7

\* No file that came or went has a case variant, so no collision did.
LEMMA CollisionsKept ==
    ASSUME ~Unreadable, DiskOK, HeldIsDisk, NEW d, Step(d)
    PROVE  Collisions(DOMAIN disk') = Collisions(DOMAIN disk)
<1>1. DOMAIN disk' = (DOMAIN disk \cup Added(d)) \ Deleted(d)
  BY PatchedIsDisk DEF PatchedIndex, HeldIsDisk
<1>2. Deleted(d) \subseteq DOMAIN disk
  BY DEF Deleted, Held, HeldIsDisk
<1>3. ASSUME NEW p \in Added(d) \cup Deleted(d), NEW q \in DOMAIN disk \cup Added(d)
      PROVE  ~Variants(p, q) /\ ~Variants(q, p)
  <2>1. ~Variants(p, q)
    BY DEF Step, Declines, HeldIsDisk
  <2>2. QED
    BY <2>1 DEF Variants
<1>4. QED
  BY <1>1, <1>2, <1>3 DEF Collisions

-----------------------------------------------------------------------------
(* The held indices are those of a full build.                             *)

\* IndicesAgree, part by part, and what the disk holds.
IndicesInv ==
    /\ DiskOK
    /\ HeldIsDisk
    /\ kb.collisions = Collisions(DOMAIN disk)
    /\ kb.fold = Fold(disk)
    /\ kb.backlinks = AllEdges(disk)
    /\ kb.names = Over(disk, Names)
    /\ kb.members = Over(disk, Memberships)

LEMMA IndicesSplit ==
    IndicesAgree <=>
      /\ HeldIsDisk
      /\ kb.collisions = Collisions(DOMAIN disk)
      /\ kb.fold = Fold(disk)
      /\ kb.backlinks = AllEdges(disk)
      /\ kb.names = Over(disk, Names)
      /\ kb.members = Over(disk, Memberships)
  BY DEF IndicesAgree, Build, HeldIsDisk, AllEdges

LEMMA SpliceIndices ==
    ASSUME Indexable, IndicesInv, NEW d, Step(d), kb' = Splice(d), UNCHANGED aborted
    PROVE  IndicesInv'
<1>1. PatchedIndex(d) = DOMAIN disk' /\ Patched(d) = disk'
  BY PatchedIsDisk DEF IndicesInv, Indexable, Splicable
<1>2. /\ kb'.catalog = Patched(d) /\ kb'.index = PatchedIndex(d)
      /\ kb'.collisions = kb.collisions /\ kb'.fold = Fold(Patched(d))
      /\ kb'.backlinks = BacklinksAfter(d) /\ kb'.names = NamesAfter(d)
      /\ kb'.members = MembersAfter(d)
  BY DEF Splice
<1>3. DiskOK'
  BY BatchDisk DEF IndicesInv, Step
<1>4. HeldIsDisk' /\ kb'.fold = Fold(disk')
  BY <1>1, <1>2 DEF HeldIsDisk
<1>5. kb'.collisions = Collisions(DOMAIN disk')
  BY <1>2, CollisionsKept DEF IndicesInv, Indexable, Splicable
<1>6. kb'.backlinks = AllEdges(disk') /\ kb'.names = Over(disk', Names)
  BY <1>2, BacklinksSpliced, NamesSpliced DEF IndicesInv, Indexable, Splicable
<1>7. kb'.members = Over(disk', Memberships)
  BY <1>2, MembersSpliced DEF IndicesInv, Indexable, Splicable
<1>8. (kb.members = Over(disk, Memberships))'
  BY <1>7 DEF Over, Memberships
<1>9. QED
  BY <1>3, <1>4, <1>5, <1>6, <1>7, <1>8 DEF IndicesInv

LEMMA BuildIndices ==
    ASSUME DiskOK', kb' = Build(disk'), UNCHANGED aborted
    PROVE  IndicesInv'
<1>1. /\ kb'.catalog = disk' /\ kb'.index = DOMAIN disk'
      /\ kb'.collisions = Collisions(DOMAIN disk') /\ kb'.fold = Fold(disk')
      /\ kb'.backlinks = AllEdges(disk') /\ kb'.names = Over(disk', Names)
      /\ kb'.members = Over(disk', Memberships)
  BY DEF Build, AllEdges
<1>2. (kb.members = Over(disk, Memberships))'
  BY <1>1 DEF Over, Memberships
<1>3. QED
  BY <1>1, <1>2 DEF IndicesInv, HeldIsDisk

LEMMA InitIndices == Init => IndicesInv
<1>1. SUFFICES ASSUME Init PROVE IndicesInv
  OBVIOUS
<1>2. DiskOK
  <2>1. disk = [p \in {} |-> {}]
    BY <1>1 DEF Init
  <2>2. QED
    BY <2>1 DEF DiskOK
<1>3. kb = Build(disk)
  BY <1>1 DEF Init
<1>4. IndicesAgree
  BY <1>3 DEF IndicesAgree
<1>5. QED
  BY <1>2, <1>4, IndicesSplit DEF IndicesInv

\* incremental.rs promises a splice "byte-identical to a full build": so the
\* catalog, the path index and its collisions, the backlinks, the referenced
\* names, the members of each type's closure and the fold of the peer types are,
\* after any batches, whichever of them were spliced.
THEOREM IndicesMatchABuild == ASSUME Indexable PROVE Spec => []IndicesAgree
<1>1. IndicesInv /\ [Next]_vars => IndicesInv'
  <2>1. SUFFICES ASSUME IndicesInv, [Next]_vars PROVE IndicesInv'
    OBVIOUS
  <2>2. CASE Spliced
    BY <2>1, <2>2, SpliceIndices DEF Spliced, Step
  <2>3. CASE Rebuilt
    BY <2>1, <2>3, BuildIndices, BatchDisk DEF Rebuilt, IndicesInv
  <2>4. CASE UNCHANGED vars
    BY <2>1, <2>4 DEF vars, IndicesInv, DiskOK, HeldIsDisk, Over, Memberships
  <2>5. QED
    BY <2>1, <2>2, <2>3, <2>4 DEF Next
<1>2. IndicesInv => IndicesAgree
  BY IndicesSplit DEF IndicesInv
<1>3. QED
  BY InitIndices, <1>1, <1>2, PTL DEF Spec

-----------------------------------------------------------------------------
(* The diagnostics of a splice.                                            *)

\* The file is never an instance that does not parse.
NeverBreaks(t) == \A c \in Contents[t] : c.kind # "broken"

\* No type is a peer's twin; a link reads the claim of a file, or from a slot the
\* block of one that does not break; a docstring has no slots.
Diagnosable ==
    /\ Splicable
    /\ Twins = {}
    /\ \A p \in Paths : \A c \in Contents[p] : \A l \in c.links :
         /\ \/ l.frag = "none"
            \/ /\ l.slot /\ l.frag = "referent"
               /\ \A I \in SUBSET Paths : \A t \in HitsOf(I, p, l) : NeverBreaks(t)
         /\ c.kind = "typedef" => ~l.slot

LEMMA ShapesApart ==
    ASSUME Twins = {}, NEW f, NEW g, NEW p, NEW c
    PROVE  Resolved(f, p, c) = Resolved(g, p, c)
  BY DEF Resolved, Shape

LEMMA SoleHit ==
    ASSUME NEW p, NEW l, NEW I \in SUBSET Paths, Cardinality(HitsOf(I, p, l)) = 1
    PROVE  \E t : HitsOf(I, p, l) = {t} /\ t \in I /\ RepoOf(t) = Toward(p, l)
<1>1. HitsOf(I, p, l) \subseteq {q \in I : RepoOf(q) = Toward(p, l)}
  BY HitsAreThere
<1>2. IsFiniteSet(HitsOf(I, p, l))
  BY <1>1, IncrementalAssumption, FS_Subset
<1>3. \E t : HitsOf(I, p, l) = {t}
  BY <1>2, FS_Singleton
<1>4. QED
  BY <1>1, <1>3

\* What the splice finds dependents by: the names, and the links of what is
\* validated.
DependentsInv ==
    /\ DiskOK
    /\ HeldIsDisk
    /\ kb.names = Over(disk, Names)
    /\ \A p \in DOMAIN disk :
         disk[p].kind \in Named => Edges(DOMAIN disk, p, disk[p]) \subseteq kb.backlinks

\* The target of a link keeps what the link reads of it, if its source is not
\* among the referrers to re-validate.
LEMMA SameFragment ==
    ASSUME Diagnosable, DependentsInv, NEW d, Step(d),
           NEW p \in DOMAIN disk, p \notin Referrers(d),
           NEW l \in Checked(p, disk[p]), Followed(p, l),
           NEW t \in DOMAIN disk, t \in DOMAIN disk', RepoOf(t) = Toward(p, l),
           HitsOf(DOMAIN disk, p, l) = {t}
    PROVE  Fragment(disk', t, l) = Fragment(disk, t, l)
<1>1. l \in disk[p].links /\ disk[p].kind \in Named
  BY DEF Checked, Named
<1>2. disk[p] \in Contents[p] /\ p \in Paths /\ t \in Paths /\ DOMAIN disk \in SUBSET Paths
  BY DEF DependentsInv, DiskOK
<1>3. \/ l.frag = "none"
      \/ l.slot /\ l.frag = "referent" /\ NeverBreaks(t)
  BY <1>1, <1>2 DEF Diagnosable
<1>4. CASE t \notin Touched(d)
  <2>1. disk'[t] = disk[t]
    <3>1. CASE t \in Assets
      BY <3>1, BatchDisk, IncrementalAssumption DEF Step, DiskOK, DependentsInv
    <3>2. CASE t \notin Assets
      BY <1>4, <3>2, Untouched DEF DependentsInv, Diagnosable, Splicable
    <3>3. QED
      BY <3>1, <3>2
  <2>2. ClaimsAt(disk', t) = ClaimsAt(disk, t) /\ BodyAt(disk', t) = BodyAt(disk, t)
    BY <2>1 DEF ClaimsAt, BodyAt
  <2>3. QED
    BY <2>2 DEF Fragment
<1>5. CASE t \in Touched(d) /\ ~l.slot
  BY <1>3, <1>5 DEF Fragment
<1>6. CASE t \in Touched(d) /\ l.slot
  <2> DEFINE e == [source |-> p, target |-> t, slot |-> l.slot, frag |-> l.frag]
  <2>1. e \in kb.backlinks
    <3> DEFINE E(m) == {[source |-> p, target |-> u, slot |-> m.slot, frag |-> m.frag] :
                          u \in Sole(HitsOf(DOMAIN disk, p, m))}
    <3>1. Edges(DOMAIN disk, p, disk[p]) = UNION {E(m) : m \in LinksForming(disk[p])}
      BY DEF Edges
    <3>2. l \in LinksForming(disk[p])
      BY <1>1 DEF LinksForming, Named
    <3>3. e \in E(l)
      BY DEF Sole
    <3> HIDE DEF E, e
    <3>4. e \in Edges(DOMAIN disk, p, disk[p])
      BY <3>1, <3>2, <3>3
    <3>5. QED
      BY <1>1, <3>4 DEF DependentsInv
  <2>2. RepoOf(t) \notin aborted
    <3>1. disk[p].kind # "typedef"
      BY <1>1, <1>2, <1>6 DEF Diagnosable
    <3>2. QED
      BY <3>1 DEF Followed, Checked, Toward
  <2>3. Patched(d) = disk' /\ kb.catalog = disk
    BY PatchedIsDisk DEF DependentsInv, HeldIsDisk, Diagnosable, Splicable
  <2>4. IF l.frag \in {"block", "referent"} THEN ~BlocksChanged(disk', t)
                                            ELSE ~ClaimChanged(disk', t)
    <3>1. SUFFICES ASSUME IF l.frag \in {"block", "referent"} THEN BlocksChanged(disk', t)
                                                              ELSE ClaimChanged(disk', t)
                   PROVE  p \in Referrers(d)
      OBVIOUS
    <3>2. e \in {x \in kb.backlinks :
                   /\ x.target \in Touched(d) /\ RepoOf(x.target) \notin aborted
                   /\ x.slot
                   /\ IF x.frag \in {"block", "referent"} THEN BlocksChanged(disk', x.target)
                                                          ELSE ClaimChanged(disk', x.target)}
      BY <1>6, <2>1, <2>2, <3>1
    <3>3. e.source = p
      OBVIOUS
    <3> HIDE DEF e
    <3>4. QED
      BY <2>3, <3>2, <3>3 DEF Referrers
  <2>5. CASE l.frag = "none"
    BY <2>3, <2>4, <2>5 DEF ClaimChanged, Fragment
  <2>6. CASE l.frag = "referent" /\ NeverBreaks(t)
    <3>1. disk'[t] \in Contents[t] /\ disk[t] \in Contents[t]
      BY BatchDisk DEF Step, DiskOK, DependentsInv
    <3>2. BodyAt(disk', t) = HeldBody(disk', t) /\ BodyAt(disk, t) = HeldBody(disk, t)
      BY <2>6, <3>1 DEF BodyAt, HeldBody, Typed, NeverBreaks
    <3>3. BodyAt(disk', t) = BodyAt(disk, t)
      BY <2>3, <2>4, <2>6, <3>2 DEF BlocksChanged
    <3>4. QED
      BY <2>6, <3>3 DEF Fragment
  <2>7. QED
    BY <1>3, <2>5, <2>6
<1>7. QED
  BY <1>4, <1>5, <1>6

LEMMA SameReading ==
    ASSUME Diagnosable, DependentsInv, NEW d, Step(d),
           NEW p \in DOMAIN disk, p \notin Referrers(d), p \notin FlipSources(d),
           NEW l \in Checked(p, disk[p])
    PROVE  Reading(disk', p, l) = Reading(disk, p, l)
<1> DEFINE hits == HitsOf(DOMAIN disk, p, l)
           Seen(cat, h) == IF Cardinality(h) = 1 /\ Followed(p, l)
                             THEN Fragment(cat, CHOOSE t \in h : TRUE, l) ELSE <<>>
           seen(cat) == Seen(cat, hits)
<1>1. l \in disk[p].links /\ disk[p].kind \in Named
  BY DEF Checked, Named
<1>2. HitsOf(DOMAIN disk', p, l) = hits
  BY <1>1, SameHitsAcross DEF DependentsInv, Diagnosable
<1>3. DOMAIN disk \in SUBSET Paths /\ DOMAIN disk' \in SUBSET Paths
  BY BatchDisk DEF Step, DiskOK, DependentsInv
<1>4. seen(disk') = seen(disk)
  <2>1. CASE Cardinality(hits) = 1 /\ Followed(p, l)
    <3>1. PICK t : hits = {t} /\ t \in DOMAIN disk /\ RepoOf(t) = Toward(p, l)
      BY <1>3, <2>1, SoleHit
    <3>2. t \in DOMAIN disk'
      BY <1>2, <3>1, HitsAreThere
    <3>3. Fragment(disk', t, l) = Fragment(disk, t, l)
      BY <2>1, <3>1, <3>2, SameFragment
    <3>4. (CHOOSE u \in hits : TRUE) = t
      BY <3>1
    <3> HIDE DEF hits
    <3>5. QED
      BY <3>3, <3>4
  <2>2. CASE ~(Cardinality(hits) = 1 /\ Followed(p, l))
    BY <2>2
  <2>3. QED
    BY <2>1, <2>2
<1>5. /\ Reading(disk, p, l) = [link |-> l, hits |-> hits, seen |-> seen(disk)]
      /\ Reading(disk', p, l) = [link |-> l, hits |-> hits, seen |-> seen(disk')]
  <2>1. \A cat : Reading(cat, p, l) = [link |-> l, hits |-> HitsOf(DOMAIN cat, p, l),
                                       seen |-> Seen(cat, HitsOf(DOMAIN cat, p, l))]
    BY DEF Reading
  <2> HIDE DEF Seen
  <2>2. QED
    BY <1>2, <2>1
<1> HIDE DEF hits, seen
<1>6. QED
  BY <1>4, <1>5

LEMMA SameSlice ==
    ASSUME Diagnosable, DependentsInv, NEW d, Step(d), NEW p \in DOMAIN disk',
           p \in DOMAIN disk, p \notin Moved(d)
    PROVE  Slice(disk', Fold(disk'), p) = Slice(disk, Fold(disk), p)
<1>1. disk'[p] = disk[p] /\ p \notin FlipSources(d) /\ p \notin Referrers(d)
  BY Left DEF DependentsInv, Diagnosable
<1>2. Resolved(Fold(disk'), p, disk[p]) = Resolved(Fold(disk), p, disk[p])
  BY ShapesApart DEF Diagnosable
<1>3. {Reading(disk', p, l) : l \in Checked(p, disk[p])}
        = {Reading(disk, p, l) : l \in Checked(p, disk[p])}
  BY <1>1, SameReading
<1>4. QED
  BY <1>1, <1>2, <1>3 DEF Slice

\* DiagnosticsAgree, part by part, and what the next splice will need.
DiagnosticsInv ==
    /\ DependentsInv
    /\ kb.resolved = [p \in DOMAIN disk |-> Resolved(Fold(disk), p, disk[p])]
    /\ kb.diags = [p \in DOMAIN disk |-> Slice(disk, Fold(disk), p)]

LEMMA DiagnosticsSplit ==
    DiagnosticsAgree <=>
      /\ kb.resolved = [p \in DOMAIN disk |-> Resolved(Fold(disk), p, disk[p])]
      /\ kb.diags = [p \in DOMAIN disk |-> Slice(disk, Fold(disk), p)]
  BY DEF DiagnosticsAgree, Build

LEMMA IndicesGiveDependents == IndicesInv => DependentsInv
<1>1. ASSUME IndicesInv, NEW p \in DOMAIN disk
      PROVE  Edges(DOMAIN disk, p, disk[p]) \subseteq kb.backlinks
  BY <1>1, MembersOfOver DEF IndicesInv
<1>2. QED
  BY <1>1 DEF IndicesInv, DependentsInv

LEMMA SpliceDependents ==
    ASSUME Splicable, DependentsInv, NEW d, Step(d), kb'.catalog = Patched(d),
           kb'.index = PatchedIndex(d), kb'.names = NamesAfter(d),
           kb'.backlinks = BacklinksAfter(d)
    PROVE  DependentsInv'
<1>1. PatchedIndex(d) = DOMAIN disk' /\ Patched(d) = disk' /\ kb.catalog = disk
  BY PatchedIsDisk DEF DependentsInv, HeldIsDisk, Splicable
<1>2. DiskOK' /\ HeldIsDisk' /\ kb'.names = Over(disk', Names)
  BY <1>1, BatchDisk, NamesSpliced DEF Step, DependentsInv, HeldIsDisk, Splicable
<1>3. kb'.backlinks =
        {b \in kb.backlinks : <<b.source, b.target>> \notin Stale(d)} \cup NewEdges(d)
  BY <1>1, BacklinksAre
<1>5. ASSUME NEW p \in DOMAIN disk', disk'[p].kind \in Named,
             NEW x \in Edges(DOMAIN disk', p, disk'[p])
      PROVE  x \in kb'.backlinks
  <2>1. CASE p \in Moved(d)
    BY <1>3, <2>1 DEF EdgesIn, NewEdges
  <2>2. CASE p \notin Moved(d)
    <3>1. /\ p \in DOMAIN disk /\ disk'[p] = disk[p]
          /\ Edges(DOMAIN disk', p, disk'[p]) = Edges(DOMAIN disk, p, disk[p])
      BY <1>5, <2>2, Left DEF DependentsInv, Named
    <3>2. x \in kb.backlinks /\ x.source = p
      BY <1>5, <3>1, Owned DEF DependentsInv
    <3>3. <<x.source, x.target>> \notin Stale(d)
      BY StaleAreMoved, <2>2, <3>2 DEF Stale
    <3>4. QED
      BY <1>3, <3>2, <3>3
  <2>3. QED
    BY <2>1, <2>2
<1>6. QED
  BY <1>2, <1>5 DEF DependentsInv

LEMMA SpliceDiagnostics ==
    ASSUME Diagnosable, DiagnosticsInv, NEW d, Step(d), kb' = Splice(d), UNCHANGED aborted
    PROVE  DiagnosticsInv'
<1>1. PatchedIndex(d) = DOMAIN disk' /\ Patched(d) = disk'
  BY PatchedIsDisk DEF DiagnosticsInv, DependentsInv, Diagnosable, Splicable
<1>2. DependentsInv'
  BY SpliceDependents DEF DiagnosticsInv, Diagnosable, Splice
<1> DEFINE fold == Fold(disk')
<1>3. /\ kb'.resolved = [p \in DOMAIN disk' |->
                           IF p \in Touched(d) THEN Resolved(fold, p, disk'[p])
                           ELSE IF Held(p) THEN kb.resolved[p] ELSE {}]
      /\ kb'.diags = [p \in DOMAIN disk' |->
                        IF p \in Touched(d) \cup Dependents(d) THEN Slice(disk', fold, p)
                        ELSE IF Held(p) THEN kb.diags[p] ELSE Slice(disk', fold, p)]
  BY <1>1 DEF Splice
<1>4. ASSUME NEW p \in DOMAIN disk', p \notin Touched(d)
      PROVE  Resolved(fold, p, disk'[p]) = IF Held(p) THEN kb.resolved[p] ELSE {}
  <2>1. CASE Held(p)
    <3>1. p \in DOMAIN disk /\ disk'[p] = disk[p]
      <4>1. p \in DOMAIN disk
        BY <2>1 DEF Held, DiagnosticsInv, DependentsInv, HeldIsDisk
      <4>2. CASE p \in Assets
        BY <4>1, <4>2, BatchDisk, IncrementalAssumption
        DEF Step, DiskOK, DiagnosticsInv, DependentsInv
      <4>3. CASE p \notin Assets
        BY <1>4, <4>1, <4>3, Untouched DEF DiagnosticsInv, DependentsInv, Diagnosable, Splicable
      <4>4. QED
        BY <4>1, <4>2, <4>3
    <3>2. kb.resolved[p] = Resolved(Fold(disk), p, disk[p])
      BY <3>1 DEF DiagnosticsInv
    <3>3. Resolved(fold, p, disk[p]) = Resolved(Fold(disk), p, disk[p])
      BY ShapesApart DEF Diagnosable
    <3>4. QED
      BY <2>1, <3>1, <3>2, <3>3
  <2>2. CASE ~Held(p)
    <3>1. disk'[p].kind = "asset"
      BY <1>4, <2>2, Untouched
      DEF Held, HeldIsDisk, DiagnosticsInv, DependentsInv, Diagnosable, Splicable
    <3>2. QED
      BY <2>2, <3>1 DEF Resolved, Typed
  <2>3. QED
    BY <2>1, <2>2
<1>5. ASSUME NEW p \in DOMAIN disk', p \notin Touched(d) \cup Dependents(d), Held(p)
      PROVE  Slice(disk', fold, p) = kb.diags[p]
  <2>1. p \in DOMAIN disk /\ kb.diags[p] = Slice(disk, Fold(disk), p)
    BY <1>5 DEF Held, HeldIsDisk, DiagnosticsInv, DependentsInv
  <2>2. p \notin Moved(d)
    BY <1>5 DEF Moved, Deleted, On
  <2>3. QED
    BY <2>1, <2>2, SameSlice DEF DiagnosticsInv
<1>6. kb'.resolved = [p \in DOMAIN disk' |-> Resolved(fold, p, disk'[p])]
  BY <1>3, <1>4
<1>7. kb'.diags = [p \in DOMAIN disk' |-> Slice(disk', fold, p)]
  BY <1>3, <1>5
<1>8. (kb.resolved = [p \in DOMAIN disk |-> Resolved(Fold(disk), p, disk[p])])'
  BY <1>6 DEF Resolved
<1>9. (kb.diags = [p \in DOMAIN disk |-> Slice(disk, Fold(disk), p)])'
  BY <1>7 DEF Slice, Resolved, Reading, Checked, Followed
<1>10. QED
  BY <1>2, <1>8, <1>9 DEF DiagnosticsInv

LEMMA BuildDiagnostics ==
    ASSUME DiskOK', kb' = Build(disk'), UNCHANGED aborted
    PROVE  DiagnosticsInv'
<1>1. DependentsInv'
  BY BuildIndices, MembersOfOver DEF IndicesInv, DependentsInv
<1>2. /\ kb'.resolved = [p \in DOMAIN disk' |-> Resolved(Fold(disk'), p, disk'[p])]
      /\ kb'.diags = [p \in DOMAIN disk' |-> Slice(disk', Fold(disk'), p)]
  BY DEF Build
<1>3. (kb.resolved = [p \in DOMAIN disk |-> Resolved(Fold(disk), p, disk[p])])'
  BY <1>2 DEF Resolved
<1>4. (kb.diags = [p \in DOMAIN disk |-> Slice(disk, Fold(disk), p)])'
  BY <1>2 DEF Slice, Resolved, Reading, Checked, Followed
<1>5. QED
  BY <1>1, <1>3, <1>4 DEF DiagnosticsInv

\* So are each file's diagnostics and served shape: whatever a file reads of one
\* that changed, came or went, recompute_dirty finds it among the dependents or
\* the read is as it was.
THEOREM DiagnosticsMatchABuild == ASSUME Diagnosable PROVE Spec => []DiagnosticsAgree
<1>1. DiagnosticsInv /\ [Next]_vars => DiagnosticsInv'
  <2>1. SUFFICES ASSUME DiagnosticsInv, [Next]_vars PROVE DiagnosticsInv'
    OBVIOUS
  <2>2. CASE Spliced
    BY <2>1, <2>2, SpliceDiagnostics DEF Spliced, Step
  <2>3. CASE Rebuilt
    BY <2>1, <2>3, BuildDiagnostics, BatchDisk DEF Rebuilt, DiagnosticsInv, DependentsInv
  <2>4. CASE UNCHANGED vars
    <3>1. DependentsInv'
      BY <2>1, <2>4 DEF vars, DiagnosticsInv, DependentsInv, DiskOK, HeldIsDisk
    <3>2. (kb.resolved = [p \in DOMAIN disk |-> Resolved(Fold(disk), p, disk[p])])'
      BY <2>1, <2>4 DEF vars, DiagnosticsInv, Resolved
    <3>3. (kb.diags = [p \in DOMAIN disk |-> Slice(disk, Fold(disk), p)])'
      BY <2>1, <2>4 DEF vars, DiagnosticsInv, Slice, Resolved, Reading, Checked, Followed
    <3>4. QED
      BY <3>1, <3>2, <3>3 DEF DiagnosticsInv
  <2>5. QED
    BY <2>1, <2>2, <2>3, <2>4 DEF Next
<1>2. Init => DiagnosticsInv
  <2>1. SUFFICES ASSUME Init PROVE DiagnosticsInv
    OBVIOUS
  <2>2. kb = Build(disk)
    BY <2>1 DEF Init
  <2>3. DiagnosticsAgree
    BY <2>2 DEF DiagnosticsAgree
  <2>4. QED
    BY <2>1, <2>3, InitIndices, IndicesGiveDependents, DiagnosticsSplit DEF DiagnosticsInv
<1>3. DiagnosticsInv => DiagnosticsAgree
  BY DiagnosticsSplit DEF DiagnosticsInv
<1>4. QED
  BY <1>1, <1>2, <1>3, PTL DEF Spec
=============================================================================
