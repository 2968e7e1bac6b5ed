--------------------------- MODULE RefactorProofs ---------------------------
(***************************************************************************)
(* What people wrote is kept, and references lead where they led,          *)
(* whatever becomes of a refactoring, for any workspace, requests, names   *)
(* and bounds.                                                             *)
(*                                                                         *)
(* Edits.  Two futures are kept open while a verb is under way: that it    *)
(* ends, and the writes still to come are on disk (Outlook), and that it   *)
(* fails, and the files it touches are again what was committed (Reset).   *)
(* Whatever is written in time is in both.                                 *)
(*                                                                         *)
(* References.  What a plan makes of the held files leads every reference  *)
(* where it led, verb by verb (Leads).  What a verb writes is what its     *)
(* plan makes of the files as they were when it began, but for links that  *)
(* people added and pins they set (GrownAll), which change no name that a  *)
(* reference is found by.                                                  *)
(***************************************************************************)
EXTENDS Refactor, TLAPS

-----------------------------------------------------------------------------
(* Files and what they hold.                                               *)

\* What a person wrote at k is in c: a link of their own, or a pin.
Has(c, k) == k \in DOMAIN c.places /\ (k[1] # "e" => IsLink(At(c, k)) /\ At(c, k).pin)
Somewhere(d, k) == \E p \in DOMAIN d : Has(d[p], k)

\* The places of c that no person added.
Keys(c) == {k \in DOMAIN c.places : k[1] # "e"}

\* A place is in one file.
Apart(d) == \A p, q \in DOMAIN d : p # q => Keys(d[p]) \cap Keys(d[q]) = {}
Sound(d) == \A p \in DOMAIN d : WellFormed(d[p])

\* The same files with the same places.
Alike(a, b) == DOMAIN a = DOMAIN b /\ \A p \in DOMAIN a : Keys(a[p]) = Keys(b[p])

\* e is c with other things in its places, but for what people wrote.
Carries(c, e) ==
    /\ WellFormed(e) /\ Keys(e) = Keys(c)
    /\ \A k \in DOMAIN c.places : Has(c, k) => Has(e, k)

\* y may stand where x stood: a pinned link for a pinned link.
Fits(x, y) == /\ IsLink(y) => ~IsRecord(y) /\ "pin" \in DOMAIN y
              /\ IsLink(x) /\ x.pin => IsLink(y) /\ y.pin

LEMMA RewriteKeeps ==
    ASSUME NEW c, NEW new, WellFormed(c)
    PROVE  /\ DOMAIN Rewrite(c, new).places = DOMAIN c.places
           /\ \A k \in DOMAIN c.places :
                 At(Rewrite(c, new), k) = IF k \in DOMAIN new THEN new[k] ELSE At(c, k)
           /\ \A k \in DOMAIN c.places : "holds" \in DOMAIN Rewrite(c, new).places[k]
           /\ "places" \in DOMAIN Rewrite(c, new)
  BY DEF Rewrite, WellFormed, At

\* What holds a link or something else holds it by itself.
LEMMA PlaceFits ==
    ASSUME NEW c, WellFormed(c), NEW k \in DOMAIN c.places
    PROVE  /\ Fits(At(c, k), At(c, k))
           /\ IsLink(At(c, k)) => ~IsRecord(At(c, k)) /\ "pin" \in DOMAIN At(c, k)
  BY DEF WellFormed, Fits, At

\* So does what differs from it in other fields than the pin.
LEMMA SameShapeFits ==
    ASSUME NEW x, NEW y, Fits(x, x), DOMAIN y = DOMAIN x, IsLink(x) => y.pin = x.pin
    PROVE  Fits(x, y)
  BY DEF Fits, IsLink, IsRecord

\* A rewrite with what fits keeps what people wrote.
LEMMA RewriteCarries ==
    ASSUME NEW c, NEW new, WellFormed(c),
           \A k \in DOMAIN new \cap DOMAIN c.places : Fits(At(c, k), new[k])
    PROVE  /\ Carries(c, Rewrite(c, new))
           /\ DOMAIN Rewrite(c, new).places = DOMAIN c.places
<1> DEFINE e == Rewrite(c, new)
<1>1. /\ DOMAIN e.places = DOMAIN c.places /\ "places" \in DOMAIN e
      /\ \A k \in DOMAIN c.places :
            /\ At(e, k) = IF k \in DOMAIN new THEN new[k] ELSE At(c, k)
            /\ "holds" \in DOMAIN e.places[k]
  BY RewriteKeeps
<1> HIDE DEF e
<1>2. \A k \in DOMAIN c.places : Fits(At(c, k), At(e, k))
  BY <1>1, PlaceFits
<1>3. WellFormed(e)
  BY <1>1, <1>2 DEF WellFormed, Fits, At
<1>4. Keys(e) = Keys(c)
  BY <1>1 DEF Keys
<1>5. \A k \in DOMAIN c.places : Has(c, k) => Has(e, k)
  BY <1>1, <1>2 DEF Has, Fits
<1>6. QED
  BY <1>1, <1>3, <1>4, <1>5 DEF Carries, e

-----------------------------------------------------------------------------
(* What a verb is about to write.                                          *)

\* The referrers are files of the knowledge base, none of them a host, and
\* what is written to them is what they hold, rewritten.
Referrers(kb, j) ==
    \A p \in DOMAIN j.rewrite :
        /\ p \in DOMAIN kb /\ p \in j.touched /\ p \notin j.hosts
        /\ Carries(kb[p], j.rewrite[p])

\* The writes that end it: a file is moved; a host is rewritten; a host is
\* split in two; two hosts become one.
MovesOne(j) == \E p, q \in j.touched : j.last = <<Move(p, q)>>
PutsOne(kb, j) ==
    \E h \in j.hosts : LET e == j.last[1].file
                       IN  j.last = <<Put(h, e)>> /\ Carries(kb[h], e)
Splits(kb, j) ==
    \E h \in j.hosts, to \in j.absent :
        LET c == j.last[1].file
            e == j.last[2].file
        IN  /\ j.last = <<Put(to, c), Put(h, e)>>
            /\ WellFormed(c) /\ WellFormed(e)
            /\ Keys(c) \cap Keys(e) = {} /\ Keys(c) \cup Keys(e) = Keys(kb[h])
            /\ \A k \in DOMAIN kb[h].places : Has(kb[h], k) => Has(c, k) \/ Has(e, k)
Merges(kb, j) ==
    \E f, into \in j.hosts :
        LET c == j.last[1].file
        IN  /\ f # into /\ j.last = <<Put(into, c), Remove(f)>>
            /\ WellFormed(c) /\ Keys(c) = Keys(kb[into]) \cup Keys(kb[f])
            /\ \A k \in DOMAIN kb[into].places : Has(kb[into], k) => Has(c, k)
            /\ Keys(kb[into]) \cap Keys(kb[f]) = {} =>
                  \A k \in DOMAIN kb[f].places : Has(kb[f], k) => Has(c, k)

Planned(kb, j) ==
    /\ DOMAIN j = DOMAIN NoJob
    /\ j.hosts \subseteq j.touched \cap DOMAIN kb /\ j.absent \subseteq j.touched
    /\ Referrers(kb, j)
    /\ MovesOne(j) \/ PutsOne(kb, j) \/ Splits(kb, j) \/ Merges(kb, j)

\* A reference found is a link that is not pinned.
LEMMA FoundLinks ==
    ASSUME NEW d, NEW f, NEW b \in Backlinks(d, f)
    PROVE  /\ b = <<b[1], b[2]>> /\ b[1] \in DOMAIN d /\ b[2] \in DOMAIN d[b[1]].places
           /\ IsLink(At(d[b[1]], b[2])) /\ ~At(d[b[1]], b[2]).pin
  BY DEF Backlinks, Links, Found

LEMMA FoundKeys ==
    ASSUME NEW d, NEW f, NEW bls \in SUBSET Backlinks(d, f), NEW p, NEW k \in KeysIn(bls, p)
    PROVE  /\ p \in DOMAIN d /\ k \in DOMAIN d[p].places /\ <<p, k>> \in bls
           /\ IsLink(At(d[p], k)) /\ ~At(d[p], k).pin
<1>1. PICK b \in bls : b[1] = p /\ b[2] = k
  BY DEF KeysIn
<1>2. QED
  BY <1>1, FoundLinks

LEMMA FoundSources ==
    ASSUME NEW d, NEW f, NEW bls \in SUBSET Backlinks(d, f), NEW p \in Sources(bls)
    PROVE  p \in DOMAIN d
  BY FoundLinks DEF Sources

\* The links to a file that gets a new name, rewritten.
LEMMA RenamedFits ==
    ASSUME NEW kb, Sound(kb), NEW f, NEW bls \in SUBSET Backlinks(kb, f), NEW p,
           NEW from, NEW to, NEW k \in KeysIn(bls, p)
    PROVE  Fits(At(kb[p], k), RenamedLinks(kb, bls, p, from, to)[k])
<1>1. /\ p \in DOMAIN kb /\ k \in DOMAIN kb[p].places /\ IsLink(At(kb[p], k))
  BY FoundKeys
<1> DEFINE x == At(kb[p], k)
           y == [x EXCEPT !.name = RewrittenTarget(@, from, to)]
<1>2. Fits(x, x) /\ "pin" \in DOMAIN x
  BY <1>1, PlaceFits DEF Sound
<1>3. RenamedLinks(kb, bls, p, from, to)[k] = y
  BY DEF RenamedLinks
<1> HIDE DEF x
<1>4. DOMAIN y = DOMAIN x /\ y.pin = x.pin
  BY <1>2
<1>5. QED
  BY <1>2, <1>3, <1>4, SameShapeFits DEF x

LEMMA RenamePlans ==
    ASSUME NEW kb, Sound(kb), NEW from, NEW to, Rename(kb, from, to) # Refused
    PROVE  Planned(kb, Rename(kb, from, to))
<1> DEFINE bls == Backlinks(kb, from)
           j == Rename(kb, from, to)
           new(p) == RenamedLinks(kb, bls, p, from, to)
<1>1. j = Job({}, {}, [p \in Sources(bls) |-> Rewrite(kb[p], new(p))],
              Spans(bls), <<Move(from, to)>>, {from, to})
  BY DEF Rename
<1>2. /\ j.hosts = {} /\ j.absent = {} /\ j.last = <<Move(from, to)>>
      /\ DOMAIN j.rewrite = Sources(bls) /\ j.touched = {from, to} \cup Sources(bls)
      /\ \A p \in Sources(bls) : j.rewrite[p] = Rewrite(kb[p], new(p))
  BY <1>1 DEF Job
<1>2a. DOMAIN j = DOMAIN NoJob
  BY <1>1 DEF Job, NoJob
<1> HIDE DEF j
<1>3. ASSUME NEW p \in Sources(bls)
      PROVE  p \in DOMAIN kb /\ Carries(kb[p], Rewrite(kb[p], new(p)))
  <2>1. p \in DOMAIN kb /\ WellFormed(kb[p])
    BY FoundSources DEF Sound
  <2>2. \A k \in DOMAIN new(p) : Fits(At(kb[p], k), new(p)[k])
    BY RenamedFits DEF RenamedLinks
  <2> HIDE DEF new
  <2>3. QED
    BY <2>1, <2>2, RewriteCarries
<1>4. Referrers(kb, j)
  BY <1>2, <1>3 DEF Referrers
<1>5. MovesOne(j)
  BY <1>2 DEF MovesOne
<1>6. QED
  BY <1>2, <1>2a, <1>4, <1>5 DEF Planned, j

LEMMA RenameTypePlans ==
    ASSUME NEW kb, Sound(kb), NEW def, NEW new, RenameType(kb, def, new) # Refused
    PROVE  Planned(kb, RenameType(kb, def, new))
<1> DEFINE to == [def EXCEPT !.stem = new]
           bls == Backlinks(kb, def)
           j == RenameType(kb, def, new)
           referrers == Sources(bls) \cup {p \in DOMAIN kb : Claiming(kb, p, def) # {}}
           claims(p) == [k \in Claiming(kb, p, def) |-> [At(kb[p], k) EXCEPT !.type = new]]
           links(p) == RenamedLinks(kb, bls, p, def, to)
           both(p) == Over(claims(p), links(p))
<1>1. j = Job({}, {}, [p \in referrers |-> Rewrite(kb[p], both(p))],
              <<>>, <<Move(def, to)>>, {def, to})
  BY DEF RenameType
<1>2. /\ j.hosts = {} /\ j.absent = {} /\ j.last = <<Move(def, to)>>
      /\ DOMAIN j.rewrite = referrers /\ j.touched = {def, to} \cup referrers
      /\ \A p \in referrers : j.rewrite[p] = Rewrite(kb[p], both(p))
  BY <1>1 DEF Job
<1>2a. DOMAIN j = DOMAIN NoJob
  BY <1>1 DEF Job, NoJob
<1> HIDE DEF j
<1>3. ASSUME NEW p \in referrers
      PROVE  p \in DOMAIN kb /\ Carries(kb[p], Rewrite(kb[p], both(p)))
  <2>1. p \in DOMAIN kb /\ WellFormed(kb[p])
    BY FoundSources DEF Sound
  <2>2. \A k \in DOMAIN links(p) : Fits(At(kb[p], k), links(p)[k])
    BY RenamedFits DEF RenamedLinks
  <2>3. ASSUME NEW k \in Claiming(kb, p, def)
        PROVE  Fits(At(kb[p], k), claims(p)[k])
    <3> DEFINE x == At(kb[p], k)
               y == [x EXCEPT !.type = new]
    <3>1. Fits(x, x) /\ (IsLink(x) => "pin" \in DOMAIN x)
      BY <2>1, PlaceFits DEF Claiming
    <3>2. claims(p)[k] = y
      OBVIOUS
    <3> HIDE DEF x
    <3>3. DOMAIN y = DOMAIN x /\ (IsLink(x) => y.pin = x.pin)
      BY <3>1
    <3>4. QED
      BY <3>1, <3>2, <3>3, SameShapeFits DEF x
  <2>4. DOMAIN claims(p) = Claiming(kb, p, def)
    OBVIOUS
  <2> HIDE DEF claims, links
  <2>5. \A k \in DOMAIN both(p) : Fits(At(kb[p], k), both(p)[k])
    BY <2>2, <2>3, <2>4 DEF Over
  <2> HIDE DEF both
  <2>6. QED
    BY <2>1, <2>5, RewriteCarries
<1>4. Referrers(kb, j)
  BY <1>2, <1>3 DEF Referrers
<1>5. MovesOne(j)
  BY <1>2 DEF MovesOne
<1>6. QED
  BY <1>2, <1>2a, <1>4, <1>5 DEF Planned, j

LEMMA RenameBlockIdPlans ==
    ASSUME NEW kb, Sound(kb), NEW h, NEW id, NEW new, RenameBlockId(kb, h, id, new) # Refused
    PROVE  Planned(kb, RenameBlockId(kb, h, id, new))
<1> DEFINE decl == {k \in Inlines(kb[h]) : At(kb[h], k).id = id}
           bls == {b \in Backlinks(kb, h) : At(kb[b[1]], b[2]).id = id}
           to(p) == [k \in KeysIn(bls, p) |-> [At(kb[p], k) EXCEPT !.id = new]]
           ids == [k \in decl |-> [At(kb[h], k) EXCEPT !.id = new]]
           j == RenameBlockId(kb, h, id, new)
           last == Rewrite(kb[h], Over(to(h), ids))
<1>1. /\ h \in DOMAIN kb
      /\ j = Job({h}, {}, [p \in Sources(bls) \ {h} |-> Rewrite(kb[p], to(p))],
                 Spans(bls), <<Put(h, last)>>, {h})
  BY DEF RenameBlockId
<1>2. /\ j.hosts = {h} /\ j.absent = {} /\ j.last = <<Put(h, last)>>
      /\ DOMAIN j.rewrite = Sources(bls) \ {h} /\ j.touched = {h} \cup (Sources(bls) \ {h})
      /\ \A p \in Sources(bls) \ {h} : j.rewrite[p] = Rewrite(kb[p], to(p))
      /\ j.last[1].file = last
  <2>1. /\ j.hosts = {h} /\ j.absent = {} /\ j.last = <<Put(h, last)>>
        /\ j.rewrite = [p \in Sources(bls) \ {h} |-> Rewrite(kb[p], to(p))]
        /\ j.touched = {h} \cup DOMAIN j.rewrite
    <3> HIDE DEF j, last, to
    <3>1. QED
      BY <1>1 DEF Job
  <2> HIDE DEF j, last, to
  <2>2. DOMAIN j.rewrite = Sources(bls) \ {h}
    BY <2>1
  <2>3. \A p \in Sources(bls) \ {h} : j.rewrite[p] = Rewrite(kb[p], to(p))
    BY <2>1
  <2>4. j.last[1].file = last
    BY <2>1 DEF Put
  <2>5. QED
    BY <2>1, <2>2, <2>3, <2>4
<1>2a. DOMAIN j = DOMAIN NoJob
  BY <1>1 DEF Job, NoJob
<1> HIDE DEF j
<1>3. ASSUME NEW p, NEW k \in KeysIn(bls, p)
      PROVE  Fits(At(kb[p], k), to(p)[k])
  <2> DEFINE x == At(kb[p], k)
             y == [x EXCEPT !.id = new]
  <2>1. p \in DOMAIN kb /\ k \in DOMAIN kb[p].places /\ IsLink(x)
    <3> HIDE DEF x
    <3>1. bls \in SUBSET Backlinks(kb, h)
      OBVIOUS
    <3> HIDE DEF bls
    <3>2. QED
      BY <3>1, FoundKeys DEF x
  <2>2. Fits(x, x) /\ "pin" \in DOMAIN x
    BY <2>1, PlaceFits DEF Sound
  <2>3. to(p)[k] = y
    OBVIOUS
  <2> HIDE DEF x
  <2>4. DOMAIN y = DOMAIN x /\ y.pin = x.pin
    BY <2>2
  <2>5. QED
    BY <2>2, <2>3, <2>4, SameShapeFits DEF x
<1>4. \A p : DOMAIN to(p) = KeysIn(bls, p)
  OBVIOUS
<1>5. \A p \in Sources(bls) : p \in DOMAIN kb
  BY FoundSources
<1>6. ASSUME NEW k \in decl
      PROVE  Fits(At(kb[h], k), ids[k])
  <2> DEFINE x == At(kb[h], k)
             y == [x EXCEPT !.id = new]
  <2>1. Fits(x, x) /\ (IsLink(x) => "pin" \in DOMAIN x)
    BY <1>1, PlaceFits DEF Sound, Inlines, Records
  <2>2. ids[k] = y
    OBVIOUS
  <2> HIDE DEF x
  <2>3. DOMAIN y = DOMAIN x /\ (IsLink(x) => y.pin = x.pin)
    BY <2>1
  <2>4. QED
    BY <2>1, <2>2, <2>3, SameShapeFits DEF x
<1>7. DOMAIN ids = decl
  OBVIOUS
<1> HIDE DEF to, ids
<1>8. \A p \in Sources(bls) \ {h} : Carries(kb[p], Rewrite(kb[p], to(p)))
  BY <1>3, <1>4, <1>5, RewriteCarries DEF Sound
<1>9. Carries(kb[h], last)
  <2>1. \A k \in DOMAIN Over(to(h), ids) : Fits(At(kb[h], k), Over(to(h), ids)[k])
    BY <1>3, <1>4, <1>6, <1>7 DEF Over
  <2>2. QED
    BY <1>1, <2>1, RewriteCarries DEF Sound
<1> HIDE DEF last
<1>10. Referrers(kb, j)
  BY <1>2, <1>5, <1>8 DEF Referrers
<1>11. PutsOne(kb, j)
  BY <1>2, <1>9 DEF PutsOne
<1>12. QED
  BY <1>1, <1>2, <1>2a, <1>10, <1>11 DEF Planned, j

\* A subtree is places of its file.
LEMMA SubtreePlaces ==
    ASSUME NEW c, NEW k \in DOMAIN c.places
    PROVE  Subtree(c, k) \subseteq DOMAIN c.places /\ k \in Subtree(c, k)
  BY DEF Subtree

\* Links that lead to a record, rewritten.
LEMMA PromotedFits ==
    ASSUME NEW kb, Sound(kb), NEW p \in DOMAIN kb, NEW k \in DOMAIN kb[p].places,
           IsLink(At(kb[p], k)), NEW own, NEW to
    PROVE  Fits(At(kb[p], k), PromotedLink(At(kb[p], k), own, to))
<1> DEFINE x == At(kb[p], k)
           y == PromotedLink(x, own, to)
<1>1. Fits(x, x) /\ "pin" \in DOMAIN x
  BY PlaceFits DEF Sound
<1> HIDE DEF x
<1>2. DOMAIN y = DOMAIN x /\ y.pin = x.pin
  BY <1>1 DEF PromotedLink
<1> HIDE DEF y
<1>3. Fits(x, y)
  BY <1>1, <1>2, SameShapeFits
<1>4. QED
  BY <1>3 DEF x, y

LEMMA PromotePlans ==
    ASSUME NEW kb, Sound(kb), NEW h, NEW k, NEW to, Promote(kb, h, k, to) # Refused
    PROVE  Planned(kb, Promote(kb, h, k, to))
<1> DEFINE c     == kb[h]
           own   == At(c, k).id
           tree  == Subtree(c, k)
           ids   == IdsOf(c, tree \cap Inlines(c))
           bls   == {b \in Backlinks(kb, h) : At(kb[b[1]], b[2]).id \in ids}
           outer == {b \in bls : b[1] # h \/ b[2] \notin tree}
           new(p, ks) == [j \in ks |-> PromotedLink(At(kb[p], j), own, to)]
           inner == new(h, KeysIn(bls, h) \cap tree)
           left  == Over(new(h, KeysIn(outer, h)), Only(k, WholeFile(to)))
           moved == Rewrite(c, inner)
           host  == Rewrite(c, left)
           d     == [me |-> At(c, k).me, body |-> FALSE,
                     places |-> Restrict(moved.places, tree \ {k})]
           e     == [host EXCEPT !.places = Restrict(@, (DOMAIN @ \ tree) \cup {k})]
           j     == Promote(kb, h, k, to)
<1>1. /\ h \in DOMAIN kb /\ k \in Inlines(c)
      /\ j = Job({h}, {to}, [p \in Sources(outer) \ {h} |-> Rewrite(kb[p], new(p, KeysIn(outer, p)))],
                 Spans(outer), <<Put(to, d), Put(h, e)>>, {h, to})
  BY DEF Promote
<1>2. /\ j.hosts = {h} /\ j.absent = {to} /\ j.last = <<Put(to, d), Put(h, e)>>
      /\ DOMAIN j.rewrite = Sources(outer) \ {h}
      /\ j.touched = {h, to} \cup (Sources(outer) \ {h})
      /\ \A p \in Sources(outer) \ {h} :
            j.rewrite[p] = Rewrite(kb[p], new(p, KeysIn(outer, p)))
      /\ j.last[1].file = d /\ j.last[2].file = e
  <2> HIDE DEF d, e, new, outer, j
  <2>1. QED
    BY <1>1 DEF Job, Put
<1>2a. DOMAIN j = DOMAIN NoJob
  BY <1>1 DEF Job, NoJob
<1>3. /\ WellFormed(c) /\ k \in DOMAIN c.places /\ IsRecord(At(c, k))
      /\ tree \subseteq DOMAIN c.places /\ k \in tree
  BY <1>1, SubtreePlaces DEF Sound, Inlines, Records
<1>4. bls \in SUBSET Backlinks(kb, h) /\ outer \in SUBSET Backlinks(kb, h)
  OBVIOUS
<1> HIDE DEF j, bls, tree
<1>5. ASSUME NEW p, NEW ks, \/ ks \subseteq KeysIn(outer, p)
                            \/ ks \subseteq KeysIn(bls, p)
      PROVE  \A i \in DOMAIN new(p, ks) : Fits(At(kb[p], i), new(p, ks)[i])
  <2> SUFFICES ASSUME NEW i \in ks
               PROVE  Fits(At(kb[p], i), PromotedLink(At(kb[p], i), own, to))
    OBVIOUS
  <2>1. p \in DOMAIN kb /\ i \in DOMAIN kb[p].places /\ IsLink(At(kb[p], i))
    <3> HIDE DEF outer
    <3>1. QED
      BY <1>4, <1>5, FoundKeys
  <2>2. QED
    BY <2>1, PromotedFits
<1>6. \A p \in Sources(outer) : p \in DOMAIN kb
  <2> HIDE DEF outer
  <2>1. QED
    BY <1>4, FoundSources
<1>7. \A i \in DOMAIN inner : Fits(At(c, i), inner[i])
  BY <1>5
<1>8. \A i \in DOMAIN left : Fits(At(c, i), left[i])
  <2> DEFINE links == new(h, KeysIn(outer, h))
             whole == Only(k, WholeFile(to))
  <2>1. \A i \in DOMAIN links : Fits(At(c, i), links[i])
    BY <1>5
  <2>2. Fits(At(c, k), whole[k]) /\ DOMAIN whole = {k}
    BY <1>3 DEF Only, WholeFile, Fits, IsLink, IsRecord, WellFormed, At
  <2> HIDE DEF links, whole
  <2>3. \A i \in DOMAIN Over(links, whole) : Fits(At(c, i), Over(links, whole)[i])
    BY <2>1, <2>2 DEF Over
  <2>4. QED
    BY <2>3 DEF links, whole
<1>9. \A p \in Sources(outer) \ {h} : Carries(kb[p], Rewrite(kb[p], new(p, KeysIn(outer, p))))
  <2> SUFFICES ASSUME NEW p \in Sources(outer) \ {h}
               PROVE  Carries(kb[p], Rewrite(kb[p], new(p, KeysIn(outer, p))))
    OBVIOUS
  <2> DEFINE n == new(p, KeysIn(outer, p))
  <2>1. \A i \in DOMAIN n : Fits(At(kb[p], i), n[i])
    BY <1>5
  <2> HIDE DEF n
  <2>2. Carries(kb[p], Rewrite(kb[p], n))
    BY <1>6, <2>1, RewriteCarries DEF Sound
  <2>3. QED
    BY <2>2 DEF n
<1> HIDE DEF new, inner, left, c
<1>10. /\ Carries(c, moved) /\ DOMAIN moved.places = DOMAIN c.places
       /\ Carries(c, host) /\ DOMAIN host.places = DOMAIN c.places
  BY <1>3, <1>7, <1>8, RewriteCarries
<1> HIDE DEF moved, host
<1>11. /\ DOMAIN d.places = tree \ {k} /\ \A i \in tree \ {k} : d.places[i] = moved.places[i]
       /\ DOMAIN e.places = (DOMAIN c.places \ tree) \cup {k}
       /\ \A i \in DOMAIN e.places : e.places[i] = host.places[i]
       /\ "places" \in DOMAIN d /\ "places" \in DOMAIN e
  BY <1>3, <1>10 DEF Restrict, Carries, WellFormed
<1> HIDE DEF d, e
<1>12. WellFormed(d) /\ WellFormed(e)
  BY <1>3, <1>10, <1>11 DEF WellFormed, Carries
<1>13. Keys(d) \cap Keys(e) = {} /\ Keys(d) \cup Keys(e) = Keys(c)
  BY <1>3, <1>11 DEF Keys
<1>14. ASSUME NEW i \in DOMAIN c.places, Has(c, i)
       PROVE  Has(d, i) \/ Has(e, i)
  <2>1. CASE i \in tree \ {k}
    BY <1>10, <1>11, <1>14, <2>1 DEF Carries, Has, At
  <2>2. CASE i \notin tree
    BY <1>10, <1>11, <1>14, <2>2 DEF Carries, Has, At
  <2>3. CASE i = k
    BY <1>3, <1>11, <1>14, <2>3 DEF Has, WellFormed, At
  <2>4. QED
    BY <2>1, <2>2, <2>3
<1>15. Referrers(kb, j)
  BY <1>2, <1>6, <1>9 DEF Referrers
<1>16. Splits(kb, j)
  BY <1>2, <1>12, <1>13, <1>14 DEF Splits, c
<1>17. QED
  BY <1>1, <1>2, <1>2a, <1>15, <1>16 DEF Planned, j

\* Links that lead to an inlined file, rewritten.
LEMMA RehomedFits ==
    ASSUME NEW kb, Sound(kb), NEW p \in DOMAIN kb, NEW k \in DOMAIN kb[p].places,
           IsLink(At(kb[p], k)), NEW fresh, NEW name, NEW repo
    PROVE  LET y == Rehomed(At(kb[p], k), fresh)
           IN  /\ Fits(At(kb[p], k), [y EXCEPT !.name = name])
               /\ Fits(At(kb[p], k), [y EXCEPT !.name = name, !.repo = repo])
<1> DEFINE x == At(kb[p], k)
           y == Rehomed(x, fresh)
           u == [y EXCEPT !.name = name]
           v == [y EXCEPT !.name = name, !.repo = repo]
<1>1. Fits(x, x) /\ "pin" \in DOMAIN x
  BY PlaceFits DEF Sound
<1> HIDE DEF x
<1>2. DOMAIN y = DOMAIN x /\ y.pin = x.pin
  BY <1>1 DEF Rehomed
<1> HIDE DEF y
<1>3. /\ DOMAIN u = DOMAIN x /\ u.pin = x.pin
      /\ DOMAIN v = DOMAIN x /\ v.pin = x.pin
  BY <1>1, <1>2
<1> HIDE DEF u, v
<1>4. Fits(x, u) /\ Fits(x, v)
  BY <1>1, <1>3, SameShapeFits
<1>5. QED
  BY <1>4 DEF x, y, u, v

LEMMA InlinePlans ==
    ASSUME NEW kb, Sound(kb), NEW f, NEW into, NEW k, Inline(kb, f, into, k) # Refused
    PROVE  Planned(kb, Inline(kb, f, into, k))
<1> DEFINE bls   == Backlinks(kb, f)
           fresh == FreshFor(kb, f, into)
           cross == {b \in bls : b[1] \notin {f, into}}
           near(p) == [i \in KeysIn(bls, p) |->
                         [Rehomed(At(kb[p], i), fresh) EXCEPT !.name = Local, !.repo = NoRepo]]
           far(p)  == [i \in KeysIn(bls, p) |->
                         [Rehomed(At(kb[p], i), fresh) EXCEPT !.name = Stem(into)]]
           ids   == [i \in Records(kb[f]) |->
                         [At(kb[f], i) EXCEPT !.id = IF @ # NoId /\ @ \in DOMAIN fresh
                                                     THEN fresh[@] ELSE @]]
           rec   == Only(k, [me |-> kb[f].me, id |-> fresh[NoId]])
           host  == Rewrite(kb[into], Over(rec, near(into)))
           file  == Rewrite(kb[f], Over(ids, near(f)))
           c     == [kb[into] EXCEPT !.places = Over(host.places, file.places)]
           j     == Inline(kb, f, into, k)
<1>1. /\ f # into /\ f \in DOMAIN kb /\ into \in DOMAIN kb /\ <<into, k>> \in bls
      /\ j = Job({into, f}, {}, [p \in Sources(cross) |-> Rewrite(kb[p], far(p))],
                 Spans(cross), <<Put(into, c), Remove(f)>>, {into, f})
  BY DEF Inline
<1>2. /\ j.hosts = {into, f} /\ j.absent = {} /\ j.last = <<Put(into, c), Remove(f)>>
      /\ DOMAIN j.rewrite = Sources(cross) /\ j.touched = {into, f} \cup Sources(cross)
      /\ \A p \in Sources(cross) : j.rewrite[p] = Rewrite(kb[p], far(p))
      /\ j.last[1].file = c
  <2> HIDE DEF c, far, cross, j
  <2>1. QED
    BY <1>1 DEF Job, Put
<1>2a. DOMAIN j = DOMAIN NoJob
  BY <1>1 DEF Job, NoJob
<1>3. WellFormed(kb[into]) /\ WellFormed(kb[f])
  BY <1>1 DEF Sound
<1>4. ASSUME NEW p, NEW i \in KeysIn(bls, p)
      PROVE  /\ p \in DOMAIN kb /\ i \in DOMAIN kb[p].places /\ IsLink(At(kb[p], i))
             /\ Fits(At(kb[p], i), near(p)[i]) /\ Fits(At(kb[p], i), far(p)[i])
  <2>1. p \in DOMAIN kb /\ i \in DOMAIN kb[p].places /\ IsLink(At(kb[p], i))
    BY FoundKeys
  <2>2. QED
    BY <2>1, RehomedFits
<1>5. \A p : DOMAIN near(p) = KeysIn(bls, p) /\ DOMAIN far(p) = KeysIn(bls, p)
  OBVIOUS
<1>6. /\ k \in DOMAIN kb[into].places /\ IsLink(At(kb[into], k)) /\ ~At(kb[into], k).pin
  <2> HIDE DEF c
  <2>1. <<into, k>>[1] = into /\ <<into, k>>[2] = k
    OBVIOUS
  <2>2. QED
    BY <1>1, <2>1, FoundLinks
<1>7. Fits(At(kb[into], k), rec[k]) /\ DOMAIN rec = {k}
  BY <1>6 DEF Only, Fits, IsLink, IsRecord
<1>8. ASSUME NEW i \in Records(kb[f])
      PROVE  Fits(At(kb[f], i), ids[i])
  <2> DEFINE x == At(kb[f], i)
             y == ids[i]
  <2>1. Fits(x, x) /\ (IsLink(x) => "pin" \in DOMAIN x)
    BY <1>3, PlaceFits DEF Records
  <2>2. y = [x EXCEPT !.id = IF @ # NoId /\ @ \in DOMAIN fresh THEN fresh[@] ELSE @]
    OBVIOUS
  <2> HIDE DEF x, y, fresh
  <2>3. DOMAIN y = DOMAIN x /\ (IsLink(x) => y.pin = x.pin)
    BY <2>1, <2>2
  <2>4. Fits(x, y)
    BY <2>1, <2>3, SameShapeFits
  <2>5. QED
    BY <2>4 DEF x, y
<1>9. DOMAIN ids = Records(kb[f])
  OBVIOUS
<1>10. \A p \in Sources(cross) : p \in DOMAIN kb /\ p \notin {f, into}
  BY FoundSources, FoundLinks DEF Sources
<1> HIDE DEF near, far, ids, rec, cross, bls, fresh, j
<1>11. \A p \in Sources(cross) : Carries(kb[p], Rewrite(kb[p], far(p)))
  BY <1>4, <1>5, <1>10, RewriteCarries DEF Sound
<1>12. \A i \in DOMAIN Over(rec, near(into)) : Fits(At(kb[into], i), Over(rec, near(into))[i])
  BY <1>4, <1>5, <1>7 DEF Over
<1>13. \A i \in DOMAIN Over(ids, near(f)) : Fits(At(kb[f], i), Over(ids, near(f))[i])
  BY <1>4, <1>5, <1>8, <1>9 DEF Over
<1>14. /\ Carries(kb[into], host) /\ DOMAIN host.places = DOMAIN kb[into].places
       /\ Carries(kb[f], file) /\ DOMAIN file.places = DOMAIN kb[f].places
  BY <1>3, <1>12, <1>13, RewriteCarries
<1> HIDE DEF host, file
<1>15. /\ "places" \in DOMAIN c
       /\ DOMAIN c.places = DOMAIN kb[into].places \cup DOMAIN kb[f].places
       /\ \A i \in DOMAIN kb[into].places : c.places[i] = host.places[i]
       /\ \A i \in DOMAIN kb[f].places \ DOMAIN kb[into].places : c.places[i] = file.places[i]
  BY <1>3, <1>14 DEF Over, WellFormed
<1> HIDE DEF c
<1>16. WellFormed(c)
  BY <1>14, <1>15 DEF WellFormed, Carries
<1>17. Keys(c) = Keys(kb[into]) \cup Keys(kb[f])
  BY <1>15 DEF Keys
<1>18. \A i \in DOMAIN kb[into].places : Has(kb[into], i) => Has(c, i)
  BY <1>14, <1>15 DEF Carries, Has, At
<1>19. ASSUME Keys(kb[into]) \cap Keys(kb[f]) = {},
              NEW i \in DOMAIN kb[f].places, Has(kb[f], i)
       PROVE  Has(c, i)
  <2>1. CASE i[1] = "e"
    BY <1>15, <2>1 DEF Has
  <2>2. CASE i[1] # "e"
    <3>1. i \notin DOMAIN kb[into].places
      BY <1>19, <2>2 DEF Keys
    <3>2. QED
      BY <1>14, <1>15, <1>19, <3>1 DEF Carries, Has, At
  <2>3. QED
    BY <2>1, <2>2
<1>20. Referrers(kb, j)
  BY <1>2, <1>10, <1>11 DEF Referrers
<1>21. Merges(kb, j)
  BY <1>1, <1>2, <1>16, <1>17, <1>18, <1>19 DEF Merges
<1>22. QED
  BY <1>1, <1>2, <1>2a, <1>20, <1>21 DEF Planned, j

\* Whatever is asked, what is to be written is sound.
LEMMA GatheredPlans ==
    ASSUME NEW kb, Sound(kb), NEW r, r.verb \in Verbs, Gathered(kb, r) # Refused
    PROVE  Planned(kb, Gathered(kb, r))
<1>1. CASE r.verb = "rename"
  BY <1>1, RenamePlans DEF Gathered
<1>2. CASE r.verb = "promote"
  BY <1>2, PromotePlans DEF Gathered
<1>3. CASE r.verb = "inline"
  BY <1>3, InlinePlans DEF Gathered
<1>4. CASE r.verb = "rename_block_id"
  BY <1>4, RenameBlockIdPlans DEF Gathered
<1>5. CASE r.verb = "rename_type"
  BY <1>5, RenameTypePlans DEF Gathered
<1>6. QED
  BY <1>1, <1>2, <1>3, <1>4, <1>5 DEF Verbs

-----------------------------------------------------------------------------
(* The two futures of a verb.                                              *)

\* d after the write w; where a move takes a file is of no matter.
After(d, w) ==
    CASE w.op = "put"    -> Over(Only(w.to, w.file), d)
      [] w.op = "remove" -> Restrict(d, DOMAIN d \ {w.from})
      [] w.op = "move"   -> d

\* d after the writes still to come.
Outlook(d, last) ==
    IF last = <<>> THEN d
    ELSE IF Len(last) = 1 THEN After(d, last[1]) ELSE After(After(d, last[1]), last[2])

\* d after a rollback.
Reset(d) == Taking(d, head, job.touched)

\* The writes still to come are the planned ones, or a tail of them.
IsWrite(w) == w.op \in {"put", "move", "remove"}
ToCome(last) ==
    \/ last = <<>>
    \/ last = <<last[1]>> /\ IsWrite(last[1])
    \/ /\ last = <<last[1], last[2]>>
       /\ last[1].op = "put" /\ last[2].op \in {"put", "remove"}

\* The paths a write takes without a look at what is there.
Takes(w) == CASE w.op = "put" -> {w.to} [] w.op = "remove" -> {w.from} [] w.op = "move" -> {}
Taken(last) == UNION {Takes(last[i]) : i \in DOMAIN last}

LEMMA TakenCases ==
    /\ Taken(<<>>) = {}
    /\ \A w : Taken(<<w>>) = Takes(w)
    /\ \A v, w : Taken(<<v, w>>) = Takes(v) \cup Takes(w)
<1>1. ASSUME NEW v, NEW w
      PROVE  Taken(<<v, w>>) = Takes(v) \cup Takes(w)
  <2>1. DOMAIN <<v, w>> = {1, 2} /\ <<v, w>>[1] = v /\ <<v, w>>[2] = w
    OBVIOUS
  <2>2. QED
    BY <2>1 DEF Taken
<1>2. ASSUME NEW w
      PROVE  Taken(<<w>>) = Takes(w)
  <2>1. DOMAIN <<w>> = {1} /\ <<w>>[1] = w
    OBVIOUS
  <2>2. QED
    BY <2>1 DEF Taken
<1>3. Taken(<<>>) = {}
  <2>1. DOMAIN <<>> = {}
    OBVIOUS
  <2>2. QED
    BY <2>1 DEF Taken
<1>4. QED
  BY <1>1, <1>2, <1>3

\* What a write does, path by path.
LEMMA AfterPaths ==
    ASSUME NEW d, NEW w, IsWrite(w), NEW p
    PROVE  /\ p \notin Takes(w) => /\ p \in DOMAIN After(d, w) <=> p \in DOMAIN d
                                   /\ p \in DOMAIN d => After(d, w)[p] = d[p]
           /\ p \in Takes(w) => /\ p \in DOMAIN After(d, w) <=> w.op = "put"
                                /\ w.op = "put" => After(d, w)[p] = w.file
<1>1. CASE w.op = "put"
  BY <1>1 DEF After, Takes, Over, Only
<1>2. CASE w.op = "remove"
  BY <1>2 DEF After, Takes, Restrict
<1>3. CASE w.op = "move"
  BY <1>3 DEF After, Takes
<1>4. QED
  BY <1>1, <1>2, <1>3 DEF IsWrite

LEMMA OutlookOfTwo ==
    ASSUME NEW d, NEW v, NEW w
    PROVE  Outlook(d, <<v, w>>) = After(After(d, v), w)
  BY DEF Outlook

LEMMA OutlookCases ==
    ASSUME NEW d
    PROVE  /\ Outlook(d, <<>>) = d
           /\ \A w : Outlook(d, <<w>>) = After(d, w)
           /\ \A v, w : Outlook(d, <<v, w>>) = After(After(d, v), w)
  BY DEF Outlook

\* e is d but for the paths ps, and at those it does not depend on d.
Elsewhere(d, e, ps) ==
    \A p : p \notin ps => /\ p \in DOMAIN e <=> p \in DOMAIN d
                          /\ p \in DOMAIN d => e[p] = d[p]
Equal(d, e, ps) ==
    \A p : p \in ps => /\ p \in DOMAIN d <=> p \in DOMAIN e
                       /\ p \in DOMAIN d => d[p] = e[p]

LEMMA ElsewhereTwice ==
    ASSUME NEW d, NEW e, NEW f, NEW ps, NEW qs, Elsewhere(d, e, ps), Elsewhere(e, f, qs)
    PROVE  Elsewhere(d, f, ps \cup qs)
  BY DEF Elsewhere

LEMMA EqualTwice ==
    ASSUME NEW d, NEW e, NEW d2, NEW e2, NEW ps, NEW qs, Equal(d, e, ps),
           Elsewhere(d, d2, qs), Elsewhere(e, e2, qs), Equal(d2, e2, qs)
    PROVE  Equal(d2, e2, ps \cup qs)
  BY DEF Elsewhere, Equal

LEMMA AfterElsewhere ==
    ASSUME NEW d, NEW e, NEW w, IsWrite(w)
    PROVE  /\ Elsewhere(d, After(d, w), Takes(w))
           /\ Equal(After(d, w), After(e, w), Takes(w))
<1>1. ASSUME NEW p, p \notin Takes(w)
      PROVE  /\ p \in DOMAIN After(d, w) <=> p \in DOMAIN d
             /\ p \in DOMAIN d => After(d, w)[p] = d[p]
  BY <1>1, AfterPaths
<1>2. ASSUME NEW p, p \in Takes(w)
      PROVE  /\ p \in DOMAIN After(d, w) <=> p \in DOMAIN After(e, w)
             /\ p \in DOMAIN After(d, w) => After(d, w)[p] = After(e, w)[p]
  <2>1. /\ p \in DOMAIN After(d, w) <=> w.op = "put"
        /\ w.op = "put" => After(d, w)[p] = w.file
    BY <1>2, AfterPaths
  <2>2. /\ p \in DOMAIN After(e, w) <=> w.op = "put"
        /\ w.op = "put" => After(e, w)[p] = w.file
    BY <1>2, AfterPaths
  <2>3. QED
    BY <2>1, <2>2
<1>3. QED
  BY <1>1, <1>2 DEF Elsewhere, Equal

LEMMA OutlookPaths ==
    ASSUME NEW d, NEW e, NEW last, ToCome(last)
    PROVE  /\ Elsewhere(d, Outlook(d, last), Taken(last))
           /\ Equal(Outlook(d, last), Outlook(e, last), Taken(last))
<1>1. CASE last = <<>>
  BY <1>1, TakenCases, OutlookCases DEF Elsewhere, Equal
<1>2. ASSUME NEW w, IsWrite(w), last = <<w>>
      PROVE  /\ Elsewhere(d, Outlook(d, last), Taken(last))
             /\ Equal(Outlook(d, last), Outlook(e, last), Taken(last))
  <2>1. Taken(last) = Takes(w)
    BY <1>2, TakenCases
  <2>2. Outlook(d, last) = After(d, w) /\ Outlook(e, last) = After(e, w)
    BY <1>2, OutlookCases
  <2>3. QED
    BY <1>2, <2>1, <2>2, AfterElsewhere
<1>3. ASSUME NEW v, NEW w, v.op = "put", w.op \in {"put", "remove"}, last = <<v, w>>
      PROVE  /\ Elsewhere(d, Outlook(d, last), Taken(last))
             /\ Equal(Outlook(d, last), Outlook(e, last), Taken(last))
  <2>1. IsWrite(v) /\ IsWrite(w)
    BY <1>3 DEF IsWrite
  <2>2. Taken(last) = Takes(v) \cup Takes(w)
    BY <1>3, TakenCases
  <2>3. /\ Outlook(d, last) = After(After(d, v), w)
        /\ Outlook(e, last) = After(After(e, v), w)
    <3>1. \A D : Outlook(D, <<v, w>>) = After(After(D, v), w)
      BY OutlookCases
    <3>2. QED
      BY <1>3, <3>1
  <2>4. /\ Elsewhere(d, After(d, v), Takes(v))
        /\ Equal(After(d, v), After(e, v), Takes(v))
    BY <2>1, AfterElsewhere
  <2>5. /\ Elsewhere(After(d, v), After(After(d, v), w), Takes(w))
        /\ Elsewhere(After(e, v), After(After(e, v), w), Takes(w))
        /\ Equal(After(After(d, v), w), After(After(e, v), w), Takes(w))
    BY <2>1, AfterElsewhere
  <2>6. /\ Elsewhere(d, After(After(d, v), w), Takes(v) \cup Takes(w))
        /\ Equal(After(After(d, v), w), After(After(e, v), w), Takes(v) \cup Takes(w))
    BY <2>4, <2>5, ElsewhereTwice, EqualTwice
  <2>7. QED
    BY <2>2, <2>3, <2>6
<1>4. QED
  BY <1>1, <1>2, <1>3 DEF ToCome

\* Two states of the files that differ where nothing is taken have outlooks that
\* differ as much.
LEMMA OutlookFollows ==
    ASSUME NEW d, NEW e, NEW last, ToCome(last), DOMAIN d = DOMAIN e
    PROVE  /\ (\A p \in DOMAIN d \ Taken(last) : Keys(d[p]) = Keys(e[p]))
                 => Alike(Outlook(d, last), Outlook(e, last))
           /\ \A k : /\ \A p \in DOMAIN d \ Taken(last) : Has(d[p], k) => Has(e[p], k)
                    /\ Somewhere(Outlook(d, last), k)
                    => Somewhere(Outlook(e, last), k)
<1> DEFINE D == Outlook(d, last)
           E == Outlook(e, last)
<1>1. Elsewhere(d, D, Taken(last)) /\ Elsewhere(e, E, Taken(last)) /\ Equal(D, E, Taken(last))
  BY OutlookPaths
<1> HIDE DEF D, E
<1>2. DOMAIN D = DOMAIN E
  BY <1>1 DEF Elsewhere, Equal
<1>3. ASSUME \A p \in DOMAIN d \ Taken(last) : Keys(d[p]) = Keys(e[p])
      PROVE  Alike(D, E)
  <2> SUFFICES ASSUME NEW p \in DOMAIN D PROVE Keys(D[p]) = Keys(E[p])
    BY <1>2 DEF Alike
  <2>1. QED
    BY <1>1, <1>3 DEF Elsewhere, Equal
<1>4. ASSUME NEW k, \A p \in DOMAIN d \ Taken(last) : Has(d[p], k) => Has(e[p], k),
             Somewhere(D, k)
      PROVE  Somewhere(E, k)
  <2>1. PICK p \in DOMAIN D : Has(D[p], k)
    BY <1>4 DEF Somewhere
  <2>2. Has(E[p], k)
    BY <1>1, <1>4, <2>1 DEF Elsewhere, Equal
  <2>3. QED
    BY <1>2, <2>1, <2>2 DEF Somewhere
<1>5. QED
  BY <1>3, <1>4 DEF D, E

LEMMA OutlookHas ==
    ASSUME NEW d, NEW last, ToCome(last), NEW p \in DOMAIN d \ Taken(last), NEW k, Has(d[p], k)
    PROVE  Somewhere(Outlook(d, last), k)
  BY OutlookPaths DEF Elsewhere, Somewhere

LEMMA ApartAlike ==
    ASSUME NEW d, NEW e, Alike(d, e), Apart(d)
    PROVE  Apart(e)
  BY DEF Alike, Apart

-----------------------------------------------------------------------------
(* The invariant.                                                          *)

FilesInv == Sound(disk) /\ Sound(head) /\ Sound(held)

\* What has been written in time.
InTime == edits \ late

\* A verb writes what it planned, and takes without a look only what it has
\* read or what did not exist.
PhaseInv ==
    /\ pc \in {"idle", "check", "open", "read", "write", "rebuild"}
    /\ pc \in {"idle", "check", "open"} => read = {}
    /\ DOMAIN job = DOMAIN NoJob /\ (pc = "idle" => job = NoJob)
    /\ pc \in {"check", "open"} => Planned(held, job)
    /\ pc \in {"read", "write"} =>
          /\ Referrers(held, job) /\ todo \subseteq DOMAIN job.rewrite
          /\ ToCome(job.last) /\ Taken(job.last) \subseteq job.touched \ DOMAIN job.rewrite
          /\ \A p \in Taken(job.last) : p \in read \/ p \notin DOMAIN disk
          /\ \A i \in DOMAIN job.last \ {1} : Takes(job.last[i]) \subseteq read
          /\ \A i \in DOMAIN job.last :
                LET w == job.last[i]
                IN  /\ w.op = "move" => w.from \in job.touched /\ w.to \in job.touched
                    /\ w.op = "put" => WellFormed(w.file)

\* What is in the file in hand is in the held one, or too late.
InHandInv ==
    pc = "write" =>
        /\ cur \in todo /\ cur \in read /\ cur \in DOMAIN disk
        /\ Keys(disk[cur]) = Keys(held[cur])
        /\ \A k \in DOMAIN disk[cur].places \ late : Has(disk[cur], k) => Has(held[cur], k)

\* What is committed, held and on disk has the same places, but for the verb
\* under way.
PlacesInv ==
    /\ Apart(head)
    /\ IF pc = "rebuild" THEN Alike(head, disk) ELSE Alike(head, held)
    /\ pc \in {"check", "open"} => Alike(disk, held)
    /\ \A p \in (DOMAIN disk \cup DOMAIN held) \ job.touched :
          p \in DOMAIN disk /\ p \in DOMAIN held /\ Keys(disk[p]) = Keys(held[p])
    /\ pc \in {"read", "write"} => Apart(Outlook(disk, job.last))

\* What was written in time is in the future in which the verb goes through, and
\* unless it is exposed in the one in which it is rolled back.
KeptInv ==
    \A k \in InTime :
        /\ pc \in {"idle", "open", "rebuild"} => Somewhere(disk, k)
        /\ pc = "check" => \E p \in DOMAIN disk :
              /\ Has(disk[p], k)
              /\ k \notin exposed /\ p \in job.exempt => p \in DOMAIN head /\ Has(head[p], k)
        /\ pc \in {"open", "read", "write"} /\ k \notin exposed => Somewhere(Reset(disk), k)
        /\ pc \in {"read", "write"} => Somewhere(Outlook(disk, job.last), k)

Inv == FilesInv /\ PhaseInv /\ InHandInv /\ PlacesInv /\ KeptInv

LEMMA InitKeeps == ASSUME Init PROVE Inv
<1>1. PICK w \in Workspaces : disk = w.files
  BY DEF Init
<1>2. \A p \in DOMAIN disk :
        /\ WellFormed(disk[p])
        /\ \A q \in DOMAIN disk \ {p} : DOMAIN disk[p].places \cap DOMAIN disk[q].places = {}
  BY <1>1, RefactorAssumption
<1>3. head = disk /\ held = disk /\ job = NoJob /\ pc = "idle" /\ read = {} /\ edits = {}
  BY DEF Init
<1>4. FilesInv
  BY <1>2, <1>3 DEF FilesInv, Sound
<1>5. PlacesInv
  <2>1. Apart(disk)
    BY <1>2 DEF Apart, Keys
  <2>2. QED
    BY <1>3, <2>1 DEF PlacesInv, Alike
<1>6. QED
  BY <1>3, <1>4, <1>5 DEF Inv, PhaseInv, InHandInv, KeptInv, InTime

LEMMA AskKeeps ==
    ASSUME Inv, NEW r \in Requests, Ask(r)
    PROVE  Inv'
<1> DEFINE j == Gathered(held, r)
           e == NotWritten(j)
<1> USE DEF Inv
<1>1. /\ pc = "idle" /\ read = {} /\ job = NoJob
      /\ UNCHANGED <<disk, head, held, roles, todo, cur, read, edits, late>>
  BY DEF Ask, PhaseInv
<1>2. CASE UNCHANGED <<job, pc, exposed>>
  <2>1. FilesInv'
    BY <1>1 DEF FilesInv, Sound
  <2>2. PhaseInv'
    BY <1>1, <1>2 DEF PhaseInv
  <2>3. PlacesInv'
    BY <1>1, <1>2 DEF PlacesInv
  <2>4. KeptInv' /\ InHandInv'
    BY <1>1, <1>2 DEF KeptInv, InHandInv, InTime, Somewhere
  <2>5. QED
    BY <2>1, <2>2, <2>3, <2>4
<1>3. CASE /\ j # Refused /\ job' = [j EXCEPT !.exempt = e] /\ pc' = "check"
           /\ exposed' = Unchecked(e)
  <2>1. Planned(held, j)
    BY <1>3, GatheredPlans, RefactorAssumption DEF FilesInv
  <2> HIDE DEF j
  <2>2. /\ DOMAIN job' = DOMAIN NoJob /\ job'.exempt = e /\ job'.hosts = j.hosts
        /\ job'.absent = j.absent /\ job'.rewrite = j.rewrite /\ job'.last = j.last
        /\ job'.touched = j.touched
    BY <1>3, <2>1 DEF Planned, NoJob, Job
  <2>3. Planned(held, job')
    BY <2>1, <2>2 DEF Planned, Referrers, MovesOne, PutsOne, Splits, Merges
  <2>4. FilesInv'
    BY <1>1 DEF FilesInv, Sound
  <2>5. PhaseInv'
    BY <1>1, <1>3, <2>2, <2>3 DEF PhaseInv
  <2>6. Alike(disk, held)
    <3>1. job.touched = {}
      BY <1>1 DEF NoJob, Job
    <3>2. \A p : p \in DOMAIN disk <=> p \in DOMAIN held
      BY <3>1 DEF PlacesInv
    <3>3. QED
      BY <3>1, <3>2 DEF PlacesInv, Alike
  <2>7. PlacesInv'
    <3>1. Apart(head) /\ Alike(head, held)
      BY <1>1 DEF PlacesInv
    <3>2. QED
      BY <1>1, <1>3, <2>6, <3>1 DEF PlacesInv, Alike
  <2>8. KeptInv'
    <3> SUFFICES ASSUME NEW k \in InTime
                 PROVE  \E p \in DOMAIN disk :
                          /\ Has(disk[p], k)
                          /\ k \notin exposed' /\ p \in e => p \in DOMAIN head /\ Has(head[p], k)
      BY <1>1, <1>3, <2>2 DEF KeptInv, InTime
    <3>1. PICK p \in DOMAIN disk : Has(disk[p], k)
      BY <1>1, <1>3 DEF KeptInv, InTime, Somewhere
    <3>2. ASSUME k \notin exposed', p \in e
          PROVE  p \in DOMAIN head /\ Has(head[p], k)
      <4>1. Same(disk, head, p)
        BY <1>3, <3>1, <3>2 DEF Unchecked, Has, InTime
      <4>2. QED
        BY <3>1, <4>1 DEF Same
    <3>3. QED
      BY <3>1, <3>2
  <2>9. InHandInv'
    BY <1>3 DEF InHandInv
  <2>10. QED
    BY <2>4, <2>5, <2>7, <2>8, <2>9
<1>4. QED
  BY <1>2, <1>3 DEF Ask

\* The files after a rollback.
LEMMA TakingPaths ==
    ASSUME NEW a, NEW b, NEW ps, NEW p
    PROVE  /\ p \in ps => /\ p \in DOMAIN Taking(a, b, ps) <=> p \in DOMAIN b
                          /\ p \in DOMAIN b => Taking(a, b, ps)[p] = b[p]
           /\ p \notin ps => /\ p \in DOMAIN Taking(a, b, ps) <=> p \in DOMAIN a
                             /\ p \in DOMAIN a => Taking(a, b, ps)[p] = a[p]
  BY DEF Taking

LEMMA CheckKeeps == ASSUME Inv, Check PROVE Inv'
<1> USE DEF Inv
<1>1. /\ pc = "check" /\ read = {}
      /\ UNCHANGED <<disk, head, held, roles, req, before, strange, edits, late, verbs>>
  BY DEF Check, PhaseInv
<1>2. FilesInv'
  BY <1>1 DEF FilesInv, Sound
<1>3. Apart(head) /\ Alike(head, held) /\ Alike(disk, held)
  BY <1>1 DEF PlacesInv
<1>4. CASE End("refused")
  <2>1. pc' = "idle" /\ job' = NoJob /\ read' = {}
    BY <1>4 DEF End
  <2>2. PhaseInv' /\ InHandInv'
    BY <2>1 DEF PhaseInv, InHandInv
  <2>3. PlacesInv'
    BY <1>1, <1>3, <2>1 DEF PlacesInv, Alike
  <2>4. KeptInv'
    BY <1>1, <2>1 DEF KeptInv, InTime, Somewhere
  <2>5. QED
    BY <1>2, <2>2, <2>3, <2>4
<1>5. CASE Dirty = {} /\ pc' = "open" /\ UNCHANGED <<outcome, job, todo, cur, read, exposed>>
  <2>1. PhaseInv' /\ InHandInv'
    BY <1>1, <1>5 DEF PhaseInv, InHandInv, Planned, Referrers, MovesOne, PutsOne, Splits, Merges
  <2>2. PlacesInv'
    BY <1>1, <1>3, <1>5 DEF PlacesInv, Alike
  <2>3. ASSUME NEW k \in InTime
        PROVE  Somewhere(disk, k) /\ (k \notin exposed => Somewhere(Reset(disk), k))
    <3>1. PICK p \in DOMAIN disk :
            /\ Has(disk[p], k)
            /\ k \notin exposed /\ p \in job.exempt => p \in DOMAIN head /\ Has(head[p], k)
      BY <1>1, <2>3 DEF KeptInv
    <3>2. k \notin exposed /\ p \in job.touched => p \in DOMAIN head /\ Has(head[p], k)
      BY <1>5, <3>1 DEF Dirty, Same
    <3>3. k \notin exposed => p \in DOMAIN Reset(disk) /\ Has(Reset(disk)[p], k)
      BY <3>1, <3>2, TakingPaths DEF Reset
    <3>4. QED
      BY <3>1, <3>3 DEF Somewhere
  <2>4. KeptInv'
    BY <1>1, <1>5, <2>3 DEF KeptInv, InTime, Reset
  <2>5. QED
    BY <1>2, <2>1, <2>2, <2>4
<1>6. QED
  BY <1>4, <1>5 DEF Check

\* A rollback, from wherever it is made.
LEMMA RestoreKeeps ==
    ASSUME Inv, pc \in {"open", "read", "write"}, Restore, UNCHANGED <<head, held, edits>>
    PROVE  Inv'
<1> USE DEF Inv
<1>1. /\ disk' = Reset(disk) /\ pc' = "idle" /\ job' = NoJob /\ read' = {}
      /\ late' = late \cup exposed
  BY DEF Restore, End, Reset
<1>2. FilesInv'
  BY <1>1, TakingPaths DEF FilesInv, Sound, Reset
<1>3. PhaseInv' /\ InHandInv'
  BY <1>1 DEF PhaseInv, InHandInv
<1>4. PlacesInv'
  <2>1. Apart(head) /\ Alike(head, held)
    BY DEF PlacesInv
  <2>2. ASSUME NEW p \in DOMAIN disk' \cup DOMAIN held
        PROVE  p \in DOMAIN disk' /\ p \in DOMAIN held /\ Keys(disk'[p]) = Keys(held[p])
    <3>1. CASE p \in job.touched
      BY <1>1, <2>1, <2>2, <3>1, TakingPaths DEF Reset, Alike
    <3>2. CASE p \notin job.touched
      BY <1>1, <2>2, <3>2, TakingPaths DEF Reset, PlacesInv
    <3>3. QED
      BY <3>1, <3>2
  <2>3. QED
    BY <1>1, <2>1, <2>2 DEF PlacesInv
<1>5. KeptInv'
  BY <1>1 DEF KeptInv, InTime
<1>6. QED
  BY <1>2, <1>3, <1>4, <1>5

\* What the end of a verb needs of the writes it has planned.
Ready(last) ==
    /\ ToCome(last) /\ Taken(last) \subseteq job.touched \ DOMAIN job.rewrite
    /\ \A p \in Taken(last) : p \in job.hosts \/ p \notin DOMAIN disk
    /\ \A i \in DOMAIN last \ {1} : Takes(last[i]) \subseteq job.hosts
    /\ \A i \in DOMAIN last :
          LET w == last[i]
          IN  /\ w.op = "move" => w.from \in job.touched /\ w.to \in job.touched
              /\ w.op = "put" => WellFormed(w.file)
    /\ Apart(Outlook(disk, last))
    /\ \A k : Somewhere(disk, k) => Somewhere(Outlook(disk, last), k)

\* When the hosts are as held, the plan is good for the disk: what it splits or
\* merges is all that is there.
LEMMA PlanIsReady ==
    ASSUME Planned(held, job), Alike(disk, held), Apart(disk),
           \A p \in job.hosts : AsHeld(p), job.absent \cap DOMAIN disk = {}
    PROVE  Ready(job.last)
<1> DEFINE last == job.last
           O == Outlook(disk, last)
<1>1. /\ \A p \in job.hosts : /\ p \in DOMAIN held /\ p \in DOMAIN disk /\ disk[p] = held[p]
                              /\ p \in job.touched /\ p \notin DOMAIN job.rewrite
      /\ \A p \in job.absent : /\ p \notin DOMAIN disk /\ p \in job.touched
                               /\ p \notin DOMAIN job.rewrite
  BY DEF Planned, AsHeld, Alike, Referrers
<1>2. CASE MovesOne(job)
  <2>1. PICK p \in job.touched, q \in job.touched : last = <<Move(p, q)>>
    BY <1>2 DEF MovesOne
  <2>2. /\ last = <<last[1]>> /\ DOMAIN last = {1}
        /\ last[1].op = "move" /\ last[1].from = p /\ last[1].to = q
    BY <2>1 DEF Move
  <2> HIDE DEF last
  <2>3. Taken(last) = {}
    BY <2>2, TakenCases DEF Takes
  <2>4. O = disk
    <3>1. Outlook(disk, <<last[1]>>) = After(disk, last[1])
      BY OutlookCases
    <3>2. QED
      BY <2>2, <3>1 DEF After
  <2>5. ToCome(last)
    BY <2>2 DEF ToCome, IsWrite
  <2>6. Ready(last)
    BY <2>2, <2>3, <2>4, <2>5 DEF Ready
  <2>7. QED
    BY <2>6 DEF last
<1>3. CASE PutsOne(held, job)
  <2> DEFINE e == last[1].file
  <2>1. PICK h \in job.hosts : last = <<Put(h, e)>> /\ Carries(held[h], e)
    BY <1>3 DEF PutsOne
  <2>2. /\ last = <<last[1]>> /\ DOMAIN last = {1} /\ last[1].op = "put" /\ last[1].to = h
    <3> HIDE DEF e
    <3>1. QED
      BY <2>1 DEF Put
  <2>3. WellFormed(e) /\ Keys(e) = Keys(disk[h]) /\ \A k : Has(disk[h], k) => Has(e, k)
    BY <1>1, <2>1 DEF Carries, Has
  <2> HIDE DEF last, e
  <2>4. Taken(last) = {h}
    BY <2>2, TakenCases DEF Takes
  <2>5. \A p : /\ p \in DOMAIN O <=> p \in DOMAIN disk
               /\ O[h] = e /\ (p \in DOMAIN disk \ {h} => O[p] = disk[p])
    <3>1. O = After(disk, last[1])
      BY <2>2, OutlookCases
    <3>2. QED
      BY <1>1, <2>2, <3>1 DEF After, Over, Only, e
  <2>6. ToCome(last)
    BY <2>2 DEF ToCome, IsWrite
  <2>7. Apart(O)
    BY <2>3, <2>5 DEF Apart
  <2>8. \A k : Somewhere(disk, k) => Somewhere(O, k)
    BY <2>3, <2>5 DEF Somewhere
  <2>9. Ready(last)
    BY <1>1, <2>2, <2>3, <2>4, <2>6, <2>7, <2>8 DEF Ready, e
  <2>10. QED
    BY <2>9 DEF last
<1>4. CASE Splits(held, job)
  <2> DEFINE c == last[1].file
             e == last[2].file
  <2>1. PICK h \in job.hosts, to \in job.absent :
          /\ last = <<Put(to, c), Put(h, e)>>
          /\ WellFormed(c) /\ WellFormed(e)
          /\ Keys(c) \cap Keys(e) = {} /\ Keys(c) \cup Keys(e) = Keys(held[h])
          /\ \A k \in DOMAIN held[h].places : Has(held[h], k) => Has(c, k) \/ Has(e, k)
    BY <1>4 DEF Splits
  <2>2. /\ last = <<last[1], last[2]>> /\ DOMAIN last = {1, 2}
        /\ last[1].op = "put" /\ last[1].to = to /\ last[2].op = "put" /\ last[2].to = h
    <3> HIDE DEF c, e
    <3>1. QED
      BY <2>1 DEF Put
  <2>3. /\ Keys(c) \cup Keys(e) = Keys(disk[h]) /\ h # to
        /\ \A k : Has(disk[h], k) => Has(c, k) \/ Has(e, k)
    BY <1>1, <2>1 DEF Has
  <2> HIDE DEF last, c, e
  <2>4. Taken(last) = {to, h}
    BY <2>2, TakenCases DEF Takes
  <2>5. \A p : /\ p \in DOMAIN O <=> p \in DOMAIN disk \cup {to}
               /\ O[h] = e /\ O[to] = c /\ (p \in DOMAIN disk \ {h} => O[p] = disk[p])
    <3> DEFINE D == After(disk, last[1])
    <3>1. \A p : /\ p \in DOMAIN D <=> p \in DOMAIN disk \cup {to}
                 /\ D[to] = c /\ (p \in DOMAIN disk => D[p] = disk[p])
      BY <1>1, <2>2 DEF After, Over, Only, c
    <3>2. O = After(D, last[2])
      <4>1. Outlook(disk, <<last[1], last[2]>>) = After(After(disk, last[1]), last[2])
        BY OutlookOfTwo
      <4>2. QED
        BY <2>2, <4>1
    <3> HIDE DEF D
    <3>3. QED
      BY <1>1, <2>2, <2>3, <3>1, <3>2 DEF After, Over, Only, e
  <2>6. ToCome(last)
    BY <2>2 DEF ToCome, IsWrite
  <2>7. Apart(O)
    <3> SUFFICES ASSUME NEW p \in DOMAIN O, NEW q \in DOMAIN O, p # q
                 PROVE  Keys(O[p]) \cap Keys(O[q]) = {}
      BY DEF Apart
    <3>1. \A x \in DOMAIN O : IF x \in {h, to} THEN Keys(O[x]) \subseteq Keys(disk[h])
                             ELSE x \in DOMAIN disk /\ O[x] = disk[x]
      BY <2>3, <2>5
    <3>2. CASE {p, q} = {h, to}
      BY <2>1, <2>5, <3>2
    <3>3. CASE {p, q} # {h, to}
      BY <1>1, <3>1, <3>3 DEF Apart
    <3>4. QED
      BY <3>2, <3>3
  <2>8. \A k : Somewhere(disk, k) => Somewhere(O, k)
    BY <1>1, <2>3, <2>5 DEF Somewhere
  <2>9. Ready(last)
    BY <1>1, <2>1, <2>2, <2>4, <2>6, <2>7, <2>8 DEF Ready, Takes, c, e
  <2>10. QED
    BY <2>9 DEF last
<1>5. CASE Merges(held, job)
  <2> DEFINE c == last[1].file
  <2>1. PICK f \in job.hosts, into \in job.hosts :
          /\ f # into /\ last = <<Put(into, c), Remove(f)>>
          /\ WellFormed(c) /\ Keys(c) = Keys(held[into]) \cup Keys(held[f])
          /\ \A k \in DOMAIN held[into].places : Has(held[into], k) => Has(c, k)
          /\ Keys(held[into]) \cap Keys(held[f]) = {} =>
                \A k \in DOMAIN held[f].places : Has(held[f], k) => Has(c, k)
    BY <1>5 DEF Merges
  <2>2. /\ last = <<last[1], last[2]>> /\ DOMAIN last = {1, 2}
        /\ last[1].op = "put" /\ last[1].to = into /\ last[2].op = "remove" /\ last[2].from = f
    <3> HIDE DEF c
    <3>1. QED
      BY <2>1 DEF Put, Remove
  <2>3. /\ Keys(c) = Keys(disk[into]) \cup Keys(disk[f])
        /\ \A k : Has(disk[into], k) \/ Has(disk[f], k) => Has(c, k)
    <3>1. Keys(disk[into]) \cap Keys(disk[f]) = {}
      BY <1>1, <2>1 DEF Apart
    <3>2. QED
      BY <1>1, <2>1, <3>1 DEF Has
  <2> HIDE DEF last, c
  <2>4. Taken(last) = {into, f}
    BY <2>2, TakenCases DEF Takes
  <2>5. \A p : /\ p \in DOMAIN O <=> p \in DOMAIN disk \ {f}
               /\ O[into] = c /\ (p \in DOMAIN disk \ {f, into} => O[p] = disk[p])
    <3> DEFINE D == After(disk, last[1])
    <3>1. \A p : /\ p \in DOMAIN D <=> p \in DOMAIN disk
                 /\ D[into] = c /\ (p \in DOMAIN disk \ {into} => D[p] = disk[p])
      BY <1>1, <2>2 DEF After, Over, Only, c
    <3>2. O = After(D, last[2])
      <4>1. Outlook(disk, <<last[1], last[2]>>) = After(After(disk, last[1]), last[2])
        BY OutlookOfTwo
      <4>2. QED
        BY <2>2, <4>1
    <3> HIDE DEF D
    <3>3. QED
      BY <1>1, <2>1, <2>2, <3>1, <3>2 DEF After, Restrict
  <2>6. ToCome(last)
    BY <2>2 DEF ToCome, IsWrite
  <2>7. Apart(O)
    BY <1>1, <2>1, <2>3, <2>5 DEF Apart
  <2>8. \A k : Somewhere(disk, k) => Somewhere(O, k)
    BY <1>1, <2>1, <2>3, <2>5 DEF Somewhere
  <2>9. Ready(last)
    BY <1>1, <2>1, <2>2, <2>4, <2>6, <2>7, <2>8 DEF Ready, Takes, c
  <2>10. QED
    BY <2>9 DEF last
<1>6. QED
  BY <1>2, <1>3, <1>4, <1>5 DEF Planned

LEMMA OpenKeeps == ASSUME Inv, Open PROVE Inv'
<1> USE DEF Inv
<1>1. /\ pc = "open"
      /\ UNCHANGED <<head, held, roles, req, before, strange, edits, verbs>>
  BY DEF Open
<1>2. CASE Restore
  BY <1>1, <1>2, RestoreKeeps
<1>3. CASE /\ \A p \in job.hosts : AsHeld(p)
           /\ job.absent \cap DOMAIN disk = {}
           /\ pc' = "read" /\ todo' = DOMAIN job.rewrite /\ read' = job.hosts
           /\ UNCHANGED <<disk, outcome, job, cur, late, exposed>>
  <2>1. Apart(head) /\ Alike(head, held) /\ Alike(disk, held) /\ Planned(held, job)
    BY <1>1 DEF PlacesInv, PhaseInv
  <2>2. Apart(disk)
    BY <2>1, ApartAlike DEF Alike
  <2>3. Ready(job.last)
    BY <1>3, <2>1, <2>2, PlanIsReady
  <2>4. FilesInv'
    BY <1>1, <1>3 DEF FilesInv, Sound
  <2>5. PhaseInv'
    BY <1>1, <1>3, <2>1, <2>3 DEF PhaseInv, Ready, Planned, Referrers
  <2>6. PlacesInv'
    <3>1. Apart(Outlook(disk, job.last))
      BY <2>3 DEF Ready
    <3>2. Apart(Outlook(disk, job.last))'
      BY <1>3, <3>1
    <3>3. QED
      BY <1>1, <1>3, <2>1, <3>2 DEF PlacesInv, Alike
  <2>7. KeptInv'
    <3>1. \A k \in InTime : /\ Somewhere(Outlook(disk, job.last), k)
                            /\ k \notin exposed => Somewhere(Reset(disk), k)
      BY <1>1, <2>3 DEF KeptInv, Ready
    <3>2. Outlook(disk, job.last)' = Outlook(disk, job.last) /\ Reset(disk)' = Reset(disk)
      BY <1>1, <1>3 DEF Reset
    <3>3. InTime' = InTime
      BY <1>1, <1>3 DEF InTime
    <3>4. /\ pc' = "read" /\ exposed' = exposed
          /\ \A k \in InTime' : /\ Somewhere(Outlook(disk, job.last)', k)
                                /\ k \notin exposed' => Somewhere(Reset(disk)', k)
      BY <1>3, <3>1, <3>2, <3>3
    <3>5. QED
      BY <3>4 DEF KeptInv
  <2>8. InHandInv'
    BY <1>3 DEF InHandInv
  <2>9. QED
    BY <2>4, <2>5, <2>6, <2>7, <2>8
<1>4. QED
  BY <1>2, <1>3 DEF Open

LEMMA FailKeeps == ASSUME Inv, Fail PROVE Inv'
  BY RestoreKeeps DEF Fail

LEMMA ReadReferrerKeeps ==
    ASSUME Inv, NEW p \in todo, ReadReferrer(p)
    PROVE  Inv'
<1> USE DEF Inv
<1>1. /\ pc = "read"
      /\ UNCHANGED <<head, held, roles, req, before, strange, edits, verbs>>
  BY DEF ReadReferrer
<1>2. CASE Restore
  BY <1>1, <1>2, RestoreKeeps
<1>3. CASE /\ AsHeld(p) /\ pc' = "write" /\ cur' = p /\ read' = read \cup {p}
           /\ UNCHANGED <<disk, outcome, job, todo, late, exposed>>
  <2>1. FilesInv'
    BY <1>1, <1>3 DEF FilesInv, Sound
  <2>2. PhaseInv'
    BY <1>1, <1>3 DEF PhaseInv, Referrers
  <2>3. Outlook(disk, job.last)' = Outlook(disk, job.last) /\ Reset(disk)' = Reset(disk)
    BY <1>1, <1>3 DEF Reset
  <2>4. PlacesInv'
    BY <1>1, <1>3, <2>3 DEF PlacesInv, Alike, Apart
  <2>5. KeptInv'
    BY <1>1, <1>3, <2>3 DEF KeptInv, InTime, Somewhere
  <2>6. InHandInv'
    BY <1>1, <1>3 DEF InHandInv, AsHeld
  <2>7. QED
    BY <2>1, <2>2, <2>4, <2>5, <2>6
<1>4. QED
  BY <1>2, <1>3 DEF ReadReferrer

LEMMA WriteReferrerKeeps == ASSUME Inv, WriteReferrer PROVE Inv'
<1> DEFINE c == job.rewrite[cur]
<1> USE DEF Inv
<1>1. /\ pc = "write" /\ pc' = "read" /\ todo' = todo \ {cur} /\ read' = read \ {cur}
      /\ UNCHANGED <<head, held, roles, req, job, outcome, before, strange, edits, late, exposed,
                     verbs>>
  BY DEF WriteReferrer
<1>2. /\ cur \in todo /\ cur \in DOMAIN disk /\ Keys(disk[cur]) = Keys(held[cur])
      /\ \A k \in DOMAIN disk[cur].places \ late : Has(disk[cur], k) => Has(held[cur], k)
      /\ Referrers(held, job) /\ todo \subseteq DOMAIN job.rewrite
      /\ ToCome(job.last) /\ Taken(job.last) \subseteq job.touched \ DOMAIN job.rewrite
  BY <1>1 DEF InHandInv, PhaseInv
<1>3. /\ cur \in DOMAIN held /\ cur \in job.touched /\ Carries(held[cur], c)
      /\ cur \notin Taken(job.last)
  BY <1>2 DEF Referrers
\* What is left as it is was as held already.
<1>4. /\ DOMAIN disk' = DOMAIN disk
      /\ \A p \in DOMAIN disk \ {cur} : disk'[p] = disk[p]
      /\ disk'[cur] = disk[cur] \/ disk'[cur] = c
  BY <1>2 DEF WriteReferrer
<1>5. /\ WellFormed(disk'[cur]) /\ Keys(disk'[cur]) = Keys(disk[cur])
      /\ \A k \in InTime : Has(disk[cur], k) => Has(disk'[cur], k)
  BY <1>2, <1>3, <1>4 DEF Carries, FilesInv, Sound, InTime, Has
<1>6. FilesInv'
  BY <1>1, <1>4, <1>5 DEF FilesInv, Sound
<1>7. PhaseInv'
  BY <1>1, <1>2, <1>3, <1>4 DEF PhaseInv, Referrers, Taken
<1>8. InHandInv'
  BY <1>1 DEF InHandInv
<1>9. PlacesInv'
  <2>1. Alike(Outlook(disk, job.last), Outlook(disk', job.last))
    BY <1>2, <1>4, <1>5, OutlookFollows
  <2>2. Apart(Outlook(disk, job.last)')
    BY <1>1, <2>1, ApartAlike DEF PlacesInv
  <2>3. QED
    BY <1>1, <1>3, <1>4, <2>2 DEF PlacesInv, Alike, Apart
<1>10. KeptInv'
  <2>1. ASSUME NEW k \in InTime
        PROVE  Somewhere(Outlook(disk', job.last), k)
    BY <1>1, <1>2, <1>4, <1>5, OutlookFollows DEF KeptInv
  <2>2. ASSUME NEW k \in InTime, k \notin exposed
        PROVE  Somewhere(Reset(disk)', k)
    <3>1. PICK p \in DOMAIN Reset(disk) : Has(Reset(disk)[p], k)
      BY <1>1, <2>2 DEF KeptInv, Somewhere
    <3>2. p \in DOMAIN Reset(disk)' /\ Reset(disk)'[p] = Reset(disk)[p]
      BY <1>1, <1>3, <1>4, <3>1, TakingPaths DEF Reset
    <3>3. QED
      BY <3>1, <3>2 DEF Somewhere
  <2>3. InTime' = InTime
    BY <1>1 DEF InTime
  <2>4. QED
    BY <1>1, <2>1, <2>2, <2>3 DEF KeptInv
<1>11. QED
  BY <1>6, <1>7, <1>8, <1>9, <1>10

LEMMA Tails ==
    ASSUME NEW v, NEW w
    PROVE  /\ Tail(<<v>>) = <<>> /\ Head(<<v>>) = v /\ DOMAIN <<v>> = {1} /\ <<v>>[1] = v
           /\ Tail(<<v, w>>) = <<w>> /\ Head(<<v, w>>) = v /\ DOMAIN <<v, w>> = {1, 2}
           /\ <<v, w>>[1] = v /\ <<v, w>>[2] = w
  OBVIOUS

\* The first of the writes still to come is done.
LEMMA FinishKeeps == ASSUME Inv, Finish PROVE Inv'
<1> DEFINE last == job.last
           w == last[1]
<1> USE DEF Inv
<1>1. /\ pc = "read" /\ todo = {} /\ last # <<>>
      /\ UNCHANGED <<head, held, roles, req, before, strange, edits, verbs>>
  BY DEF Finish
<1>2. CASE Restore
  BY <1>1, <1>2, RestoreKeeps
<1>3. CASE /\ Possible(Head(last)) /\ disk' = Applied(Head(last))
           /\ job' = [job EXCEPT !.last = Tail(@)]
           /\ UNCHANGED <<pc, outcome, todo, cur, read, late, exposed>>
  <2>1. /\ Referrers(held, job) /\ todo \subseteq DOMAIN job.rewrite /\ ToCome(last)
        /\ Taken(last) \subseteq job.touched \ DOMAIN job.rewrite
        /\ \A p \in Taken(last) : p \in read \/ p \notin DOMAIN disk
        /\ \A i \in DOMAIN last \ {1} : Takes(last[i]) \subseteq read
        /\ \A i \in DOMAIN last :
              /\ last[i].op = "move" => last[i].from \in job.touched /\ last[i].to \in job.touched
              /\ last[i].op = "put" => WellFormed(last[i].file)
        /\ DOMAIN job = DOMAIN NoJob
        /\ Apart(Outlook(disk, last))
        /\ \A k \in InTime : /\ Somewhere(Outlook(disk, last), k)
                             /\ k \notin exposed => Somewhere(Reset(disk), k)
    BY <1>1 DEF PhaseInv, PlacesInv, KeptInv
  <2>2. /\ job'.last = Tail(last) /\ job'.touched = job.touched /\ job'.rewrite = job.rewrite
        /\ job'.hosts = job.hosts /\ DOMAIN job' = DOMAIN NoJob
    BY <1>3, <2>1 DEF NoJob, Job
  <2> HIDE DEF last
  \* What remains to be written, and what it will come to.
  <2>3. /\ ToCome(Tail(last)) /\ Taken(Tail(last)) \subseteq Taken(last)
        /\ Taken(Tail(last)) \subseteq read
        /\ Head(last) = w /\ IsWrite(w) /\ Takes(w) \subseteq Taken(last) /\ 1 \in DOMAIN last
        /\ \A i \in DOMAIN Tail(last) : i = 1 /\ Tail(last)[i] = last[2] /\ 2 \in DOMAIN last
        /\ w.op = "move" => Tail(last) = <<>>
    <3>1. CASE last = <<w>> /\ IsWrite(w)
      <4>1. Tail(last) = <<>> /\ Head(last) = w /\ 1 \in DOMAIN last
        <5> HIDE DEF w
        <5>1. QED
          BY <3>1, Tails
      <4>2. Taken(last) = Takes(w) /\ Taken(<<>>) = {} /\ DOMAIN <<>> = {}
        BY <3>1, TakenCases
      <4>3. QED
        BY <3>1, <4>1, <4>2 DEF ToCome
    <3>2. CASE last = <<w, last[2]>> /\ w.op = "put" /\ last[2].op \in {"put", "remove"}
      <4>1. /\ Tail(last) = <<last[2]>> /\ Head(last) = w /\ DOMAIN last = {1, 2}
            /\ <<last[2]>>[1] = last[2] /\ DOMAIN <<last[2]>> = {1}
        <5> HIDE DEF w
        <5>1. ASSUME NEW x, last = <<w, x>>
              PROVE  /\ Tail(last) = <<x>> /\ Head(last) = w /\ DOMAIN last = {1, 2}
                     /\ <<x>>[1] = x /\ DOMAIN <<x>> = {1}
          BY <5>1, Tails
        <5>2. QED
          BY <3>2, <5>1
      <4>2. Taken(last) = Takes(w) \cup Takes(last[2]) /\ Taken(Tail(last)) = Takes(last[2])
        BY <3>2, <4>1, TakenCases
      <4>3. QED
        BY <2>1, <3>2, <4>1, <4>2 DEF ToCome, IsWrite
    <3>3. QED
      BY <1>1, <2>1, <3>1, <3>2 DEF ToCome, last
  <2>4. FilesInv /\ \A p \in DOMAIN disk' : WellFormed(disk'[p])
    <3>1. CASE w.op = "move"
      BY <1>3, <2>3, <3>1 DEF Applied, Possible, FilesInv, Sound
    <3>2. CASE w.op = "put"
      BY <1>3, <2>1, <2>3, <3>2 DEF Applied, Over, Only, FilesInv, Sound
    <3>3. CASE w.op = "remove"
      BY <1>3, <2>3, <3>3 DEF Applied, Restrict, FilesInv, Sound
    <3>4. QED
      BY <2>3, <3>1, <3>2, <3>3 DEF IsWrite
  <2>5. FilesInv'
    BY <1>1, <2>4 DEF FilesInv, Sound
  <2>6. \A p : p \notin job.touched => /\ p \in DOMAIN disk' <=> p \in DOMAIN disk
                                       /\ p \in DOMAIN disk => disk'[p] = disk[p]
    <3>1. CASE w.op = "move"
      BY <1>3, <2>1, <2>3, <3>1 DEF Applied
    <3>2. CASE w.op = "put"
      BY <1>3, <2>1, <2>3, <3>2 DEF Applied, Over, Only, Takes
    <3>3. CASE w.op = "remove"
      BY <1>3, <2>1, <2>3, <3>3 DEF Applied, Restrict, Takes
    <3>4. QED
      BY <2>3, <3>1, <3>2, <3>3 DEF IsWrite
  <2>7. PhaseInv'
    <3>1. pc' = "read" /\ read' = read /\ held' = held /\ todo' = todo
      BY <1>1, <1>3
    <3>2. Referrers(held', job')
      BY <2>1, <2>2, <3>1 DEF Referrers
    <3>3. todo' \subseteq DOMAIN job'.rewrite /\ ToCome(job'.last)
      BY <2>1, <2>2, <2>3, <3>1
    <3>4. Taken(job'.last) \subseteq job'.touched \ DOMAIN job'.rewrite
      BY <2>1, <2>2, <2>3
    <3>5. Taken(job'.last) \subseteq read'
      BY <2>2, <2>3, <3>1
    <3>6. DOMAIN job'.last \ {1} = {}
      BY <2>2, <2>3
    <3>7. \A i \in DOMAIN job'.last :
             /\ job'.last[i].op = "move" =>
                   job'.last[i].from \in job'.touched /\ job'.last[i].to \in job'.touched
             /\ job'.last[i].op = "put" => WellFormed(job'.last[i].file)
      BY <2>1, <2>2, <2>3
    <3>8. QED
      BY <2>2, <3>1, <3>2, <3>3, <3>4, <3>5, <3>6, <3>7 DEF PhaseInv
  <2>8. InHandInv'
    BY <1>1, <1>3 DEF InHandInv
  <2>9. /\ Apart(Outlook(disk', Tail(last)))
        /\ \A k \in InTime : Somewhere(Outlook(disk', Tail(last)), k)
    <3>1. CASE w.op = "move"
      <4>1. last = <<w>> /\ Tail(last) = <<>>
        BY <1>1, <2>1, <2>3, <3>1 DEF ToCome, last
      <4>2. Outlook(disk, last) = disk /\ Outlook(disk', Tail(last)) = disk'
        <5>1. Outlook(disk, <<w>>) = After(disk, w) /\ Outlook(disk', <<>>) = disk'
          BY OutlookCases
        <5>2. QED
          BY <3>1, <4>1, <5>1 DEF After
      <4>3. /\ w.from \in DOMAIN disk /\ w.to \notin DOMAIN disk
            /\ DOMAIN disk' = (DOMAIN disk \ {w.from}) \cup {w.to}
            /\ disk'[w.to] = disk[w.from]
            /\ \A p \in DOMAIN disk \ {w.from} : disk'[p] = disk[p]
        BY <1>3, <2>3, <3>1 DEF Applied, Possible
      <4>4. Apart(disk')
        BY <2>1, <4>2, <4>3 DEF Apart
      <4>5. \A k : Somewhere(disk, k) => Somewhere(disk', k)
        BY <4>3 DEF Somewhere
      <4>6. QED
        BY <2>1, <4>2, <4>4, <4>5
    <3>2. CASE w.op # "move"
      <4>1. disk' = After(disk, w)
        BY <1>3, <2>3, <3>2 DEF Applied, After, IsWrite
      <4>2. Outlook(disk', Tail(last)) = Outlook(disk, last)
        <5>1. CASE last = <<w>>
          <6>1. Outlook(disk, <<w>>) = After(disk, w) /\ Outlook(disk', <<>>) = disk'
            BY OutlookCases
          <6>2. Tail(<<w>>) = <<>>
            BY Tails
          <6>3. QED
            BY <4>1, <5>1, <6>1, <6>2
        <5>2. CASE last = <<w, last[2]>>
          <6>1. Tail(<<w, last[2]>>) = <<last[2]>>
            BY Tails
          <6>2. Outlook(disk, <<w, last[2]>>) = After(disk', last[2])
            BY <4>1, OutlookOfTwo
          <6>3. Outlook(disk', <<last[2]>>) = After(disk', last[2])
            BY OutlookCases
          <6>4. QED
            BY <5>2, <6>1, <6>2, <6>3
        <5>3. QED
          BY <1>1, <2>1, <5>1, <5>2 DEF ToCome, last
      <4>3. QED
        BY <2>1, <4>2
    <3>3. QED
      BY <3>1, <3>2
  <2>10. PlacesInv'
    BY <1>1, <1>3, <2>2, <2>6, <2>9 DEF PlacesInv, Alike, Apart
  <2>11. KeptInv'
    <3>1. ASSUME NEW k \in InTime, k \notin exposed PROVE Somewhere(Reset(disk)', k)
      <4>1. PICK p \in DOMAIN Reset(disk) : Has(Reset(disk)[p], k)
        BY <2>1, <3>1 DEF Somewhere
      <4>2. p \in DOMAIN Reset(disk)' /\ Reset(disk)'[p] = Reset(disk)[p]
        BY <1>1, <2>2, <2>6, <4>1, TakingPaths DEF Reset
      <4>3. QED
        BY <4>1, <4>2 DEF Somewhere
    <3>2. InTime' = InTime
      BY <1>1, <1>3 DEF InTime
    <3>3. /\ pc' = "read"
          /\ \A k \in InTime' : /\ Somewhere(Outlook(disk, job.last)', k)
                                /\ k \notin exposed' => Somewhere(Reset(disk)', k)
      BY <1>1, <1>3, <2>2, <2>9, <3>1, <3>2
    <3>4. QED
      BY <3>3 DEF KeptInv
  <2>12. QED
    BY <2>5, <2>7, <2>8, <2>10, <2>11
<1>4. QED
  BY <1>2, <1>3 DEF Finish

LEMMA CommitKeeps == ASSUME Inv, Commit PROVE Inv'
<1> USE DEF Inv
<1>1. /\ pc = "read" /\ job.last = <<>> /\ pc' = "rebuild"
      /\ head' = Taking(head, disk, job.touched)
      /\ UNCHANGED <<disk, held, job, edits, late, exposed>>
  BY DEF Commit
<1>2. Outlook(disk, job.last) = disk
  BY <1>1 DEF Outlook
<1>3. FilesInv'
  BY <1>1, TakingPaths DEF FilesInv, Sound
<1>4. PhaseInv' /\ InHandInv'
  BY <1>1 DEF PhaseInv, InHandInv
<1>5. Alike(head', disk)
  <2>1. Alike(head, held)
    BY <1>1 DEF PlacesInv
  <2>2. ASSUME NEW p PROVE  /\ p \in DOMAIN head' <=> p \in DOMAIN disk
                            /\ p \in DOMAIN disk => Keys(head'[p]) = Keys(disk[p])
    <3>1. CASE p \in job.touched
      BY <1>1, <3>1, TakingPaths
    <3>2. CASE p \notin job.touched
      <4>1. /\ p \in DOMAIN head' <=> p \in DOMAIN head
            /\ p \in DOMAIN head => head'[p] = head[p]
        BY <1>1, <3>2, TakingPaths
      <4>2. QED
        BY <2>1, <3>2, <4>1 DEF PlacesInv, Alike
    <3>3. QED
      BY <3>1, <3>2
  <2>3. QED
    BY <2>2 DEF Alike
<1>6. PlacesInv'
  <2>1. Apart(disk)
    BY <1>1, <1>2 DEF PlacesInv
  <2>2. Apart(head')
    BY <1>5, <2>1 DEF Apart, Alike
  <2>3. QED
    BY <1>1, <1>5, <2>2 DEF PlacesInv, Alike, Apart
<1>7. KeptInv'
  BY <1>1, <1>2 DEF KeptInv, InTime, Somewhere
<1>8. QED
  BY <1>3, <1>4, <1>6, <1>7

LEMMA RebuildKeeps == ASSUME Inv, Rebuild PROVE Inv'
<1> USE DEF Inv
<1>1. /\ pc = "rebuild" /\ pc' = "idle" /\ job' = NoJob /\ read' = {}
      /\ held' = Taking(held, disk, job.touched) /\ UNCHANGED <<disk, head, edits, late>>
  BY DEF Rebuild, End
<1>2. FilesInv'
  BY <1>1, TakingPaths DEF FilesInv, Sound
<1>3. PhaseInv' /\ InHandInv'
  BY <1>1 DEF PhaseInv, InHandInv
<1>4. Alike(disk, held')
  <2>1. ASSUME NEW p PROVE  /\ p \in DOMAIN held' <=> p \in DOMAIN disk
                            /\ p \in DOMAIN disk => Keys(held'[p]) = Keys(disk[p])
    <3>1. CASE p \in job.touched
      BY <1>1, <3>1, TakingPaths
    <3>2. CASE p \notin job.touched
      <4>1. /\ p \in DOMAIN held' <=> p \in DOMAIN held
            /\ p \in DOMAIN held => held'[p] = held[p]
        BY <1>1, <3>2, TakingPaths
      <4>2. QED
        BY <3>2, <4>1 DEF PlacesInv
    <3>3. QED
      BY <3>1, <3>2
  <2>2. QED
    BY <2>1 DEF Alike
<1>5. PlacesInv'
  <2>1. Apart(head) /\ Alike(head, disk)
    BY <1>1 DEF PlacesInv
  <2>2. QED
    BY <1>1, <1>4, <2>1 DEF PlacesInv, Alike, Apart
<1>6. KeptInv'
  BY <1>1 DEF KeptInv, InTime, Somewhere
<1>7. QED
  BY <1>2, <1>3, <1>5, <1>6

LEMMA WatchKeeps ==
    ASSUME Inv, NEW p, Watch(p)
    PROVE  Inv'
<1> USE DEF Inv
<1>1. /\ pc = "idle" /\ held' = Taking(held, disk, {p})
      /\ UNCHANGED <<disk, head, job, pc, todo, cur, read, edits, late, exposed>>
  BY DEF Watch
<1>2. FilesInv'
  BY <1>1, TakingPaths DEF FilesInv, Sound
<1>3. PhaseInv' /\ InHandInv'
  BY <1>1 DEF PhaseInv, InHandInv
<1>4. job.touched = {}
  BY <1>1 DEF PhaseInv, NoJob, Job
<1>5. ASSUME NEW q PROVE  /\ q \in DOMAIN held' <=> q \in DOMAIN disk
                          /\ q \in DOMAIN disk => Keys(held'[q]) = Keys(disk[q])
  <2>1. /\ q \in DOMAIN held <=> q \in DOMAIN disk
        /\ q \in DOMAIN disk => Keys(held[q]) = Keys(disk[q])
    BY <1>4 DEF PlacesInv
  <2>2. CASE q = p
    BY <1>1, <2>2, TakingPaths
  <2>3. CASE q # p
    BY <1>1, <2>1, <2>3, TakingPaths
  <2>4. QED
    BY <2>2, <2>3
<1>6. PlacesInv'
  <2>1. Apart(head) /\ Alike(head, held)
    BY <1>1 DEF PlacesInv
  <2>2. \A q : /\ q \in DOMAIN held <=> q \in DOMAIN disk
               /\ q \in DOMAIN disk => Keys(held[q]) = Keys(disk[q])
    BY <1>4 DEF PlacesInv
  <2>3. Alike(head, held')
    BY <1>5, <2>1, <2>2 DEF Alike
  <2>4. QED
    BY <1>1, <1>5, <2>1, <2>3 DEF PlacesInv, Alike, Apart
<1>7. KeptInv'
  BY <1>1 DEF KeptInv, InTime, Somewhere
<1>8. QED
  BY <1>2, <1>3, <1>6, <1>7

-----------------------------------------------------------------------------
(* People.                                                                 *)

\* A person adds one thing and takes nothing away.
LEMMA EditAdds ==
    ASSUME Sound(disk), NEW p \in DOMAIN disk, NEW k, NEW committed, Edit(p, k, committed)
    PROVE  /\ DOMAIN disk' = DOMAIN disk /\ \A q \in DOMAIN disk \ {p} : disk'[q] = disk[q]
           /\ WellFormed(disk'[p]) /\ Keys(disk'[p]) = Keys(disk[p]) /\ Has(disk'[p], k)
           /\ \A j : Has(disk[p], j) => Has(disk'[p], j)
           /\ \A j : j # k /\ Has(disk'[p], j) => Has(disk[p], j)
<1> DEFINE c == disk[p]
           e == disk'[p]
           jot == <<"e", c.me>>
           place == [in |-> c.me, slot |-> "prose", holds |-> Jotted]
<1>1. WellFormed(c)
  BY DEF Sound
<1>2. CASE /\ k = jot /\ k \notin DOMAIN c.places
           /\ disk' = [disk EXCEPT ![p].places = Over(Only(k, place), @)]
  <2>1. /\ DOMAIN disk' = DOMAIN disk /\ \A q \in DOMAIN disk \ {p} : disk'[q] = disk[q]
        /\ e = [c EXCEPT !.places = Over(Only(k, place), @)]
    BY <1>2
  <2>2. k[1] = "e"
    BY <1>2
  <2> HIDE DEF c, e
  <2>3. /\ "places" \in DOMAIN e /\ DOMAIN e.places = DOMAIN c.places \cup {k}
        /\ e.places[k] = place /\ \A j \in DOMAIN c.places : e.places[j] = c.places[j]
    BY <1>1, <1>2, <2>1 DEF Over, Only, WellFormed
  <2>4. "holds" \in DOMAIN place /\ place.holds = Jotted
    OBVIOUS
  <2> HIDE DEF place, jot
  <2>5. WellFormed(e)
    BY <1>1, <2>3, <2>4, RefactorAssumption DEF WellFormed
  <2>6. Keys(e) = Keys(c) /\ Has(e, k)
    BY <2>2, <2>3 DEF Keys, Has
  <2>7. \A j : j # k => (Has(c, j) <=> Has(e, j))
    BY <2>3 DEF Has, At
  <2>8. QED
    BY <2>1, <2>5, <2>6, <2>7 DEF c, e
<1>3. CASE /\ k \in DOMAIN c.places /\ IsLink(At(c, k)) /\ ~At(c, k).pin
           /\ disk' = [disk EXCEPT ![p].places[k].holds.pin = TRUE]
  <2>1. /\ DOMAIN disk' = DOMAIN disk /\ \A q \in DOMAIN disk \ {p} : disk'[q] = disk[q]
        /\ e = [c EXCEPT !.places[k].holds.pin = TRUE]
    BY <1>3
  <2> HIDE DEF c, e
  <2>2. /\ "places" \in DOMAIN e /\ DOMAIN e.places = DOMAIN c.places
        /\ e.places[k] = [c.places[k] EXCEPT !.holds.pin = TRUE]
        /\ \A j \in DOMAIN c.places \ {k} : e.places[j] = c.places[j]
    BY <1>1, <1>3, <2>1 DEF WellFormed
  <2>3. /\ "holds" \in DOMAIN e.places[k]
        /\ DOMAIN At(e, k) = DOMAIN At(c, k) /\ At(e, k).pin = TRUE
    BY <1>1, <1>3, <2>2 DEF WellFormed, At
  <2>4. WellFormed(e)
    BY <1>1, <1>3, <2>2, <2>3 DEF WellFormed, At, IsLink, IsRecord
  <2>5. Keys(e) = Keys(c) /\ Has(e, k)
    BY <1>3, <2>2, <2>3 DEF Keys, Has, IsLink
  <2>6. \A j : j # k => (Has(c, j) <=> Has(e, j))
    BY <2>2 DEF Has, At
  <2>7. QED
    BY <2>1, <2>4, <2>5, <2>6 DEF c, e
<1>4. QED
  BY <1>2, <1>3 DEF Edit

LEMMA EditKeeps ==
    ASSUME Inv, NEW p \in DOMAIN disk, NEW k, NEW committed, Edit(p, k, committed)
    PROVE  Inv'
<1> USE DEF Inv
<1>1. /\ DOMAIN disk' = DOMAIN disk /\ \A q \in DOMAIN disk \ {p} : disk'[q] = disk[q]
      /\ WellFormed(disk'[p]) /\ Keys(disk'[p]) = Keys(disk[p]) /\ Has(disk'[p], k)
      /\ \A j : Has(disk[p], j) => Has(disk'[p], j)
      /\ \A j : j # k /\ Has(disk'[p], j) => Has(disk[p], j)
  BY EditAdds DEF FilesInv
<1>2. /\ UNCHANGED <<held, job, pc, todo, cur, read>> /\ edits' = edits \cup {k}
      /\ late \subseteq late' /\ late' \subseteq late \cup {k}
      /\ p \in read => k \in late'
      /\ exposed \subseteq exposed' /\ (~committed /\ AtRisk(p) => k \in exposed')
  BY DEF Edit
\* A commit of the file takes what is on disk.
<1>3. /\ DOMAIN head' = DOMAIN head /\ \A q \in DOMAIN head \ {p} : head'[q] = head[q]
      /\ IF committed THEN p \in DOMAIN head /\ head[p] = disk[p] /\ head'[p] = disk'[p]
                      ELSE head' = head
  BY DEF Edit, Same
<1>4. /\ \A q \in DOMAIN head : Keys(head'[q]) = Keys(head[q])
      /\ \A q \in DOMAIN head : \A j : Has(head[q], j) => Has(head'[q], j)
      /\ \A q \in DOMAIN disk : Keys(disk'[q]) = Keys(disk[q])
      /\ \A q \in DOMAIN disk : \A j : Has(disk[q], j) => Has(disk'[q], j)
  BY <1>1, <1>3
<1>5. \A j \in InTime' : j \in InTime \/ (j = k /\ k \notin late')
  BY <1>2 DEF InTime
<1>6. FilesInv'
  BY <1>1, <1>2, <1>3 DEF FilesInv, Sound
<1>7. PhaseInv'
  BY <1>1, <1>2 DEF PhaseInv, Planned, Referrers, MovesOne, PutsOne, Splits, Merges
<1>8. InHandInv'
  BY <1>1, <1>2 DEF InHandInv, Has
<1>9. PlacesInv'
  <2>1. Apart(head')
    BY <1>3, <1>4 DEF PlacesInv, Apart
  <2>2. /\ Alike(head, held) => Alike(head', held)
        /\ Alike(head, disk) => Alike(head', disk')
        /\ Alike(disk, held) => Alike(disk', held)
    BY <1>1, <1>3, <1>4 DEF Alike
  <2>3. pc \in {"read", "write"} => Apart(Outlook(disk', job.last))
    <3> SUFFICES ASSUME pc \in {"read", "write"} PROVE Apart(Outlook(disk', job.last))
      OBVIOUS
    <3>1. Alike(Outlook(disk, job.last), Outlook(disk', job.last))
      BY <1>1, <1>4, OutlookFollows DEF PhaseInv
    <3>2. QED
      BY <3>1, ApartAlike DEF PlacesInv
  <2>4. QED
    BY <1>1, <1>2, <1>4, <2>1, <2>2, <2>3 DEF PlacesInv
<1>10. KeptInv'
  <2> SUFFICES ASSUME NEW j \in InTime'
               PROVE  /\ pc \in {"idle", "open", "rebuild"} => Somewhere(disk', j)
                      /\ pc = "check" => \E q \in DOMAIN disk' :
                            /\ Has(disk'[q], j)
                            /\ j \notin exposed' /\ q \in job.exempt =>
                                  q \in DOMAIN head' /\ Has(head'[q], j)
                      /\ pc \in {"open", "read", "write"} /\ j \notin exposed' =>
                            Somewhere(Reset(disk)', j)
                      /\ pc \in {"read", "write"} => Somewhere(Outlook(disk', job.last), j)
    BY <1>2 DEF KeptInv
  <2>1. CASE j \in InTime
    <3>1. Somewhere(disk, j) => Somewhere(disk', j)
      BY <1>1, <1>4 DEF Somewhere
    <3>2. Somewhere(Reset(disk), j) => Somewhere(Reset(disk)', j)
      <4> SUFFICES ASSUME Somewhere(Reset(disk), j) PROVE Somewhere(Reset(disk)', j)
        OBVIOUS
      <4>1. PICK q \in DOMAIN Reset(disk) : Has(Reset(disk)[q], j)
        BY DEF Somewhere
      <4>2. q \in DOMAIN Reset(disk)' /\ Has(Reset(disk)'[q], j)
        BY <1>1, <1>2, <1>3, <1>4, <4>1, TakingPaths DEF Reset
      <4>3. QED
        BY <4>2 DEF Somewhere
    <3>3. pc \in {"read", "write"} => Somewhere(Outlook(disk', job.last), j)
      BY <1>1, <1>4, <2>1, OutlookFollows DEF PhaseInv, KeptInv
    <3>4. QED
      BY <1>1, <1>2, <1>3, <1>4, <2>1, <3>1, <3>2, <3>3 DEF KeptInv
  <2>2. CASE j = k /\ k \notin late'
    <3>1. Somewhere(disk', j)
      BY <1>1, <2>2 DEF Somewhere
    <3>2. j \notin exposed' /\ p \in job.exempt => p \in DOMAIN head' /\ Has(head'[p], j)
      BY <1>1, <1>2, <1>3, <2>2 DEF AtRisk
    <3>3. pc \in {"open", "read", "write"} /\ j \notin exposed' => Somewhere(Reset(disk)', j)
      <4> SUFFICES ASSUME pc \in {"open", "read", "write"}, j \notin exposed'
                   PROVE  Somewhere(Reset(disk)', j)
        OBVIOUS
      <4>1. p \in job.touched => p \in DOMAIN head' /\ Has(head'[p], j)
        BY <1>1, <1>2, <1>3, <2>2 DEF AtRisk
      <4>2. p \in DOMAIN Reset(disk)' /\ Has(Reset(disk)'[p], j)
        BY <1>1, <1>2, <2>2, <4>1, TakingPaths DEF Reset
      <4>3. QED
        BY <4>2 DEF Somewhere
    <3>4. pc \in {"read", "write"} => Somewhere(Outlook(disk', job.last), j)
      BY <1>1, <1>2, <2>2, OutlookHas DEF PhaseInv
    <3>5. QED
      BY <1>1, <2>2, <3>1, <3>2, <3>3, <3>4
  <2>3. QED
    BY <1>5, <2>1, <2>2
<1>11. QED
  BY <1>6, <1>7, <1>8, <1>9, <1>10

-----------------------------------------------------------------------------
(* The theorem.                                                            *)

LEMMA StepsKeep == Inv /\ [Next]_vars => Inv'
<1> SUFFICES ASSUME Inv, [Next]_vars PROVE Inv'
  OBVIOUS
<1>1. ASSUME NEW r \in Requests, Ask(r) PROVE Inv'
  BY <1>1, AskKeeps
<1>2. ASSUME NEW p \in todo, ReadReferrer(p) PROVE Inv'
  BY <1>2, ReadReferrerKeeps
<1>3. ASSUME NEW p \in DOMAIN disk, NEW k \in Penned, NEW committed \in BOOLEAN,
             Edit(p, k, committed)
      PROVE  Inv'
  BY <1>3, EditKeeps
<1>4. ASSUME NEW p \in DOMAIN disk \cup DOMAIN held, Watch(p) PROVE Inv'
  BY <1>4, WatchKeeps
<1>5. CASE Check
  BY <1>5, CheckKeeps
<1>6. CASE Open
  BY <1>6, OpenKeeps
<1>7. CASE WriteReferrer
  BY <1>7, WriteReferrerKeeps
<1>8. CASE Finish
  BY <1>8, FinishKeeps
<1>9. CASE Fail
  BY <1>9, FailKeeps
<1>10. CASE Commit
  BY <1>10, CommitKeeps
<1>11. CASE Rebuild
  BY <1>11, RebuildKeeps
<1>12. CASE UNCHANGED vars
  <2>1. FilesInv' /\ PlacesInv' /\ InHandInv'
    BY <1>12 DEF vars, Inv, FilesInv, Sound, PlacesInv, Alike, Apart, InHandInv
  <2>2. PhaseInv'
    BY <1>12 DEF vars, Inv, PhaseInv, Planned, Referrers, MovesOne, PutsOne, Splits, Merges
  <2>3. KeptInv'
    BY <1>12 DEF vars, Inv, KeptInv, InTime, Reset, Apart
  <2>4. QED
    BY <2>1, <2>2, <2>3 DEF Inv
<1>13. QED
  BY <1>1, <1>2, <1>3, <1>4, <1>5, <1>6, <1>7, <1>8, <1>9, <1>10, <1>11, <1>12 DEF Next

\* What people write into the files of a verb is kept if it goes through, is
\* refused or fails, but for what came between the read and the write of the file;
\* and, if it is rolled back, but for what was not committed in a file found clean
\* before or excused from being looked at: the clean check and the hash checks
\* give this for any workspace and requests, the host an excused file or not.
THEOREM WhatPeopleWriteIsKept == Spec => []EditsKept
<1>1. Inv => EditsKept
  BY DEF Inv, KeptInv, InTime, Somewhere, Has, EditsKept
<1>2. Init => Inv
  BY InitKeeps
<1>3. QED
  BY <1>1, <1>2, StepsKeep, PTL DEF Spec

-----------------------------------------------------------------------------
(* Where a reference leads.                                                *)

AllProper(d) == \A p \in DOMAIN d : Proper(d[p])

\* A place of a proper file holds a record, a link or a claim.
LEMMA PlaceKinds ==
    ASSUME NEW c, Proper(c), NEW k \in DOMAIN c.places
    PROVE  LET x == At(c, k)
           IN  /\ DOMAIN c.places[k] = {"in", "slot", "holds"}
               /\ \/ IsRecord(x) /\ ~IsLink(x) /\ ~IsClaim(x) /\ DOMAIN x = {"me", "id"}
                  \/ IsLink(x) /\ ~IsRecord(x) /\ ~IsClaim(x)
                     /\ DOMAIN x = {"name", "repo", "id", "ref", "head", "pin"}
                  \/ IsClaim(x) /\ ~IsRecord(x) /\ ~IsLink(x) /\ DOMAIN x = {"type", "repo"}
  BY DEF Proper, RecordFields, LinkFields, ClaimFields, IsRecord, IsLink, IsClaim

LEMMA ProperIsWellFormed ==
    ASSUME NEW c, Proper(c)
    PROVE  WellFormed(c)
<1>1. "places" \in DOMAIN c
  BY DEF Proper
<1>2. ASSUME NEW k \in DOMAIN c.places
      PROVE  /\ "holds" \in DOMAIN c.places[k]
             /\ IsLink(c.places[k].holds) => /\ ~IsRecord(c.places[k].holds)
                                             /\ "pin" \in DOMAIN c.places[k].holds
  BY PlaceKinds DEF At
<1>3. QED
  BY <1>1, <1>2 DEF WellFormed

\* A link that leads somewhere is not pinned and leads to one file.
LEMMA FoundOne ==
    ASSUME NEW d, NEW p, NEW l, Found(d, p, l) # {}
    PROVE  /\ ~l.pin
           /\ \E f : /\ Found(d, p, l) = {f}
                     /\ l.name = Local => f = p
                     /\ l.name # Local => Matches(d, Home(p, l), l.name) = {f}
<1>1. CASE l.name = Local
  BY <1>1 DEF Found
<1>2. CASE l.name # Local
  BY <1>2 DEF Found
<1>3. QED
  BY <1>1, <1>2

LEMMA NameParts ==
    /\ \A p : Full(p).stem = p.stem /\ Full(p).dir = p.dir /\ Full(p).ext = p.ext
    /\ \A p : Base(p).stem = p.stem /\ Base(p).dir = "" /\ Base(p).ext = p.ext
    /\ \A p : Stem(p).stem = p.stem /\ Stem(p).dir = "" /\ Stem(p).ext = ""
    /\ \A p : DirStem(p).stem = p.stem /\ DirStem(p).dir = p.dir /\ DirStem(p).ext = ""
    /\ Local.stem = ""
  BY DEF Full, Base, Stem, DirStem, Local

LEMMA NameStems ==
    \A n, p : n = Full(p) \/ n = Base(p) \/ n = Stem(p) \/ n = DirStem(p) => n.stem = p.stem
  BY NameParts

\* A file a name matches is there, and bears the stem.
LEMMA MatchesBear ==
    ASSUME NEW d, NEW repo, NEW n, NEW f \in Matches(d, repo, n)
    PROVE  f \in DOMAIN d /\ f.repo = repo /\ n.stem = f.stem
<1>1. f \in DOMAIN d /\ f.repo = repo /\ n \in {Full(f), Base(f), Stem(f), DirStem(f)}
  BY DEF Matches
<1>2. QED
  BY <1>1, NameParts

\* Leading to a file: to the file itself, or to the record the reference names,
\* in passing to both.
Lands(d, p, k, g) ==
    LET x == At(d[p], k) IN
    \/ x.id = NoId /\ Reach(d, p, k) = {d[g].me}
    \/ /\ x.id # NoId
       /\ \E j \in Records(d[g]) :
             /\ At(d[g], j).id = x.id
             /\ Reach(d, p, k) = IF Passing(d[p], k) THEN {At(d[g], j).me, d[g].me}
                                 ELSE {At(d[g], j).me}

LEMMA RecordedOne ==
    ASSUME NEW d, NEW g, Proper(d[g]), NEW j \in Records(d[g]), NEW id, At(d[g], j).id = id, id # NoId
    PROVE  {r.me : r \in {r \in Recorded(d, {g}) : r.id = id}} = {At(d[g], j).me}
<1>1. Recorded(d, {g}) = {At(d[g], i) : i \in Records(d[g])}
  BY DEF Recorded
<1>2. \A i \in Records(d[g]) : At(d[g], i).id = id => i = j
  BY DEF Proper
<1>3. QED
  BY <1>1, <1>2

\* Where a link leads, when the file it names is known.
LEMMA Arrival ==
    ASSUME NEW d, NEW p, NEW k, NEW g \in DOMAIN d, Proper(d[g]),
           IsLink(At(d[p], k)), ~IsRecord(At(d[p], k)), ~IsClaim(At(d[p], k)),
           Found(d, p, At(d[p], k)) = {g}
    PROVE  LET x == At(d[p], k)
           IN  /\ x.id = NoId => Reach(d, p, k) = {d[g].me}
               /\ x.id # NoId =>
                     \A j \in Records(d[g]) :
                        At(d[g], j).id = x.id =>
                           Reach(d, p, k) = IF Passing(d[p], k) THEN {At(d[g], j).me, d[g].me}
                                            ELSE {At(d[g], j).me}
<1> DEFINE x == At(d[p], k)
           named == {r.me : r \in {r \in Recorded(d, {g}) : r.id = x.id}}
<1>1. {d[f].me : f \in {g}} = {d[g].me}
  OBVIOUS
<1>2. Reach(d, p, k) = IF x.id = NoId THEN {d[g].me}
                       ELSE IF Passing(d[p], k) /\ named # {} THEN named \cup {d[g].me} ELSE named
  BY <1>1 DEF Reach
<1>3. ASSUME x.id # NoId, NEW j \in Records(d[g]), At(d[g], j).id = x.id
      PROVE  named = {At(d[g], j).me}
  <2>1. \A id : At(d[g], j).id = id /\ id # NoId =>
            {r.me : r \in {r \in Recorded(d, {g}) : r.id = id}} = {At(d[g], j).me}
    BY RecordedOne
  <2>2. QED
    BY <1>3, <2>1
<1> HIDE DEF x
<1> HIDE DEF named
<1>4. QED
  BY <1>2, <1>3 DEF x

LEMMA Landing ==
    ASSUME NEW d, AllProper(d), NEW p \in DOMAIN d, NEW k \in DOMAIN d[p].places,
           IsLink(At(d[p], k)), Reach(d, p, k) # {}
    PROVE  \E g : /\ Found(d, p, At(d[p], k)) = {g} /\ g \in DOMAIN d
                  /\ Lands(d, p, k, g)
<1> DEFINE x == At(d[p], k)
<1>1. IsLink(x) /\ ~IsRecord(x) /\ ~IsClaim(x)
  BY PlaceKinds DEF AllProper
<1>2. Found(d, p, x) # {}
  <2> SUFFICES ASSUME Found(d, p, x) = {} PROVE FALSE
    OBVIOUS
  <2>1. Recorded(d, {}) = {} /\ {d[f].me : f \in {}} = {}
    BY DEF Recorded
  <2>2. Reach(d, p, k) = {}
    BY <1>1, <2>1 DEF Reach
  <2>3. QED
    BY <2>2
<1>3. PICK g : /\ Found(d, p, x) = {g}
               /\ x.name = Local => g = p
               /\ x.name # Local => Matches(d, Home(p, x), x.name) = {g}
  BY <1>2, FoundOne
<1>4. Found(d, p, x) = {g} /\ g \in DOMAIN d
  <2>1. CASE x.name = Local
    BY <1>3, <2>1 DEF Found
  <2>2. CASE x.name # Local
    BY <1>2, <1>3, <2>2, FoundOne, MatchesBear
  <2>3. QED
    BY <2>1, <2>2
<1>5. ASSUME x.id # NoId
      PROVE  \E j \in Records(d[g]) : At(d[g], j).id = x.id
  <2> DEFINE named == {r.me : r \in {r \in Recorded(d, {g}) : r.id = x.id}}
  <2>1. Found(d, p, x) = {g}
    BY <1>4
  <2>2. Reach(d, p, k) = IF Passing(d[p], k) /\ named # {}
                         THEN named \cup {d[f].me : f \in Found(d, p, x)} ELSE named
    BY <1>1, <1>5, <2>1 DEF Reach
  <2>3. named # {}
    BY <2>2
  <2>4. \E r \in Recorded(d, {g}) : r.id = x.id
    BY <2>3
  <2>5. Recorded(d, {g}) = {At(d[g], i) : i \in Records(d[g])}
    BY DEF Recorded
  <2>6. QED
    BY <2>4, <2>5
<1>6. Lands(d, p, k, g)
  <2>1. Proper(d[g])
    BY <1>4 DEF AllProper
  <2>2. QED
    BY <1>1, <1>4, <1>5, <2>1, Arrival DEF Lands
<1>7. QED
  BY <1>4, <1>6

\* Two links in equal words that find the same file lead to the same.
LEMMA SameLanding ==
    ASSUME NEW d, AllProper(d), NEW p \in DOMAIN d, NEW k \in DOMAIN d[p].places,
           IsLink(At(d[p], k)), Reach(d, p, k) # {},
           NEW g, Found(d, p, At(d[p], k)) = {g},
           NEW e, NEW q, NEW h \in DOMAIN e, Proper(e[h]),
           IsLink(At(e[q], k)), ~IsRecord(At(e[q], k)), ~IsClaim(At(e[q], k)),
           Found(e, q, At(e[q], k)) = {h},
           At(e[q], k).id = NoId <=> At(d[p], k).id = NoId,
           Passing(e[q], k) <=> Passing(d[p], k),
           e[h].me = d[g].me,
           \A j \in Records(d[g]) : At(d[g], j).id = At(d[p], k).id =>
               j \in Records(e[h]) /\ At(e[h], j).id = At(e[q], k).id
                                  /\ At(e[h], j).me = At(d[g], j).me
    PROVE  Reach(e, q, k) = Reach(d, p, k)
<1>1. Lands(d, p, k, g)
  BY Landing
<1>2. CASE At(d[p], k).id = NoId
  <2>1. Reach(d, p, k) = {d[g].me}
    BY <1>1, <1>2 DEF Lands
  <2>2. Reach(e, q, k) = {e[h].me}
    BY <1>2, Arrival
  <2>3. QED
    BY <2>1, <2>2
<1>3. CASE At(d[p], k).id # NoId
  <2>1. PICK j \in Records(d[g]) :
           /\ At(d[g], j).id = At(d[p], k).id
           /\ Reach(d, p, k) = IF Passing(d[p], k) THEN {At(d[g], j).me, d[g].me}
                               ELSE {At(d[g], j).me}
    BY <1>1, <1>3 DEF Lands
  <2>2. Reach(e, q, k) = IF Passing(e[q], k) THEN {At(e[h], j).me, e[h].me}
                         ELSE {At(e[h], j).me}
    BY <1>3, <2>1, Arrival
  <2>3. QED
    BY <2>1, <2>2
<1>4. QED
  BY <1>2, <1>3

\* What leads to a file or record by itself.
LEMMA RecordReach ==
    ASSUME NEW d, NEW p, NEW k, IsRecord(At(d[p], k))
    PROVE  Reach(d, p, k) = {At(d[p], k).me}
  BY DEF Reach

Claimed(d, p, x) == {f \in DOMAIN d : Def(f) /\ f.repo = Home(p, x) /\ f.stem = x.type}
LEMMA ClaimReach ==
    ASSUME NEW d, NEW p, NEW k, IsClaim(At(d[p], k)), ~IsLink(At(d[p], k)), ~IsRecord(At(d[p], k))
    PROVE  Reach(d, p, k) = {d[f].me : f \in Claimed(d, p, At(d[p], k))}
  BY DEF Reach, Claimed

-----------------------------------------------------------------------------
(* Names, when files come and go.                                          *)

\* Files of before that bear the stem of the new one, in its repository.
Bears(d, e, to, l) ==
    \E f \in DOMAIN d \cap DOMAIN e :
        f # to /\ f.repo = to.repo /\ f.stem = to.stem /\ l.name.stem = f.stem

\* The ways to write the name of a file.
Spellings(p) == {Full(p), Base(p), Stem(p)} \cup (IF Def(p) THEN {} ELSE {DirStem(p)})
LEMMA SpellingParts ==
    ASSUME NEW p, NEW n \in Spellings(p)
    PROVE  n.stem = p.stem /\ n.dir \in {"", p.dir} /\ n.ext \in {"", p.ext}
<1>1. n \in {Full(p), Base(p), Stem(p), DirStem(p)}
  BY DEF Spellings
<1>2. CASE n = Full(p)
  BY <1>2, NameParts
<1>3. CASE n = Base(p)
  BY <1>3, NameParts
<1>4. CASE n = Stem(p)
  BY <1>4, NameParts
<1>5. CASE n = DirStem(p)
  BY <1>5, NameParts
<1>6. QED
  BY <1>1, <1>2, <1>3, <1>4, <1>5

\* The file is there, and the only one of its repository with its stem.
Sole(d, to) ==
    /\ to \in DOMAIN d /\ to.stem # ""
    /\ \A p \in DOMAIN d : p.repo = to.repo /\ p.stem = to.stem => p = to

\* A file with a stem of its own is found by every spelling of its name.
LEMMA SoleName ==
    ASSUME NEW d, NEW to, Sole(d, to), NEW n \in Spellings(to)
    PROVE  Matches(d, to.repo, n) = {to} /\ n # Local /\ n.stem = to.stem
<1> DEFINE files == {p \in DOMAIN d : p.repo = to.repo}
           exact == {p \in files : n = Full(p)}
           base  == {p \in files : n = Base(p)}
           stem  == {p \in files : ~Def(p) /\ n \in {Stem(p), DirStem(p)}}
           alias == {p \in files : Def(p) /\ n = Stem(p)}
<1>1. n.stem = to.stem /\ n.dir \in {"", to.dir} /\ n.ext \in {"", to.ext}
  BY SpellingParts
<1>2. /\ \A p : n = Full(p) => n.stem = p.stem
      /\ \A p : n = Base(p) => n.stem = p.stem
      /\ \A p : n = Stem(p) => n.stem = p.stem
      /\ \A p : n = DirStem(p) => n.stem = p.stem
  BY NameStems
<1>3. exact \subseteq {to} /\ base \subseteq {to} /\ stem \subseteq {to} /\ alias \subseteq {to}
  BY <1>1, <1>2 DEF Sole
<1>4. Matches(d, to.repo, n) =
        CASE n.dir # "" /\ exact # {} -> exact
          [] n.dir # "" /\ exact = {} -> stem
          [] n.dir = "" /\ base # {}  -> base
          [] n.dir = "" /\ base = {} /\ stem # {} -> stem
          [] OTHER -> alias
  BY DEF Matches
<1>5. to \in files
  BY DEF Sole
<1>6. CASE n = Full(to)
  <2>1. to \in exact
    BY <1>5, <1>6
  <2>2. n.dir = "" => to \in base
    BY <1>5, <1>6 DEF Full, Base
  <2>3. QED
    BY <1>3, <1>4, <1>1, <2>1, <2>2, NameParts DEF Sole
<1>7. CASE n = Base(to)
  <2>1. to \in base /\ n.dir = ""
    BY <1>5, <1>7, NameParts
  <2>2. QED
    BY <1>3, <1>4, <1>1, <2>1, NameParts DEF Sole
<1>8. CASE n = Stem(to)
  <2>1. n.dir = "" /\ (IF Def(to) THEN to \in alias ELSE to \in stem)
    BY <1>5, <1>8, NameParts
  <2>2. Def(to) => stem = {}
    BY <1>3
  <2>3. Matches(d, to.repo, n) = {to}
    <3> HIDE DEF exact, base, stem, alias, files
    <3>1. base = {} \/ base = {to}
      BY <1>3
    <3>2. stem = {} \/ stem = {to}
      BY <1>3
    <3>3. stem = {} => alias = {to}
      BY <1>3, <2>1
    <3>4. QED
      BY <1>4, <2>1, <3>1, <3>2, <3>3
  <2>4. QED
    BY <1>1, <2>3, NameParts DEF Sole
<1>9. CASE n = DirStem(to) /\ ~Def(to)
  <2>1. stem = {to}
    BY <1>3, <1>5, <1>9
  <2>2. exact \in {{}, {to}} /\ base \in {{}, {to}}
    BY <1>3
  <2>3. Matches(d, to.repo, n) = {to}
    <3> HIDE DEF exact, base, stem, alias, files
    <3>1. QED
      BY <1>4, <2>1, <2>2
  <2>4. QED
    BY <1>1, <2>3, NameParts DEF Sole
<1>10. QED
  BY <1>6, <1>7, <1>8, <1>9 DEF Spellings

\* A name keeps its file where no other file with the stem comes.
LEMMA NameKept ==
    ASSUME NEW d, NEW e, NEW repo, NEW n, NEW g, Matches(d, repo, n) = {g}, g \in DOMAIN e,
           \A p \in DOMAIN e \ DOMAIN d : p.repo = repo => p.stem # n.stem
    PROVE  Matches(e, repo, n) = {g}
<1> DEFINE Files(f) == {p \in DOMAIN f : p.repo = repo}
           Exact(f) == {p \in Files(f) : n = Full(p)}
           Based(f) == {p \in Files(f) : n = Base(p)}
           Stems(f) == {p \in Files(f) : ~Def(p) /\ n \in {Stem(p), DirStem(p)}}
           Alias(f) == {p \in Files(f) : Def(p) /\ n = Stem(p)}
<1>1. ASSUME NEW f
      PROVE  Matches(f, repo, n) =
               CASE n.dir # "" /\ Exact(f) # {} -> Exact(f)
                 [] n.dir # "" /\ Exact(f) = {} -> Stems(f)
                 [] n.dir = "" /\ Based(f) # {}  -> Based(f)
                 [] n.dir = "" /\ Based(f) = {} /\ Stems(f) # {} -> Stems(f)
                 [] OTHER -> Alias(f)
  BY DEF Matches
<1>2. /\ \A p : n = Full(p) => n.stem = p.stem
      /\ \A p : n = Base(p) => n.stem = p.stem
      /\ \A p : n = Stem(p) => n.stem = p.stem
      /\ \A p : n = DirStem(p) => n.stem = p.stem
  BY NameStems
<1>3. /\ Exact(e) = Exact(d) \cap DOMAIN e
      /\ Based(e) = Based(d) \cap DOMAIN e
      /\ Stems(e) = Stems(d) \cap DOMAIN e
      /\ Alias(e) = Alias(d) \cap DOMAIN e
  <2>1. \A p \in DOMAIN e : p.repo = repo /\ p.stem = n.stem => p \in DOMAIN d
    OBVIOUS
  <2>2. QED
    BY <1>2, <2>1
<1>4. g \in DOMAIN e
  OBVIOUS
<1> HIDE DEF Exact, Based, Stems, Alias
<1>5. CASE n.dir # "" /\ Exact(d) # {}
  <2>1. Exact(d) = {g}
    BY <1>1, <1>5
  <2>2. Exact(e) = {g}
    BY <1>3, <1>4, <2>1
  <2>3. QED
    BY <1>1, <1>5, <2>2
<1>6. CASE n.dir # "" /\ Exact(d) = {}
  <2>1. Stems(d) = {g}
    BY <1>1, <1>6
  <2>2. Exact(e) = {} /\ Stems(e) = {g}
    BY <1>3, <1>4, <1>6, <2>1
  <2>3. QED
    BY <1>1, <1>6, <2>2
<1>7. CASE n.dir = "" /\ Based(d) # {}
  <2>1. Based(d) = {g}
    BY <1>1, <1>7
  <2>2. Based(e) = {g}
    BY <1>3, <1>4, <2>1
  <2>3. QED
    BY <1>1, <1>7, <2>2
<1>8. CASE n.dir = "" /\ Based(d) = {} /\ Stems(d) # {}
  <2>1. Stems(d) = {g}
    BY <1>1, <1>8
  <2>2. Based(e) = {} /\ Stems(e) = {g}
    BY <1>3, <1>4, <1>8, <2>1
  <2>3. QED
    BY <1>1, <1>8, <2>2
<1>9. CASE n.dir = "" /\ Based(d) = {} /\ Stems(d) = {}
  <2>1. Alias(d) = {g}
    BY <1>1, <1>9
  <2>2. Based(e) = {} /\ Stems(e) = {} /\ Alias(e) = {g}
    BY <1>3, <1>4, <1>9, <2>1
  <2>3. QED
    BY <1>1, <1>9, <2>2
<1>10. QED
  BY <1>5, <1>6, <1>7, <1>8, <1>9

-----------------------------------------------------------------------------
(* Files in other words.                                                   *)

LEMMA RewriteShape ==
    ASSUME NEW c, Proper(c), NEW new
    PROVE  LET e == Rewrite(c, new)
           IN  /\ DOMAIN e = {"me", "body", "places"} /\ e.me = c.me /\ e.body = c.body
               /\ DOMAIN e.places = DOMAIN c.places
               /\ \A k \in DOMAIN c.places :
                     /\ DOMAIN e.places[k] = {"in", "slot", "holds"}
                     /\ e.places[k].in = c.places[k].in /\ e.places[k].slot = c.places[k].slot
                     /\ At(e, k) = IF k \in DOMAIN new THEN new[k] ELSE At(c, k)
                     /\ k \notin DOMAIN new => e.places[k] = c.places[k]
<1> DEFINE e == Rewrite(c, new)
<1>1. DOMAIN c = {"me", "body", "places"}
  BY DEF Proper
<1>2. \A k \in DOMAIN c.places : DOMAIN c.places[k] = {"in", "slot", "holds"}
  BY DEF Proper
<1>3. e = [c EXCEPT !.places = [k \in DOMAIN c.places |->
              IF k \in DOMAIN new THEN [c.places[k] EXCEPT !.holds = new[k]] ELSE c.places[k]]]
  BY DEF Rewrite
<1> HIDE DEF e
<1>4. /\ DOMAIN e = DOMAIN c /\ e.me = c.me /\ e.body = c.body
      /\ e.places = [k \in DOMAIN c.places |->
              IF k \in DOMAIN new THEN [c.places[k] EXCEPT !.holds = new[k]] ELSE c.places[k]]
  BY <1>1, <1>3
<1>5. ASSUME NEW k \in DOMAIN c.places
      PROVE  /\ DOMAIN e.places[k] = {"in", "slot", "holds"}
             /\ e.places[k].in = c.places[k].in /\ e.places[k].slot = c.places[k].slot
             /\ At(e, k) = IF k \in DOMAIN new THEN new[k] ELSE At(c, k)
             /\ k \notin DOMAIN new => e.places[k] = c.places[k]
  <2>1. CASE k \in DOMAIN new
    <3>1. e.places[k] = [c.places[k] EXCEPT !.holds = new[k]]
      BY <1>4, <2>1
    <3>2. QED
      BY <1>2, <2>1, <3>1 DEF At
  <2>2. CASE k \notin DOMAIN new
    <3>1. e.places[k] = c.places[k]
      BY <1>4, <2>2
    <3>2. QED
      BY <1>2, <2>2, <3>1 DEF At
  <2>3. QED
    BY <2>1, <2>2
<1>6. QED
  BY <1>1, <1>4, <1>5 DEF e

\* e is c with other links and claims in the same places.
Reworded(c, e) ==
    /\ Proper(e) /\ e.me = c.me /\ DOMAIN e.places = DOMAIN c.places
    /\ \A k \in DOMAIN c.places :
          /\ e.places[k].slot = c.places[k].slot
          /\ DOMAIN At(e, k) = DOMAIN At(c, k)
          /\ IsRecord(At(c, k)) => At(e, k) = At(c, k)

LEMMA RewriteReworded ==
    ASSUME NEW c, Proper(c), NEW new,
           \A k \in DOMAIN new \cap DOMAIN c.places :
              /\ ~IsRecord(At(c, k)) /\ DOMAIN new[k] = DOMAIN At(c, k)
              /\ IsLink(new[k]) /\ new[k].name = Local => new[k].repo = NoRepo
    PROVE  Reworded(c, Rewrite(c, new))
<1> DEFINE e == Rewrite(c, new)
<1>1. /\ DOMAIN e = {"me", "body", "places"} /\ e.me = c.me /\ e.body = c.body
      /\ DOMAIN e.places = DOMAIN c.places
      /\ \A k \in DOMAIN c.places :
            /\ DOMAIN e.places[k] = {"in", "slot", "holds"}
            /\ e.places[k].in = c.places[k].in /\ e.places[k].slot = c.places[k].slot
            /\ At(e, k) = IF k \in DOMAIN new THEN new[k] ELSE At(c, k)
            /\ k \notin DOMAIN new => e.places[k] = c.places[k]
  BY RewriteShape
<1> HIDE DEF e
<1>2. ASSUME NEW k \in DOMAIN c.places
      PROVE  /\ DOMAIN At(e, k) = DOMAIN At(c, k)
             /\ IsRecord(At(c, k)) => At(e, k) = At(c, k)
             /\ IsLink(At(e, k)) /\ At(e, k).name = Local => At(e, k).repo = NoRepo
  BY <1>1 DEF Proper
<1>3. \A k \in DOMAIN c.places : /\ IsRecord(At(e, k)) <=> IsRecord(At(c, k))
                                 /\ IsLink(At(e, k)) <=> IsLink(At(c, k))
  BY <1>2 DEF IsRecord, IsLink
<1>4. Records(e) = Records(c)
  BY <1>1, <1>3 DEF Records
<1>5. \A k \in Records(c) : At(e, k) = At(c, k) /\ k \in DOMAIN c.places
  BY <1>2 DEF Records
<1>6. Entities(e) = Entities(c)
  BY <1>1, <1>4, <1>5 DEF Entities
<1>7. ASSUME NEW k \in DOMAIN c.places, k[1] = "e"
      PROVE  Jot(k, e.places[k]) /\ k[2] \in Entities(e)
  <2>1. Jot(k, c.places[k]) /\ k[2] \in Entities(c)
    BY <1>7 DEF Proper
  <2>2. QED
    BY <1>1, <1>3, <1>6, <2>1 DEF Jot, At
<1>8. \A k \in Records(e) :
          /\ At(e, k).me # e.me
          /\ e.places[k].slot = "prose" => e.body /\ e.places[k].in = e.me
          /\ \A j \in Records(e) \ {k} :
                At(e, j).me # At(e, k).me /\ (At(e, j).id = NoId \/ At(e, j).id # At(e, k).id)
  BY <1>1, <1>4, <1>5 DEF Proper
<1>9. \A k \in DOMAIN e.places : DOMAIN At(e, k) \in {RecordFields, LinkFields, ClaimFields}
  BY <1>1, <1>2 DEF Proper
<1>10. Proper(e)
  BY <1>1, <1>2, <1>7, <1>8, <1>9 DEF Proper
<1>11. QED
  BY <1>1, <1>2, <1>10 DEF Reworded, e

LEMMA RewordedItself ==
    ASSUME NEW c, Proper(c)
    PROVE  Reworded(c, c)
  BY DEF Reworded

LEMMA RewordedKinds ==
    ASSUME NEW c, NEW e, Proper(c), Reworded(c, e)
    PROVE  /\ Records(e) = Records(c) /\ Entities(e) = Entities(c)
           /\ \A k \in Records(c) : At(e, k) = At(c, k)
           /\ \A k \in DOMAIN c.places : /\ IsRecord(At(e, k)) <=> IsRecord(At(c, k))
                                         /\ IsLink(At(e, k)) <=> IsLink(At(c, k))
                                         /\ IsClaim(At(e, k)) <=> IsClaim(At(c, k))
<1>1. \A k \in DOMAIN c.places : /\ IsRecord(At(e, k)) <=> IsRecord(At(c, k))
                                 /\ IsLink(At(e, k)) <=> IsLink(At(c, k))
                                 /\ IsClaim(At(e, k)) <=> IsClaim(At(c, k))
  BY DEF Reworded, IsRecord, IsLink, IsClaim
<1>2. Records(e) = Records(c)
  BY <1>1 DEF Records, Reworded
<1>3. \A k \in Records(c) : At(e, k) = At(c, k)
  BY DEF Records, Reworded
<1>4. Entities(e) = Entities(c)
  BY <1>2, <1>3 DEF Entities, Reworded
<1>5. QED
  BY <1>1, <1>2, <1>3, <1>4

-----------------------------------------------------------------------------
(* What becomes of the files.                                              *)

\* The write w, where it can be made.
Wrote(d, w) ==
    CASE w.op = "put"    -> Over(Only(w.to, w.file), d)
      [] w.op = "move"   -> IF w.from \in DOMAIN d /\ w.to \notin DOMAIN d
                            THEN [p \in (DOMAIN d \ {w.from}) \cup {w.to} |->
                                     IF p = w.to THEN d[w.from] ELSE d[p]]
                            ELSE d
      [] w.op = "remove" -> Restrict(d, DOMAIN d \ {w.from})
Ending(d, last) ==
    IF last = <<>> THEN d
    ELSE IF Len(last) = 1 THEN Wrote(d, last[1]) ELSE Wrote(Wrote(d, last[1]), last[2])
\* The referrers ps rewritten.
Amended(d, ps, j) == [p \in DOMAIN d |-> IF p \in ps THEN j.rewrite[p] ELSE d[p]]
\* All that a verb writes, written.
Result(d, j) == Ending(Amended(d, DOMAIN j.rewrite, j), j.last)

LEMMA EndingCases ==
    ASSUME NEW d
    PROVE  /\ Ending(d, <<>>) = d
           /\ \A w : Ending(d, <<w>>) = Wrote(d, w)
           /\ \A v, w : Ending(d, <<v, w>>) = Wrote(Wrote(d, v), w)
  BY DEF Ending

\* Everything a plan moves can be moved.
Movable(kb, j) == \A i \in DOMAIN j.last :
    LET w == j.last[i] IN w.op = "move" => w.from \in DOMAIN kb /\ w.to \notin DOMAIN kb

\* Where a place of p may be found afterwards: where p is moved to, in a file
\* that is put, or in p.
Bequeaths(w, p, q) ==
    \/ w.op = "put" /\ w.to = q
    \/ w.op = "move" /\ w.from = p /\ w.to = q
Heir(j, p, q) == q = p \/ \E i \in DOMAIN j.last : Bequeaths(j.last[i], p, q)

-----------------------------------------------------------------------------
(* A file that gets another name.                                          *)

Moved(p, from, to) == IF p = from THEN to ELSE p
ClaimsType(p, x, def) == Def(def) /\ x.type = def.stem /\ Home(p, x) = def.repo

\* F is d with `from` moved to `to` and its name changed in links and claims.
Relabelled(d, F, from, to) ==
    /\ DOMAIN F = (DOMAIN d \ {from}) \cup {to}
    /\ \A p \in DOMAIN d :
          LET q == Moved(p, from, to)
          IN  /\ Reworded(d[p], F[q])
              /\ \A k \in DOMAIN d[p].places :
                    LET x == At(d[p], k)
                        y == At(F[q], k)
                    IN  /\ IsLink(x) =>
                              /\ y.repo = x.repo /\ y.id = x.id /\ y.ref = x.ref /\ y.pin = x.pin
                              /\ y.name = IF from \in Found(d, p, x)
                                          THEN RewrittenTarget(x.name, from, to) ELSE x.name
                        /\ IsClaim(x) =>
                              /\ y.repo = x.repo
                              /\ y.type = IF ClaimsType(p, x, from) THEN to.stem ELSE x.type

\* What a move needs of the new name.
Renames(d, from, to) ==
    /\ from \in DOMAIN d /\ to \notin DOMAIN d
    /\ to.repo = from.repo /\ (Def(to) <=> Def(from)) /\ Path(to)
    /\ Def(from) => \A p \in DOMAIN d : Def(p) /\ p.repo = from.repo => p.stem # to.stem

LEMMA RewrittenSpelling ==
    ASSUME NEW n, NEW from, NEW to, Def(to) <=> Def(from)
    PROVE  RewrittenTarget(n, from, to) \in Spellings(to)
  BY DEF RewrittenTarget, Spellings

LEMMA HomeKept ==
    ASSUME NEW p, NEW q, NEW x, NEW y, q.repo = p.repo, y.repo = x.repo
    PROVE  Home(q, y) = Home(p, x)
  BY DEF Home

\* A link that leads to a file lies in its repository or names it.
LEMMA FoundHome ==
    ASSUME NEW d, AllProper(d), NEW p \in DOMAIN d, NEW k \in DOMAIN d[p].places,
           IsLink(At(d[p], k)), NEW g, Found(d, p, At(d[p], k)) = {g}
    PROVE  /\ Home(p, At(d[p], k)) = g.repo /\ ~At(d[p], k).pin /\ g \in DOMAIN d
           /\ At(d[p], k).name = Local => g = p
           /\ At(d[p], k).name # Local =>
                 /\ Matches(d, Home(p, At(d[p], k)), At(d[p], k).name) = {g}
                 /\ At(d[p], k).name.stem = g.stem
<1> DEFINE x == At(d[p], k)
<1>1. /\ ~x.pin
      /\ x.name = Local => g = p
      /\ x.name # Local => Matches(d, Home(p, x), x.name) = {g}
  BY FoundOne
<1>2. CASE x.name = Local
  <2>1. x.repo = NoRepo
    BY <1>2 DEF AllProper, Proper
  <2>2. QED
    BY <1>1, <1>2, <2>1 DEF Home
<1>3. CASE x.name # Local
  <2>1. g \in Matches(d, Home(p, x), x.name)
    BY <1>1, <1>3
  <2>2. QED
    BY <1>1, <1>3, <2>1, MatchesBear
<1>4. QED
  BY <1>2, <1>3

LEMMA FindsSole ==
    ASSUME NEW d, NEW q, NEW y, NEW to, Sole(d, to), y.name \in Spellings(to), Home(q, y) = to.repo, ~y.pin
    PROVE  Found(d, q, y) = {to}
<1> DEFINE n == y.name
<1>1. n \in Spellings(to)
  OBVIOUS
<1> HIDE DEF n
<1>2. Matches(d, to.repo, n) = {to} /\ n # Local
  BY <1>1, SoleName
<1>3. QED
  BY <1>2 DEF Found, n

LEMMA FindsKept ==
    ASSUME NEW d, NEW p, NEW x, NEW g, x.name # Local, ~x.pin,
           Matches(d, Home(p, x), x.name) = {g},
           NEW e, NEW q, NEW y, y.name = x.name, ~y.pin, Home(q, y) = Home(p, x),
           g \in DOMAIN e,
           \A f \in DOMAIN e \ DOMAIN d : f.repo = Home(p, x) => f.stem # x.name.stem
    PROVE  Found(e, q, y) = {g}
<1>1. Matches(e, Home(q, y), y.name) = {g}
  BY NameKept
<1>2. QED
  BY <1>1 DEF Found

LEMMA RelabelledDistinct ==
    ASSUME NEW d, AllProper(d), Distinct(d), NEW F, NEW from, NEW to,
           Renames(d, from, to), Relabelled(d, F, from, to)
    PROVE  Distinct(F) /\ AllProper(F)
<1>1. ASSUME NEW q \in DOMAIN F
      PROVE  \E p \in DOMAIN d : q = Moved(p, from, to)
  BY DEF Relabelled, Renames, Moved
<1>2. ASSUME NEW p \in DOMAIN d
      PROVE  LET q == Moved(p, from, to)
             IN  /\ Entities(F[q]) = Entities(d[p]) /\ DOMAIN F[q].places = DOMAIN d[p].places
                 /\ Proper(F[q])
  <2>1. Reworded(d[p], F[Moved(p, from, to)]) /\ Proper(d[p])
    BY DEF Relabelled, AllProper
  <2>2. QED
    BY <2>1, RewordedKinds DEF Reworded
<1>3. ASSUME NEW q \in DOMAIN F
      PROVE  Path(q)
  BY DEF Relabelled, Renames, Distinct
<1>4. ASSUME NEW q \in DOMAIN F, NEW r \in DOMAIN F \ {q}
      PROVE  /\ Entities(F[q]) \cap Entities(F[r]) = {}
             /\ {k \in DOMAIN F[q].places : k[1] # "e"} \cap DOMAIN F[r].places = {}
             /\ ~(Def(q) /\ Def(r) /\ q.repo = r.repo /\ q.stem = r.stem)
  <2>1. PICK p \in DOMAIN d : q = Moved(p, from, to)
    BY <1>1
  <2>2. PICK s \in DOMAIN d : r = Moved(s, from, to)
    BY <1>1
  <2>3. p # s
    BY <1>4, <2>1, <2>2
  <2>4. /\ Entities(d[p]) \cap Entities(d[s]) = {}
        /\ {k \in DOMAIN d[p].places : k[1] # "e"} \cap DOMAIN d[s].places = {}
        /\ ~(Def(p) /\ Def(s) /\ p.repo = s.repo /\ p.stem = s.stem)
    BY <2>3 DEF Distinct
  <2>5. ~(Def(q) /\ Def(r) /\ q.repo = r.repo /\ q.stem = r.stem)
    BY <2>1, <2>2, <2>3, <2>4 DEF Moved, Renames
  <2>6. QED
    BY <1>2, <2>1, <2>2, <2>4, <2>5
<1>5. AllProper(F)
  BY <1>1, <1>2 DEF AllProper
<1>6. QED
  BY <1>3, <1>4, <1>5 DEF Distinct

\* Every reference leads where it led.
LEMMA RelabelledLinks ==
    ASSUME NEW d, AllProper(d), Distinct(d), NEW F, NEW from, NEW to,
           Renames(d, from, to), Relabelled(d, F, from, to),
           NEW p \in DOMAIN d, NEW k \in DOMAIN d[p].places, Reach(d, p, k) # {},
           IsLink(At(d[p], k))
    PROVE  LET q == Moved(p, from, to)
           IN  Reach(F, q, k) = Reach(d, p, k) \/ Bears(d, F, to, At(F[q], k))
<1> DEFINE q == Moved(p, from, to)
           x == At(d[p], k)
           y == At(F[q], k)
<1>1. PICK g : Found(d, p, x) = {g} /\ g \in DOMAIN d
  BY Landing
<1>2. /\ Home(p, x) = g.repo /\ ~x.pin
      /\ x.name = Local => g = p
      /\ x.name # Local => Matches(d, Home(p, x), x.name) = {g} /\ x.name.stem = g.stem
  BY <1>1, FoundHome
<1>3. /\ Reworded(d[p], F[q])
      /\ y.repo = x.repo /\ y.id = x.id /\ y.ref = x.ref /\ y.pin = x.pin
      /\ y.name = IF from \in Found(d, p, x)
                  THEN RewrittenTarget(x.name, from, to) ELSE x.name
  BY DEF Relabelled
<1>4. q.repo = p.repo /\ Home(q, y) = Home(p, x)
  BY <1>3, HomeKept DEF Moved, Renames
<1>5. DOMAIN F = (DOMAIN d \ {from}) \cup {to}
  BY DEF Relabelled
<1> DEFINE h == Moved(g, from, to)
<1>6. h \in DOMAIN F /\ Reworded(d[g], F[h]) /\ Proper(d[g]) /\ Proper(d[p])
  BY <1>1, <1>5 DEF Relabelled, Moved, AllProper
<1>7. /\ Proper(F[h]) /\ F[h].me = d[g].me
      /\ Records(F[h]) = Records(d[g]) /\ \A j \in Records(d[g]) : At(F[h], j) = At(d[g], j)
  BY <1>6, RewordedKinds DEF Reworded
<1>8. IsLink(y) /\ ~IsRecord(y) /\ ~IsClaim(y)
  BY <1>3, <1>6, PlaceKinds, RewordedKinds
<1>9. Passing(F[q], k) <=> Passing(d[p], k)
  BY <1>3, <1>8 DEF Passing, Reworded
<1>10. ASSUME Found(F, q, y) = {h}
       PROVE  Reach(F, q, k) = Reach(d, p, k)
  <2> HIDE DEF q, h
  <2>1. QED
    BY <1>1, <1>3, <1>6, <1>7, <1>8, <1>9, <1>10, SameLanding
<1>11. CASE g = from
  <2>1. y.name \in Spellings(to) /\ h = to /\ Home(q, y) = to.repo /\ ~y.pin
    BY <1>1, <1>2, <1>3, <1>4, <1>11, RewrittenSpelling DEF Moved, Renames
  <2>2. y.name.stem = to.stem
    BY <2>1, SpellingParts
  <2>3. CASE \E f \in DOMAIN d : f.repo = to.repo /\ f.stem = to.stem /\ f # from
    BY <1>5, <2>2, <2>3 DEF Bears, Renames
  <2>4. CASE \A f \in DOMAIN d : f.repo = to.repo /\ f.stem = to.stem => f = from
    <3>1. Sole(F, to)
      BY <1>5, <2>4 DEF Renames, Path, Sole
    <3> HIDE DEF q, y
    <3>3. Found(F, q, y) = {to}
      BY <2>1, <3>1, FindsSole
    <3>4. QED
      BY <1>10, <2>1, <3>3 DEF y, q
  <2>5. QED
    BY <2>3, <2>4
<1>12. CASE g # from /\ x.name = Local
  <2>1. g = p /\ q = p /\ h = p /\ y.name = Local /\ ~y.pin
    BY <1>1, <1>2, <1>3, <1>12 DEF Moved
  <2>2. Found(F, q, y) = {h}
    BY <2>1 DEF Found
  <2>3. QED
    BY <1>10, <2>2
<1>13. CASE g # from /\ x.name # Local
  <2>1. /\ y.name = x.name /\ h = g /\ ~y.pin /\ g \in DOMAIN F
    BY <1>1, <1>2, <1>3, <1>5, <1>13 DEF Moved
  <2>2. CASE to.repo = Home(p, x) /\ to.stem = x.name.stem
    <3>1. g # to /\ g.repo = to.repo /\ g.stem = to.stem /\ y.name.stem = g.stem
      BY <1>1, <1>2, <1>13, <2>1, <2>2 DEF Renames
    <3>2. QED
      BY <1>1, <2>1, <3>1 DEF Bears
  <2>3. CASE ~(to.repo = Home(p, x) /\ to.stem = x.name.stem)
    <3>1. \A f \in DOMAIN F \ DOMAIN d : f.repo = Home(p, x) => f.stem # x.name.stem
      BY <1>5, <2>3
    <3> HIDE DEF q, x, y, h
    <3>2. Found(F, q, y) = {g}
      BY <1>2, <1>4, <1>13, <2>1, <3>1, FindsKept
    <3>3. QED
      BY <1>10, <2>1, <3>2 DEF q, x, y
  <2>4. QED
    BY <2>2, <2>3
<1>14. QED
  BY <1>11, <1>12, <1>13

LEMMA RelabelledClaims ==
    ASSUME NEW d, AllProper(d), Distinct(d), NEW F, NEW from, NEW to,
           Renames(d, from, to), Relabelled(d, F, from, to),
           NEW p \in DOMAIN d, NEW k \in DOMAIN d[p].places, Reach(d, p, k) # {},
           IsClaim(At(d[p], k))
    PROVE  Reach(F, Moved(p, from, to), k) = Reach(d, p, k)
<1> DEFINE q == Moved(p, from, to)
           x == At(d[p], k)
           y == At(F[q], k)
<1>1. /\ Reworded(d[p], F[q]) /\ Proper(d[p])
      /\ y.repo = x.repo
      /\ y.type = IF ClaimsType(p, x, from) THEN to.stem ELSE x.type
  BY DEF Relabelled, AllProper
<1>2. Home(q, y) = Home(p, x)
  BY <1>1, HomeKept DEF Moved, Renames
<1>3. /\ IsClaim(x) /\ ~IsLink(x) /\ ~IsRecord(x) /\ IsClaim(y) /\ ~IsLink(y) /\ ~IsRecord(y)
  BY <1>1, PlaceKinds, RewordedKinds
<1>4. DOMAIN F = (DOMAIN d \ {from}) \cup {to}
  BY DEF Relabelled
<1>5. \A f \in DOMAIN d : F[Moved(f, from, to)].me = d[f].me
  BY DEF Relabelled, Reworded
<1>6. Reach(d, p, k) = {d[f].me : f \in Claimed(d, p, x)}
  BY <1>3, ClaimReach
<1>7. Reach(F, q, k) = {F[f].me : f \in Claimed(F, q, y)}
  <2> HIDE DEF q
  <2>1. QED
    BY <1>3, ClaimReach
<1>8. PICK c \in DOMAIN d : Def(c) /\ c.repo = Home(p, x) /\ c.stem = x.type
  BY <1>6 DEF Claimed
<1>9. CASE ClaimsType(p, x, from)
  <2>1. Claimed(d, p, x) = {from}
    BY <1>9 DEF ClaimsType, Claimed, Distinct, Renames
  <2>2. Claimed(F, q, y) = {to}
    BY <1>1, <1>2, <1>4, <1>9 DEF ClaimsType, Claimed, Renames
  <2>3. F[to].me = d[from].me
    BY <1>5 DEF Moved, Renames
  <2>4. QED
    BY <1>6, <1>7, <2>1, <2>2, <2>3
<1>10. CASE ~ClaimsType(p, x, from)
  <2>1. y.type = x.type
    BY <1>1, <1>10
  <2>2. from \notin Claimed(d, p, x)
    BY <1>10 DEF ClaimsType, Claimed
  <2>3. to \notin Claimed(F, q, y)
    BY <1>2, <1>8, <2>1 DEF Claimed, Renames
  <2>4. Claimed(F, q, y) = Claimed(d, p, x)
    BY <1>2, <1>4, <2>1, <2>2, <2>3 DEF Claimed, Renames
  <2>5. \A f \in Claimed(d, p, x) : F[f].me = d[f].me
    BY <1>5, <2>2 DEF Claimed, Moved
  <2>6. QED
    BY <1>6, <1>7, <2>4, <2>5
<1>11. QED
  BY <1>9, <1>10

LEMMA RelabelledFollows ==
    ASSUME NEW d, AllProper(d), Distinct(d), NEW F, NEW from, NEW to,
           Renames(d, from, to), Relabelled(d, F, from, to),
           NEW p \in DOMAIN d, NEW k \in DOMAIN d[p].places, Reach(d, p, k) # {}
    PROVE  LET q == Moved(p, from, to)
           IN  /\ q \in DOMAIN F /\ k \in DOMAIN F[q].places
               /\ \/ Reach(F, q, k) = Reach(d, p, k)
                  \/ IsLink(At(F[q], k)) /\ Bears(d, F, to, At(F[q], k))
<1> DEFINE q == Moved(p, from, to)
<1>1. Proper(d[p]) /\ Reworded(d[p], F[q]) /\ q \in DOMAIN F
  BY DEF Relabelled, AllProper, Moved
<1>2. /\ k \in DOMAIN F[q].places
      /\ IsLink(At(d[p], k)) => IsLink(At(F[q], k))
      /\ IsRecord(At(d[p], k)) => At(F[q], k) = At(d[p], k)
  BY <1>1, RewordedKinds DEF Reworded
<1>3. CASE IsRecord(At(d[p], k))
  BY <1>1, <1>2, <1>3, RecordReach
<1>4. CASE IsLink(At(d[p], k))
  BY <1>1, <1>2, <1>4, RelabelledLinks
<1>5. CASE IsClaim(At(d[p], k))
  BY <1>1, <1>2, <1>5, RelabelledClaims
<1>6. QED
  BY <1>1, <1>3, <1>4, <1>5, PlaceKinds

\* In each of the files that may be excused is a reference that is not pinned.
Loose(kb, spans) ==
    \A p \in DOMAIN spans :
        /\ p \in DOMAIN kb
        /\ \E k \in spans[p] \cap DOMAIN kb[p].places : ~(IsLink(At(kb[p], k)) /\ At(kb[p], k).pin)

\* What a plan writes is proper; a file it may excuse has a reference to rewrite.
Sensible(kb, j) ==
    /\ \A p \in DOMAIN j.rewrite : p \in DOMAIN kb /\ Reworded(kb[p], j.rewrite[p])
    /\ Loose(kb, j.spans)
    /\ \A i \in DOMAIN j.last : j.last[i].op = "put" => Proper(j.last[i].file)

LEMMA BacklinkKeys ==
    ASSUME NEW d, NEW f
    PROVE  /\ \A p \in DOMAIN d : KeysIn(Backlinks(d, f), p) = Links(d, p, f)
           /\ \A p \in Sources(Backlinks(d, f)) : p \in DOMAIN d /\ Links(d, p, f) # {}
           /\ \A p \in DOMAIN d : p \notin Sources(Backlinks(d, f)) => Links(d, p, f) = {}
<1> DEFINE bls == Backlinks(d, f)
<1>1. ASSUME NEW p \in DOMAIN d, NEW k \in Links(d, p, f)
      PROVE  <<p, k>> \in bls
  BY DEF Backlinks
<1>2. ASSUME NEW b \in bls
      PROVE  b[1] \in DOMAIN d /\ b[2] \in Links(d, b[1], f)
  BY DEF Backlinks
<1> HIDE DEF bls
<1>3. ASSUME NEW p \in DOMAIN d
      PROVE  KeysIn(bls, p) = Links(d, p, f)
  <2>1. KeysIn(bls, p) \subseteq Links(d, p, f)
    BY <1>2 DEF KeysIn
  <2>2. ASSUME NEW k \in Links(d, p, f)
        PROVE  k \in KeysIn(bls, p)
    <3>1. <<p, k>> \in bls /\ <<p, k>>[1] = p /\ <<p, k>>[2] = k
      BY <1>1
    <3>2. QED
      BY <3>1 DEF KeysIn
  <2>3. QED
    BY <2>1, <2>2
<1>4. \A p \in Sources(bls) : p \in DOMAIN d /\ Links(d, p, f) # {}
  BY <1>2 DEF Sources
<1>5. ASSUME NEW p \in DOMAIN d, p \notin Sources(bls)
      PROVE  Links(d, p, f) = {}
  <2> SUFFICES ASSUME NEW k \in Links(d, p, f) PROVE FALSE
    OBVIOUS
  <2>1. <<p, k>> \in bls /\ <<p, k>>[1] = p
    BY <1>1
  <2>2. QED
    BY <1>5, <2>1 DEF Sources
<1>6. QED
  BY <1>3, <1>4, <1>5 DEF bls

LEMMA LinksPart ==
    ASSUME NEW d, NEW p, NEW f, NEW k \in Links(d, p, f)
    PROVE  /\ k \in DOMAIN d[p].places /\ IsLink(At(d[p], k)) /\ f \in Found(d, p, At(d[p], k))
           /\ ~At(d[p], k).pin
  BY DEF Links, Found

\* A reference found is not pinned.
LEMMA SpansLoose ==
    ASSUME NEW d, NEW f, NEW bls \in SUBSET Backlinks(d, f)
    PROVE  Loose(d, Spans(bls))
<1> SUFFICES ASSUME NEW p \in Sources(bls)
             PROVE  /\ p \in DOMAIN d
                    /\ \E k \in KeysIn(bls, p) \cap DOMAIN d[p].places :
                          ~(IsLink(At(d[p], k)) /\ At(d[p], k).pin)
  BY DEF Loose, Spans
<1>1. PICK b \in bls : b[1] = p
  BY DEF Sources
<1>2. b[2] \in KeysIn(bls, p)
  BY <1>1 DEF KeysIn
<1>3. QED
  BY <1>1, <1>2, FoundLinks

OneMove(j, from, to) == j.last = <<Move(from, to)>>
LEMMA MoveResult ==
    ASSUME NEW d, NEW j, NEW from, NEW to, OneMove(j, from, to), Movable(d, j)
    PROVE  LET F == Result(d, j)
               A == Amended(d, DOMAIN j.rewrite, j)
           IN  /\ from \in DOMAIN d /\ to \notin DOMAIN d
               /\ DOMAIN F = (DOMAIN d \ {from}) \cup {to}
               /\ \A p \in DOMAIN d : F[Moved(p, from, to)] = A[p]
<1> DEFINE F == Result(d, j)
           A == Amended(d, DOMAIN j.rewrite, j)
           w == Move(from, to)
<1>0. j.last = <<w>>
  BY DEF OneMove
<1>1. w.op = "move" /\ w.from = from /\ w.to = to
  BY DEF Move
<1>2. from \in DOMAIN d /\ to \notin DOMAIN d
  <2>1. 1 \in DOMAIN j.last /\ j.last[1] = w
    BY <1>0
  <2>2. QED
    BY <1>1, <2>1 DEF Movable
<1>3. DOMAIN A = DOMAIN d
  BY DEF Amended
<1> HIDE DEF A, w
<1>4. F = Wrote(A, w)
  <2>1. \A v : Ending(A, <<v>>) = Wrote(A, v)
    BY EndingCases
  <2>2. QED
    BY <1>0, <2>1 DEF Result, A
<1>5. F = [p \in (DOMAIN d \ {from}) \cup {to} |-> IF p = to THEN A[from] ELSE A[p]]
  BY <1>1, <1>2, <1>3, <1>4 DEF Wrote
<1>6. QED
  BY <1>2, <1>5 DEF Moved, A

\* A link renamed differs in its name.
LEMMA RenamedParts ==
    ASSUME NEW d, AllProper(d), NEW bls, NEW p \in DOMAIN d, NEW from, NEW to,
           NEW k \in KeysIn(bls, p), k \in DOMAIN d[p].places, IsLink(At(d[p], k))
    PROVE  LET x == At(d[p], k)
               y == RenamedLinks(d, bls, p, from, to)[k]
           IN  /\ DOMAIN y = DOMAIN x /\ y.name = RewrittenTarget(x.name, from, to)
               /\ y.repo = x.repo /\ y.id = x.id /\ y.ref = x.ref /\ y.pin = x.pin
<1> DEFINE x == At(d[p], k)
           y == RenamedLinks(d, bls, p, from, to)[k]
<1>1. y = [x EXCEPT !.name = RewrittenTarget(x.name, from, to)]
  BY DEF RenamedLinks
<1>2. DOMAIN x = {"name", "repo", "id", "ref", "head", "pin"}
  BY PlaceKinds DEF AllProper
<1> HIDE DEF x, y
<1>3. QED
  BY <1>1, <1>2 DEF x, y

LEMMA SpellingIsNoLocal ==
    ASSUME NEW p, Path(p), NEW n \in Spellings(p)
    PROVE  n # Local
  BY SpellingParts, NameParts DEF Path

\* What both renames write.
LEMMA RelabelResult ==
    ASSUME NEW d, AllProper(d), Distinct(d), NEW j, NEW from, NEW to,
           OneMove(j, from, to), Movable(d, j),
           Def(to) <=> Def(from), Path(to), to.repo = from.repo,
           Def(from) => \A p \in DOMAIN d : Def(p) /\ p.repo = from.repo => p.stem # to.stem,
           \A p \in DOMAIN j.rewrite : p \in DOMAIN d /\ Reworded(d[p], j.rewrite[p]),
           \A p \in DOMAIN j.rewrite : \A k \in DOMAIN d[p].places :
              LET x == At(d[p], k)
                  y == At(j.rewrite[p], k)
              IN  /\ IsLink(x) =>
                        /\ y.repo = x.repo /\ y.id = x.id /\ y.ref = x.ref /\ y.pin = x.pin
                        /\ y.name = IF from \in Found(d, p, x)
                                    THEN RewrittenTarget(x.name, from, to) ELSE x.name
                  /\ IsClaim(x) =>
                        /\ y.repo = x.repo
                        /\ y.type = IF ClaimsType(p, x, from) THEN to.stem ELSE x.type,
           \A p \in DOMAIN d \ DOMAIN j.rewrite : \A k \in DOMAIN d[p].places :
              LET x == At(d[p], k)
              IN  /\ IsLink(x) => from \notin Found(d, p, x)
                  /\ IsClaim(x) => ~ClaimsType(p, x, from)
    PROVE  Renames(d, from, to) /\ Relabelled(d, Result(d, j), from, to)
<1> DEFINE F == Result(d, j)
           A == Amended(d, DOMAIN j.rewrite, j)
<1>1. /\ from \in DOMAIN d /\ to \notin DOMAIN d
      /\ DOMAIN F = (DOMAIN d \ {from}) \cup {to}
      /\ \A p \in DOMAIN d : F[Moved(p, from, to)] = A[p]
  BY MoveResult
<1>2. \A p \in DOMAIN d : A[p] = IF p \in DOMAIN j.rewrite THEN j.rewrite[p] ELSE d[p]
  BY DEF Amended
<1> HIDE DEF F, A
<1>3. ASSUME NEW p \in DOMAIN d
      PROVE  /\ Reworded(d[p], A[p])
             /\ \A k \in DOMAIN d[p].places :
                  LET x == At(d[p], k)
                      y == At(A[p], k)
                  IN  /\ IsLink(x) =>
                            /\ y.repo = x.repo /\ y.id = x.id /\ y.ref = x.ref /\ y.pin = x.pin
                            /\ y.name = IF from \in Found(d, p, x)
                                        THEN RewrittenTarget(x.name, from, to) ELSE x.name
                      /\ IsClaim(x) =>
                            /\ y.repo = x.repo
                            /\ y.type = IF ClaimsType(p, x, from) THEN to.stem ELSE x.type
  <2>1. CASE p \in DOMAIN j.rewrite
    <3>1. A[p] = j.rewrite[p]
      BY <1>2, <2>1
    <3>2. QED
      BY <2>1, <3>1
  <2>2. CASE p \notin DOMAIN j.rewrite
    <3>1. A[p] = d[p]
      BY <1>2, <2>2
    <3>2. QED
      BY <2>2, <3>1, RewordedItself DEF AllProper
  <2>3. QED
    BY <2>1, <2>2
<1>4. Relabelled(d, F, from, to)
  BY <1>1, <1>3 DEF Relabelled
<1>5. QED
  BY <1>1, <1>4 DEF Renames, F

LEMMA RenameFollows ==
    ASSUME NEW d, AllProper(d), Distinct(d), NEW from, NEW to, Path(to),
           Rename(d, from, to) # Refused
    PROVE  LET j == Rename(d, from, to)
           IN  /\ Sensible(d, j) /\ OneMove(j, from, to)
               /\ Movable(d, j) => Renames(d, from, to) /\ Relabelled(d, Result(d, j), from, to)
<1> DEFINE j == Rename(d, from, to)
           bls == Backlinks(d, from)
           new(p) == RenamedLinks(d, bls, p, from, to)
<1>1. ~Def(from) /\ ~Def(to) /\ to.repo = from.repo
  BY DEF Rename
<1>2. j = Job({}, {}, [p \in Sources(bls) |-> Rewrite(d[p], new(p))],
              Spans(bls), <<Move(from, to)>>, {from, to})
  BY DEF Rename
<1>3. /\ j.last = <<Move(from, to)>> /\ DOMAIN j.rewrite = Sources(bls)
      /\ j.spans = Spans(bls) /\ \A p \in Sources(bls) : j.rewrite[p] = Rewrite(d[p], new(p))
  BY <1>2 DEF Job
<1>4. \A p \in DOMAIN d : DOMAIN new(p) = Links(d, p, from)
  BY BacklinkKeys DEF RenamedLinks
<1>5. \A p \in Sources(bls) : p \in DOMAIN d /\ Links(d, p, from) # {}
  BY BacklinkKeys
<1>6. \A p \in DOMAIN d \ Sources(bls) : Links(d, p, from) = {}
  BY BacklinkKeys
<1>7. ASSUME NEW p \in DOMAIN d, NEW k \in Links(d, p, from)
      PROVE  LET x == At(d[p], k)
                 y == new(p)[k]
             IN  /\ DOMAIN y = DOMAIN x /\ y.name = RewrittenTarget(x.name, from, to)
                 /\ y.repo = x.repo /\ y.id = x.id /\ y.ref = x.ref /\ y.pin = x.pin
                 /\ y.name # Local
  <2>1. k \in KeysIn(bls, p) /\ k \in DOMAIN d[p].places /\ IsLink(At(d[p], k))
    BY BacklinkKeys, LinksPart
  <2>2. RewrittenTarget(At(d[p], k).name, from, to) # Local
    BY <1>1, RewrittenSpelling, SpellingIsNoLocal
  <2>3. QED
    BY <2>1, <2>2, RenamedParts
<1> HIDE DEF j, new, bls
<1>8. ASSUME NEW p \in Sources(bls)
      PROVE  Reworded(d[p], j.rewrite[p])
  <2>1. p \in DOMAIN d /\ Proper(d[p])
    BY <1>5 DEF AllProper
  <2>2. \A k \in Links(d, p, from) : ~IsRecord(At(d[p], k))
    BY <2>1, LinksPart, PlaceKinds
  <2>3. Reworded(d[p], Rewrite(d[p], new(p)))
    BY <1>4, <1>7, <2>1, <2>2, RewriteReworded
  <2>4. QED
    BY <1>3, <2>3
<1>9. ASSUME NEW p \in Sources(bls), NEW k \in DOMAIN d[p].places
      PROVE  At(j.rewrite[p], k) = IF k \in Links(d, p, from) THEN new(p)[k] ELSE At(d[p], k)
  BY <1>3, <1>4, <1>5, RewriteShape DEF AllProper
<1>10. ASSUME NEW p \in DOMAIN d, NEW k \in DOMAIN d[p].places, IsLink(At(d[p], k))
       PROVE  k \in Links(d, p, from) <=> from \in Found(d, p, At(d[p], k))
  BY <1>10 DEF Links
<1>11. ASSUME NEW p, NEW k, IsClaim(At(d[p], k)), p \in DOMAIN d, k \in DOMAIN d[p].places
       PROVE  k \notin Links(d, p, from) /\ ~ClaimsType(p, At(d[p], k), from)
  BY <1>1, <1>11, LinksPart, PlaceKinds DEF ClaimsType, AllProper
<1>12. Sensible(d, j)
  <2>1. Loose(d, Spans(bls))
    BY SpansLoose DEF bls
  <2>2. DOMAIN j.last = {1} /\ j.last[1].op = "move"
    BY <1>3 DEF Move
  <2>3. QED
    BY <1>3, <1>5, <1>8, <2>1, <2>2 DEF Sensible
<1>13. ASSUME Movable(d, j)
       PROVE  Renames(d, from, to) /\ Relabelled(d, Result(d, j), from, to)
  <2>1. ASSUME NEW p \in DOMAIN j.rewrite, NEW k \in DOMAIN d[p].places
        PROVE  LET x == At(d[p], k)
                   y == At(j.rewrite[p], k)
               IN  /\ IsLink(x) =>
                        /\ y.repo = x.repo /\ y.id = x.id /\ y.ref = x.ref /\ y.pin = x.pin
                        /\ y.name = IF from \in Found(d, p, x)
                                    THEN RewrittenTarget(x.name, from, to) ELSE x.name
                   /\ IsClaim(x) =>
                        /\ y.repo = x.repo
                        /\ y.type = IF ClaimsType(p, x, from) THEN to.stem ELSE x.type
    BY <1>3, <1>5, <1>7, <1>9, <1>10, <1>11
  <2>2. ASSUME NEW p \in DOMAIN d \ DOMAIN j.rewrite, NEW k \in DOMAIN d[p].places
        PROVE  LET x == At(d[p], k)
               IN  /\ IsLink(x) => from \notin Found(d, p, x)
                   /\ IsClaim(x) => ~ClaimsType(p, x, from)
    BY <1>3, <1>6, <1>10, <1>11
  <2>3. \A p \in DOMAIN j.rewrite : p \in DOMAIN d /\ Reworded(d[p], j.rewrite[p])
    BY <1>3, <1>5, <1>8
  <2>4. QED
    BY <1>1, <1>3, <1>13, <2>1, <2>2, <2>3, RelabelResult DEF OneMove
<1>14. QED
  BY <1>3, <1>12, <1>13 DEF j, OneMove

LEMMA RenameTypeFollows ==
    ASSUME NEW d, AllProper(d), Distinct(d), NEW def, NEW new,
           RenameType(d, def, new) # Refused
    PROVE  LET j == RenameType(d, def, new)
               to == [def EXCEPT !.stem = new]
           IN  /\ Sensible(d, j) /\ OneMove(j, def, to)
               /\ Movable(d, j) => Renames(d, def, to) /\ Relabelled(d, Result(d, j), def, to)
<1> DEFINE to == [def EXCEPT !.stem = new]
           j == RenameType(d, def, new)
           bls == Backlinks(d, def)
           claiming == {p \in DOMAIN d : Claiming(d, p, def) # {}}
           referrers == Sources(bls) \cup claiming
           claims(p) == [k \in Claiming(d, p, def) |-> [At(d[p], k) EXCEPT !.type = new]]
           links(p) == RenamedLinks(d, bls, p, def, to)
           both(p) == Over(claims(p), links(p))
<1>1. /\ def \in DOMAIN d /\ Def(def) /\ new # ""
      /\ \A p \in DOMAIN d : Def(p) /\ p.repo = def.repo => p.stem # new
  BY DEF RenameType
<1>2. Path(def)
  BY <1>1 DEF Distinct
<1>3. to.stem = new /\ to.repo = def.repo /\ Def(to) /\ Path(to)
  BY <1>1, <1>2 DEF Path, Def
<1>4. j = Job({}, {}, [p \in referrers |-> Rewrite(d[p], both(p))],
              <<>>, <<Move(def, to)>>, {def, to})
  BY DEF RenameType
<1>5. /\ OneMove(j, def, to) /\ DOMAIN j.rewrite = referrers
      /\ j.spans = <<>> /\ \A p \in referrers : j.rewrite[p] = Rewrite(d[p], both(p))
  BY <1>4 DEF Job, OneMove
<1>6. ASSUME NEW p \in DOMAIN d
      PROVE  DOMAIN links(p) = Links(d, p, def) /\ DOMAIN claims(p) = Claiming(d, p, def)
  BY BacklinkKeys DEF RenamedLinks
<1>7. /\ referrers \subseteq DOMAIN d
      /\ \A p \in referrers : Links(d, p, def) \cup Claiming(d, p, def) # {}
      /\ \A p \in DOMAIN d \ referrers : Links(d, p, def) = {} /\ Claiming(d, p, def) = {}
  BY BacklinkKeys
<1>8. ASSUME NEW p \in DOMAIN d, NEW k \in Links(d, p, def)
      PROVE  LET x == At(d[p], k)
                 y == links(p)[k]
             IN  /\ DOMAIN y = DOMAIN x /\ y.name = RewrittenTarget(x.name, def, to)
                 /\ y.repo = x.repo /\ y.id = x.id /\ y.ref = x.ref /\ y.pin = x.pin
                 /\ y.name # Local
  <2>1. k \in KeysIn(bls, p) /\ k \in DOMAIN d[p].places /\ IsLink(At(d[p], k))
    BY BacklinkKeys, LinksPart
  <2>2. RewrittenTarget(At(d[p], k).name, def, to) # Local
    BY <1>1, <1>3, RewrittenSpelling, SpellingIsNoLocal
  <2> HIDE DEF to
  <2>3. QED
    BY <2>1, <2>2, RenamedParts
<1>9. ASSUME NEW p \in DOMAIN d, NEW k \in Claiming(d, p, def)
      PROVE  LET x == At(d[p], k)
                 y == claims(p)[k]
             IN  /\ k \in DOMAIN d[p].places /\ IsClaim(x) /\ DOMAIN y = DOMAIN x
                 /\ y.type = new /\ y.repo = x.repo
                 /\ ~IsLink(y) /\ ~IsRecord(x) /\ ~IsLink(x)
  <2> DEFINE x == At(d[p], k)
             y == claims(p)[k]
  <2>1. k \in DOMAIN d[p].places /\ IsClaim(x)
    BY DEF Claiming
  <2>2. ~IsRecord(x) /\ ~IsLink(x) /\ DOMAIN x = {"type", "repo"}
    BY <2>1, PlaceKinds DEF AllProper
  <2>3. y = [x EXCEPT !.type = new]
    OBVIOUS
  <2> HIDE DEF x, y
  <2>4. DOMAIN y = DOMAIN x /\ y.type = new /\ y.repo = x.repo
    BY <2>2, <2>3
  <2>5. QED
    BY <2>1, <2>2, <2>4 DEF IsLink, x, y
<1> HIDE DEF j, links, claims, bls
<1>10. ASSUME NEW p \in DOMAIN d
       PROVE  /\ DOMAIN both(p) = Links(d, p, def) \cup Claiming(d, p, def)
              /\ \A k \in Claiming(d, p, def) : both(p)[k] = claims(p)[k]
              /\ \A k \in Links(d, p, def) : k \notin Claiming(d, p, def) /\ both(p)[k] = links(p)[k]
  <2>1. \A k \in Links(d, p, def) : k \notin Claiming(d, p, def)
    BY <1>9, LinksPart
  <2>2. QED
    BY <1>6, <2>1 DEF Over
<1> HIDE DEF both, referrers, to
<1>11. ASSUME NEW p \in referrers
       PROVE  Reworded(d[p], j.rewrite[p])
  <2>1. p \in DOMAIN d /\ Proper(d[p])
    BY <1>7 DEF AllProper
  <2>2. \A k \in Links(d, p, def) : ~IsRecord(At(d[p], k))
    BY <2>1, LinksPart, PlaceKinds
  <2>3. ASSUME NEW k \in DOMAIN both(p)
        PROVE  /\ ~IsRecord(At(d[p], k)) /\ DOMAIN both(p)[k] = DOMAIN At(d[p], k)
               /\ IsLink(both(p)[k]) /\ both(p)[k].name = Local => both(p)[k].repo = NoRepo
    <3>1. CASE k \in Links(d, p, def)
      <4>1. both(p)[k] = links(p)[k]
        BY <1>10, <2>1, <3>1
      <4>2. DOMAIN links(p)[k] = DOMAIN At(d[p], k) /\ links(p)[k].name # Local
        BY <1>8, <2>1, <3>1
      <4>3. QED
        BY <2>2, <3>1, <4>1, <4>2
    <3>2. CASE k \in Claiming(d, p, def)
      <4>1. both(p)[k] = claims(p)[k]
        BY <1>10, <2>1, <3>2
      <4>2. DOMAIN claims(p)[k] = DOMAIN At(d[p], k) /\ ~IsLink(claims(p)[k]) /\ ~IsRecord(At(d[p], k))
        BY <1>9, <2>1, <3>2
      <4>3. QED
        BY <4>1, <4>2
    <3>3. QED
      BY <1>10, <2>1, <3>1, <3>2
  <2>4. Reworded(d[p], Rewrite(d[p], both(p)))
    BY <2>1, <2>3, RewriteReworded
  <2>5. QED
    BY <1>5, <2>4
<1>12. ASSUME NEW p \in referrers, NEW k \in DOMAIN d[p].places
       PROVE  At(j.rewrite[p], k) = IF k \in DOMAIN both(p) THEN both(p)[k] ELSE At(d[p], k)
  BY <1>5, <1>7, RewriteShape DEF AllProper
<1>13. ASSUME NEW p \in DOMAIN d, NEW k \in DOMAIN d[p].places
       PROVE  /\ IsLink(At(d[p], k)) =>
                     /\ k \in Links(d, p, def) <=> def \in Found(d, p, At(d[p], k))
                     /\ k \notin Claiming(d, p, def)
              /\ IsClaim(At(d[p], k)) =>
                     /\ k \in Claiming(d, p, def) <=> ClaimsType(p, At(d[p], k), def)
                     /\ k \notin Links(d, p, def)
  <2>1. IsClaim(At(d[p], k)) => ~IsLink(At(d[p], k))
    BY PlaceKinds DEF AllProper
  <2>2. QED
    BY <1>1, <2>1 DEF Links, Claiming, ClaimsType
<1>14. Sensible(d, j)
  <2>1. Loose(d, j.spans)
    BY <1>5 DEF Loose
  <2>2. DOMAIN j.last = {1} /\ j.last[1].op = "move"
    BY <1>5 DEF Move, OneMove
  <2>3. QED
    BY <1>5, <1>7, <1>11, <2>1, <2>2 DEF Sensible
<1>15. ASSUME Movable(d, j)
       PROVE  Renames(d, def, to) /\ Relabelled(d, Result(d, j), def, to)
  <2>1. ASSUME NEW p \in DOMAIN j.rewrite, NEW k \in DOMAIN d[p].places
        PROVE  LET x == At(d[p], k)
                   y == At(j.rewrite[p], k)
               IN  /\ IsLink(x) =>
                        /\ y.repo = x.repo /\ y.id = x.id /\ y.ref = x.ref /\ y.pin = x.pin
                        /\ y.name = IF def \in Found(d, p, x)
                                    THEN RewrittenTarget(x.name, def, to) ELSE x.name
                   /\ IsClaim(x) =>
                        /\ y.repo = x.repo
                        /\ y.type = IF ClaimsType(p, x, def) THEN to.stem ELSE x.type
    <3>1. p \in referrers /\ p \in DOMAIN d
      BY <1>5, <1>7
    <3>2. CASE IsLink(At(d[p], k))
      <4>1. ~IsClaim(At(d[p], k))
        BY <3>1, <3>2, PlaceKinds DEF AllProper
      <4>2. QED
        <5>1. CASE k \in Links(d, p, def)
          <6>1. At(j.rewrite[p], k) = links(p)[k] /\ def \in Found(d, p, At(d[p], k))
            BY <1>10, <1>12, <1>13, <3>1, <3>2, <5>1
          <6>2. QED
            BY <1>8, <3>1, <4>1, <5>1, <6>1
        <5>2. CASE k \notin Links(d, p, def)
          <6>1. k \notin DOMAIN both(p) /\ def \notin Found(d, p, At(d[p], k))
            BY <1>10, <1>13, <3>1, <3>2, <5>2
          <6>2. At(j.rewrite[p], k) = At(d[p], k)
            BY <1>12, <3>1, <6>1
          <6>3. QED
            BY <4>1, <6>1, <6>2
        <5>3. QED
          BY <5>1, <5>2
    <3>3. CASE IsClaim(At(d[p], k))
      <4>1. ~IsLink(At(d[p], k))
        BY <3>1, <3>3, PlaceKinds DEF AllProper
      <4>2. QED
        <5>1. CASE k \in Claiming(d, p, def)
          <6>1. At(j.rewrite[p], k) = claims(p)[k] /\ ClaimsType(p, At(d[p], k), def)
            BY <1>10, <1>12, <1>13, <3>1, <3>3, <5>1
          <6>2. claims(p)[k].type = to.stem /\ claims(p)[k].repo = At(d[p], k).repo
            BY <1>3, <1>9, <3>1, <5>1
          <6>3. QED
            BY <4>1, <6>1, <6>2
        <5>2. CASE k \notin Claiming(d, p, def)
          <6>1. k \notin DOMAIN both(p) /\ ~ClaimsType(p, At(d[p], k), def)
            BY <1>10, <1>13, <3>1, <3>3, <5>2
          <6>2. At(j.rewrite[p], k) = At(d[p], k)
            BY <1>12, <3>1, <6>1
          <6>3. QED
            BY <4>1, <6>1, <6>2
        <5>3. QED
          BY <5>1, <5>2
    <3>4. QED
      BY <3>2, <3>3
  <2>2. ASSUME NEW p \in DOMAIN d \ DOMAIN j.rewrite, NEW k \in DOMAIN d[p].places
        PROVE  LET x == At(d[p], k)
               IN  /\ IsLink(x) => def \notin Found(d, p, x)
                   /\ IsClaim(x) => ~ClaimsType(p, x, def)
    BY <1>5, <1>7, <1>13
  <2>3. \A p \in DOMAIN j.rewrite : p \in DOMAIN d /\ Reworded(d[p], j.rewrite[p])
    BY <1>5, <1>7, <1>11
  <2>4. \A p \in DOMAIN d : Def(p) /\ p.repo = def.repo => p.stem # to.stem
    BY <1>1, <1>3
  <2>5. QED
    BY <1>1, <1>3, <1>5, <1>15, <2>1, <2>2, <2>3, <2>4, RelabelResult
<1>16. QED
  BY <1>5, <1>14, <1>15 DEF j, to

LEMMA KeysOf ==
    ASSUME NEW d, NEW f, NEW bls \in SUBSET Backlinks(d, f)
    PROVE  /\ \A p, k : k \in KeysIn(bls, p) <=> <<p, k>> \in bls
           /\ \A p : p \in Sources(bls) <=> KeysIn(bls, p) # {}
           /\ \A p : \A k \in KeysIn(bls, p) : p \in DOMAIN d /\ k \in Links(d, p, f)
<1>1. ASSUME NEW b \in bls
      PROVE  b = <<b[1], b[2]>> /\ b[1] \in DOMAIN d /\ b[2] \in Links(d, b[1], f)
  BY DEF Backlinks
<1> HIDE DEF KeysIn
<1>2. ASSUME NEW p, NEW k
      PROVE  k \in KeysIn(bls, p) <=> <<p, k>> \in bls
  <2>1. <<p, k>>[1] = p /\ <<p, k>>[2] = k
    OBVIOUS
  <2>2. k \in KeysIn(bls, p) => <<p, k>> \in bls
    BY <1>1 DEF KeysIn
  <2>3. <<p, k>> \in bls => k \in KeysIn(bls, p)
    BY <2>1 DEF KeysIn
  <2>4. QED
    BY <2>2, <2>3
<1>3. ASSUME NEW p
      PROVE  p \in Sources(bls) <=> KeysIn(bls, p) # {}
  BY DEF Sources, KeysIn
<1>4. ASSUME NEW p, NEW k \in KeysIn(bls, p)
      PROVE  p \in DOMAIN d /\ k \in Links(d, p, f)
  BY <1>1 DEF KeysIn
<1>5. QED
  BY <1>2, <1>3, <1>4

LEMMA BacklinkPairs ==
    ASSUME NEW d, NEW f, NEW p, NEW k
    PROVE  <<p, k>> \in Backlinks(d, f) <=> p \in DOMAIN d /\ k \in Links(d, p, f)
<1>1. \A k2 : k2 \in KeysIn(Backlinks(d, f), p) <=> <<p, k2>> \in Backlinks(d, f)
  BY KeysOf
<1>2. \A k2 \in KeysIn(Backlinks(d, f), p) : p \in DOMAIN d /\ k2 \in Links(d, p, f)
  BY KeysOf
<1>3. p \in DOMAIN d => KeysIn(Backlinks(d, f), p) = Links(d, p, f)
  BY BacklinkKeys
<1>4. QED
  BY <1>1, <1>2, <1>3

\* F is d with the record `id` of h called `new`.
Renumbered(d, F, h, id, new) ==
    /\ DOMAIN F = DOMAIN d
    /\ \A p \in DOMAIN d :
          /\ Proper(F[p]) /\ F[p].me = d[p].me /\ DOMAIN F[p].places = DOMAIN d[p].places
          /\ \A k \in DOMAIN d[p].places :
                LET x == At(d[p], k)
                    y == At(F[p], k)
                IN  /\ F[p].places[k].slot = d[p].places[k].slot /\ DOMAIN y = DOMAIN x
                    /\ IsRecord(x) => /\ y.me = x.me
                                      /\ y.id = IF p = h /\ x.id = id THEN new ELSE x.id
                    /\ IsLink(x) => /\ y.name = x.name /\ y.repo = x.repo /\ y.ref = x.ref
                                    /\ y.pin = x.pin
                                    /\ y.id = IF h \in Found(d, p, x) /\ x.id = id THEN new ELSE x.id
                    /\ IsClaim(x) => y = x

LEMMA FoundSame ==
    ASSUME NEW d, NEW e, DOMAIN e = DOMAIN d, NEW p, NEW x, NEW y,
           y.name = x.name, y.repo = x.repo, y.pin = x.pin
    PROVE  Found(e, p, y) = Found(d, p, x)
<1>1. Home(p, y) = Home(p, x)
  BY DEF Home
<1>2. Matches(e, Home(p, x), x.name) = Matches(d, Home(p, x), x.name)
  BY DEF Matches
<1>3. QED
  BY <1>1, <1>2 DEF Found

LEMMA RenumberedKinds ==
    ASSUME NEW d, AllProper(d), NEW F, NEW h, NEW id, NEW new, Renumbered(d, F, h, id, new),
           NEW p \in DOMAIN d
    PROVE  /\ Records(F[p]) = Records(d[p]) /\ Entities(F[p]) = Entities(d[p])
           /\ \A k \in DOMAIN d[p].places :
                 /\ IsRecord(At(F[p], k)) <=> IsRecord(At(d[p], k))
                 /\ IsLink(At(F[p], k)) <=> IsLink(At(d[p], k))
                 /\ IsClaim(At(F[p], k)) <=> IsClaim(At(d[p], k))
<1>1. \A k \in DOMAIN d[p].places :
         /\ IsRecord(At(F[p], k)) <=> IsRecord(At(d[p], k))
         /\ IsLink(At(F[p], k)) <=> IsLink(At(d[p], k))
         /\ IsClaim(At(F[p], k)) <=> IsClaim(At(d[p], k))
  BY DEF Renumbered, IsRecord, IsLink, IsClaim
<1>2. DOMAIN F[p].places = DOMAIN d[p].places /\ F[p].me = d[p].me
  BY DEF Renumbered
<1>3. Records(F[p]) = Records(d[p])
  BY <1>1, <1>2 DEF Records
<1>4. \A k \in Records(d[p]) : At(F[p], k).me = At(d[p], k).me
  BY DEF Renumbered, Records
<1>5. QED
  BY <1>1, <1>2, <1>3, <1>4 DEF Entities

LEMMA RenumberedDistinct ==
    ASSUME NEW d, AllProper(d), Distinct(d), NEW F, NEW h, NEW id, NEW new,
           Renumbered(d, F, h, id, new)
    PROVE  Distinct(F) /\ AllProper(F)
<1>1. DOMAIN F = DOMAIN d
  BY DEF Renumbered
<1>2. ASSUME NEW p \in DOMAIN d
      PROVE  /\ Entities(F[p]) = Entities(d[p]) /\ Proper(F[p])
             /\ DOMAIN F[p].places = DOMAIN d[p].places
  <2>1. Entities(F[p]) = Entities(d[p])
    BY RenumberedKinds
  <2>2. QED
    BY <2>1 DEF Renumbered
<1>3. QED
  BY <1>1, <1>2 DEF Distinct, AllProper

LEMMA RenumberedFollows ==
    ASSUME NEW d, AllProper(d), Distinct(d), NEW F, NEW h, NEW id, NEW new,
           NoId \notin {id, new}, Renumbered(d, F, h, id, new),
           NEW p \in DOMAIN d, NEW k \in DOMAIN d[p].places, Reach(d, p, k) # {}
    PROVE  p \in DOMAIN F /\ k \in DOMAIN F[p].places /\ Reach(F, p, k) = Reach(d, p, k)
<1> DEFINE x == At(d[p], k)
           y == At(F[p], k)
<1>1. p \in DOMAIN F /\ k \in DOMAIN F[p].places /\ DOMAIN F = DOMAIN d
  BY DEF Renumbered
<1>2. /\ IsRecord(y) <=> IsRecord(x)
      /\ IsLink(y) <=> IsLink(x)
      /\ IsClaim(y) <=> IsClaim(x)
  BY RenumberedKinds
<1>3. CASE IsRecord(x)
  <2>1. y.me = x.me
    BY <1>3 DEF Renumbered
  <2>2. QED
    BY <1>1, <1>2, <1>3, <2>1, RecordReach
<1>4. CASE IsClaim(x)
  <2>1. ~IsLink(x) /\ ~IsRecord(x) /\ y = x
    BY <1>4, PlaceKinds DEF AllProper, Renumbered
  <2>2. Claimed(F, p, x) = Claimed(d, p, x)
    BY <1>1 DEF Claimed
  <2>3. \A f \in Claimed(d, p, x) : F[f].me = d[f].me
    BY DEF Claimed, Renumbered
  <2>4. Reach(d, p, k) = {d[f].me : f \in Claimed(d, p, x)}
    BY <1>4, <2>1, ClaimReach
  <2>5. Reach(F, p, k) = {F[f].me : f \in Claimed(F, p, y)}
    BY <1>2, <1>4, <2>1, ClaimReach
  <2>6. Reach(F, p, k) = {F[f].me : f \in Claimed(d, p, x)}
    BY <2>1, <2>2, <2>5
  <2>7. QED
    BY <1>1, <2>3, <2>4, <2>6
<1>5. CASE IsLink(x)
  <2>1. ~IsRecord(x) /\ ~IsClaim(x)
    BY <1>5, PlaceKinds DEF AllProper
  <2>2. PICK g : Found(d, p, x) = {g} /\ g \in DOMAIN d
    BY <1>5, Landing
  <2>3. /\ y.name = x.name /\ y.repo = x.repo /\ y.ref = x.ref /\ y.pin = x.pin
        /\ y.id = IF g = h /\ x.id = id THEN new ELSE x.id
        /\ F[p].places[k].slot = d[p].places[k].slot
    BY <1>5, <2>2 DEF Renumbered
  <2>4. Found(F, p, y) = {g}
    BY <1>1, <2>2, <2>3, FoundSame
  <2>5. y.id = NoId <=> x.id = NoId
    BY <2>3
  <2>6. Passing(F[p], k) <=> Passing(d[p], k)
    BY <1>2, <1>5, <2>3, <2>5 DEF Passing
  <2>7. /\ Proper(F[g]) /\ F[g].me = d[g].me /\ Records(F[g]) = Records(d[g])
        /\ \A j \in Records(d[g]) : /\ At(F[g], j).me = At(d[g], j).me
                                    /\ At(F[g], j).id = IF g = h /\ At(d[g], j).id = id
                                                        THEN new ELSE At(d[g], j).id
    <3>1. Proper(F[g]) /\ F[g].me = d[g].me
      BY <2>2 DEF Renumbered
    <3>2. Records(F[g]) = Records(d[g])
      BY <2>2, RenumberedKinds
    <3>3. ASSUME NEW j \in Records(d[g])
          PROVE  /\ At(F[g], j).me = At(d[g], j).me
                 /\ At(F[g], j).id = IF g = h /\ At(d[g], j).id = id THEN new ELSE At(d[g], j).id
      <4>1. j \in DOMAIN d[g].places /\ IsRecord(At(d[g], j))
        BY DEF Records
      <4>2. QED
        BY <2>2, <4>1 DEF Renumbered
    <3>4. QED
      BY <3>1, <3>2, <3>3
  <2>8. \A j \in Records(d[g]) : At(d[g], j).id = x.id =>
           j \in Records(F[g]) /\ At(F[g], j).id = y.id /\ At(F[g], j).me = At(d[g], j).me
    BY <2>3, <2>7
  <2>9. IsLink(y) /\ ~IsRecord(y) /\ ~IsClaim(y) /\ g \in DOMAIN F
    BY <1>1, <1>2, <1>5, <2>1, <2>2
  <2>10. QED
    BY <1>1, <1>5, <2>2, <2>4, <2>5, <2>6, <2>7, <2>8, <2>9, SameLanding
<1>6. QED
  BY <1>1, <1>3, <1>4, <1>5, PlaceKinds DEF AllProper

\* A file rewritten in place is proper while its records keep their entities
\* and its ids name one record each.
LEMMA RewriteProper ==
    ASSUME NEW c, Proper(c), NEW new,
           \A k \in DOMAIN new \cap DOMAIN c.places :
              /\ DOMAIN new[k] = DOMAIN At(c, k)
              /\ IsRecord(new[k]) => new[k].me = At(c, k).me
              /\ IsLink(new[k]) /\ new[k].name = Local => new[k].repo = NoRepo,
           \A k \in Records(c) : \A j \in Records(c) \ {k} :
              At(Rewrite(c, new), j).id = NoId \/ At(Rewrite(c, new), j).id # At(Rewrite(c, new), k).id
    PROVE  Proper(Rewrite(c, new))
<1> DEFINE e == Rewrite(c, new)
<1>1. /\ DOMAIN e = {"me", "body", "places"} /\ e.me = c.me /\ e.body = c.body
      /\ DOMAIN e.places = DOMAIN c.places
      /\ \A k \in DOMAIN c.places :
            /\ DOMAIN e.places[k] = {"in", "slot", "holds"}
            /\ e.places[k].in = c.places[k].in /\ e.places[k].slot = c.places[k].slot
            /\ At(e, k) = IF k \in DOMAIN new THEN new[k] ELSE At(c, k)
            /\ k \notin DOMAIN new => e.places[k] = c.places[k]
  BY RewriteShape
<1>2. \A k \in Records(c) : \A j \in Records(c) \ {k} : At(e, j).id = NoId \/ At(e, j).id # At(e, k).id
  OBVIOUS
<1> HIDE DEF e
<1>3. ASSUME NEW k \in DOMAIN c.places
      PROVE  /\ DOMAIN At(e, k) = DOMAIN At(c, k)
             /\ IsRecord(At(c, k)) => At(e, k).me = At(c, k).me
             /\ IsLink(At(e, k)) /\ At(e, k).name = Local => At(e, k).repo = NoRepo
  <2>1. CASE k \in DOMAIN new
    <3>1. At(e, k) = new[k] /\ DOMAIN new[k] = DOMAIN At(c, k)
      BY <1>1, <2>1
    <3>2. IsRecord(At(c, k)) => IsRecord(new[k])
      BY <3>1 DEF IsRecord
    <3>3. QED
      BY <2>1, <3>1, <3>2
  <2>2. CASE k \notin DOMAIN new
    <3>1. At(e, k) = At(c, k)
      BY <1>1, <2>2
    <3>2. QED
      BY <3>1 DEF Proper
  <2>3. QED
    BY <2>1, <2>2
<1>4. \A k \in DOMAIN c.places : /\ IsRecord(At(e, k)) <=> IsRecord(At(c, k))
                                 /\ IsLink(At(e, k)) <=> IsLink(At(c, k))
  BY <1>3 DEF IsRecord, IsLink
<1>5. Records(e) = Records(c)
  BY <1>1, <1>4 DEF Records
<1>6. \A k \in Records(c) : At(e, k).me = At(c, k).me /\ k \in DOMAIN c.places
  BY <1>3 DEF Records
<1>7. Entities(e) = Entities(c)
  BY <1>1, <1>5, <1>6 DEF Entities
<1>8. ASSUME NEW k \in DOMAIN c.places, k[1] = "e"
      PROVE  Jot(k, e.places[k]) /\ k[2] \in Entities(e)
  <2>1. Jot(k, c.places[k]) /\ k[2] \in Entities(c)
    BY <1>8 DEF Proper
  <2>2. QED
    BY <1>1, <1>4, <1>7, <2>1 DEF Jot, At
<1>9. \A k \in Records(e) :
          /\ At(e, k).me # e.me
          /\ e.places[k].slot = "prose" => e.body /\ e.places[k].in = e.me
          /\ \A j \in Records(e) \ {k} :
                At(e, j).me # At(e, k).me /\ (At(e, j).id = NoId \/ At(e, j).id # At(e, k).id)
  BY <1>1, <1>2, <1>5, <1>6 DEF Proper
<1>10. \A k \in DOMAIN e.places : DOMAIN At(e, k) \in {RecordFields, LinkFields, ClaimFields}
  BY <1>1, <1>3 DEF Proper
<1>11. Proper(e)
  BY <1>1, <1>3, <1>8, <1>9, <1>10 DEF Proper
<1>12. QED
  BY <1>11 DEF e

OnePut(j, h, e) == j.last = <<Put(h, e)>>
LEMMA PutResult ==
    ASSUME NEW d, NEW j, NEW h \in DOMAIN d, NEW e, OnePut(j, h, e)
    PROVE  LET F == Result(d, j)
           IN  /\ DOMAIN F = DOMAIN d /\ F[h] = e
               /\ \A p \in DOMAIN d \ {h} :
                     F[p] = IF p \in DOMAIN j.rewrite THEN j.rewrite[p] ELSE d[p]
               /\ DOMAIN j.last = {1} /\ j.last[1].op = "put"
               /\ j.last[1].to = h /\ j.last[1].file = e
<1> DEFINE F == Result(d, j)
           A == Amended(d, DOMAIN j.rewrite, j)
           w == Put(h, e)
<1>1. j.last = <<w>>
  BY DEF OnePut
<1>2. w.op = "put" /\ w.to = h /\ w.file = e
  BY DEF Put
<1>3. /\ DOMAIN A = DOMAIN d
      /\ \A p \in DOMAIN d : A[p] = IF p \in DOMAIN j.rewrite THEN j.rewrite[p] ELSE d[p]
  BY DEF Amended
<1> HIDE DEF A, w
<1>4. F = Wrote(A, w)
  <2>1. \A v : Ending(A, <<v>>) = Wrote(A, v)
    BY EndingCases
  <2>2. QED
    BY <1>1, <2>1 DEF Result, A
<1>5. F = Over(Only(h, e), A)
  BY <1>2, <1>4 DEF Wrote
<1> HIDE DEF F
<1>6. DOMAIN F = DOMAIN d /\ F[h] = e /\ \A p \in DOMAIN d \ {h} : F[p] = A[p]
  BY <1>3, <1>5 DEF Over, Only
<1>7. DOMAIN j.last = {1} /\ j.last[1] = w
  BY <1>1
<1>8. QED
  BY <1>2, <1>3, <1>6, <1>7 DEF F

LEMMA RenameBlockIdFollows ==
    ASSUME NEW d, AllProper(d), Distinct(d), NEW h, NEW id, NEW new,
           RenameBlockId(d, h, id, new) # Refused
    PROVE  LET j == RenameBlockId(d, h, id, new)
           IN  /\ Sensible(d, j) /\ h \in DOMAIN d /\ \E e : OnePut(j, h, e)
               /\ NoId \notin {id, new} /\ Renumbered(d, Result(d, j), h, id, new)
<1> DEFINE j == RenameBlockId(d, h, id, new)
           decl == {k \in Inlines(d[h]) : At(d[h], k).id = id}
           bls  == {b \in Backlinks(d, h) : At(d[b[1]], b[2]).id = id}
           to(p) == [k \in KeysIn(bls, p) |-> [At(d[p], k) EXCEPT !.id = new]]
           own  == [k \in decl |-> [At(d[h], k) EXCEPT !.id = new]]
           e    == Rewrite(d[h], Over(to(h), own))
<1>1. /\ id # new /\ NoId \notin {id, new} /\ h \in DOMAIN d
      /\ decl # {} /\ new \notin HostBlockIds(d[h])
  BY DEF RenameBlockId
<1>2. j = Job({h}, {}, [p \in Sources(bls) \ {h} |-> Rewrite(d[p], to(p))],
              Spans(bls), <<Put(h, e)>>, {h})
  BY DEF RenameBlockId
<1>3. /\ OnePut(j, h, e) /\ DOMAIN j.rewrite = Sources(bls) \ {h}
      /\ \A p \in Sources(bls) \ {h} : j.rewrite[p] = Rewrite(d[p], to(p))
      /\ Loose(d, j.spans)
  <2>1. bls \in SUBSET Backlinks(d, h)
    OBVIOUS
  <2> HIDE DEF j, e, to, bls
  <2>2. /\ j.last = <<Put(h, e)>> /\ j.spans = Spans(bls)
        /\ j.rewrite = [p \in Sources(bls) \ {h} |-> Rewrite(d[p], to(p))]
    BY <1>2 DEF Job
  <2>3. QED
    BY <2>1, <2>2, SpansLoose DEF OnePut
<1>4. /\ \A p, k : k \in KeysIn(bls, p) <=> <<p, k>> \in bls
      /\ \A p : p \in Sources(bls) <=> KeysIn(bls, p) # {}
      /\ \A p : \A k \in KeysIn(bls, p) : p \in DOMAIN d /\ k \in Links(d, p, h)
  <2>1. bls \in SUBSET Backlinks(d, h)
    OBVIOUS
  <2> HIDE DEF bls
  <2>2. QED
    BY <2>1, KeysOf
<1>5. ASSUME NEW p \in DOMAIN d, NEW k
      PROVE  k \in KeysIn(bls, p) <=> k \in Links(d, p, h) /\ At(d[p], k).id = id
  <2>1. <<p, k>> \in Backlinks(d, h) <=> k \in Links(d, p, h)
    BY BacklinkPairs
  <2>2. <<p, k>>[1] = p /\ <<p, k>>[2] = k
    OBVIOUS
  <2>3. <<p, k>> \in bls <=> <<p, k>> \in Backlinks(d, h) /\ At(d[p], k).id = id
    BY <2>2
  <2>4. QED
    BY <1>4, <2>1, <2>3
<1> HIDE DEF bls
<1>6. ASSUME NEW p \in DOMAIN d, NEW k \in KeysIn(bls, p)
      PROVE  LET x == At(d[p], k)
                 y == to(p)[k]
             IN  /\ k \in DOMAIN d[p].places /\ IsLink(x) /\ ~IsRecord(x) /\ ~x.pin /\ x.id = id
                 /\ DOMAIN y = DOMAIN x /\ y.id = new /\ y.name = x.name /\ y.repo = x.repo
                 /\ y.ref = x.ref /\ y.pin = x.pin
                 /\ IsLink(y) /\ ~IsRecord(y)
                 /\ y.name = Local => y.repo = NoRepo
  <2> DEFINE x == At(d[p], k)
  <2>1. /\ k \in DOMAIN d[p].places /\ IsLink(x) /\ h \in Found(d, p, x) /\ ~x.pin /\ x.id = id
    BY <1>5, LinksPart
  <2>2. ~IsRecord(x) /\ DOMAIN x = {"name", "repo", "id", "ref", "head", "pin"}
    BY <2>1, PlaceKinds DEF AllProper
  <2>3. x.name = Local => x.repo = NoRepo
    BY <2>1 DEF AllProper, Proper
  <2>4. to(p)[k] = [x EXCEPT !.id = new]
    OBVIOUS
  <2> HIDE DEF x, to
  <2>5. /\ DOMAIN to(p)[k] = DOMAIN x /\ to(p)[k].id = new /\ to(p)[k].name = x.name
        /\ to(p)[k].repo = x.repo /\ to(p)[k].ref = x.ref /\ to(p)[k].pin = x.pin
    BY <2>2, <2>4
  <2>6. QED
    BY <2>1, <2>2, <2>3, <2>5 DEF x, IsLink, IsRecord
<1>7. ASSUME NEW k \in decl
      PROVE  LET x == At(d[h], k)
             IN  /\ k \in Records(d[h]) /\ k \in DOMAIN d[h].places /\ IsRecord(x) /\ ~IsLink(x)
                 /\ x.id = id /\ DOMAIN own[k] = DOMAIN x /\ own[k].me = x.me /\ own[k].id = new
                 /\ ~IsLink(own[k])
  <2> DEFINE x == At(d[h], k)
  <2>1. k \in Records(d[h]) /\ k \in DOMAIN d[h].places /\ IsRecord(x) /\ x.id = id
    BY DEF Inlines, Records
  <2>2. ~IsLink(x) /\ DOMAIN x = {"me", "id"}
    BY <1>1, <2>1, PlaceKinds DEF AllProper
  <2>3. own[k] = [x EXCEPT !.id = new]
    OBVIOUS
  <2> HIDE DEF x, own
  <2>4. DOMAIN own[k] = DOMAIN x /\ own[k].me = x.me /\ own[k].id = new
    BY <2>2, <2>3
  <2>5. QED
    BY <2>1, <2>2, <2>4 DEF x, IsLink
<1>8. \A k \in Records(d[h]) : At(d[h], k).id = id <=> k \in decl
  <2>1. PICK i \in decl : TRUE
    BY <1>1
  <2>2. i \in Records(d[h]) /\ At(d[h], i).id = id
    BY <1>7, <2>1
  <2>3. \A k \in Records(d[h]) : At(d[h], k).id = id => k = i
    BY <1>1, <2>2 DEF AllProper, Proper
  <2>4. QED
    BY <2>1, <2>3
<1>9. \A k \in Records(d[h]) : At(d[h], k).id # new
  BY <1>1 DEF HostBlockIds, IdsOf
<1>10. \A p \in DOMAIN d : DOMAIN to(p) = KeysIn(bls, p)
  OBVIOUS
<1>11. DOMAIN own = decl
  OBVIOUS
<1> HIDE DEF j, to, own
<1> DEFINE all == Over(to(h), own)
<1>12. /\ DOMAIN all = KeysIn(bls, h) \cup decl
       /\ \A k \in KeysIn(bls, h) : all[k] = to(h)[k]
       /\ \A k \in decl : k \notin KeysIn(bls, h) /\ all[k] = own[k]
  <2>1. \A k \in decl : k \notin KeysIn(bls, h)
    BY <1>1, <1>6, <1>7
  <2>2. QED
    BY <1>1, <1>10, <1>11, <2>1 DEF Over
<1> HIDE DEF all, decl
<1>13. e = Rewrite(d[h], all)
  BY DEF all, e
<1>14. \A k \in DOMAIN all \cap DOMAIN d[h].places :
          /\ DOMAIN all[k] = DOMAIN At(d[h], k)
          /\ IsRecord(all[k]) => all[k].me = At(d[h], k).me
          /\ IsLink(all[k]) /\ all[k].name = Local => all[k].repo = NoRepo
  <2>1. ASSUME NEW k \in KeysIn(bls, h)
        PROVE  /\ DOMAIN all[k] = DOMAIN At(d[h], k) /\ ~IsRecord(all[k])
               /\ all[k].name = Local => all[k].repo = NoRepo
    BY <1>1, <1>6, <1>12
  <2>2. ASSUME NEW k \in decl
        PROVE  DOMAIN all[k] = DOMAIN At(d[h], k) /\ all[k].me = At(d[h], k).me /\ ~IsLink(all[k])
    BY <1>7, <1>12
  <2>3. QED
    BY <1>12, <2>1, <2>2
<1>15. \A k \in DOMAIN d[h].places :
          /\ At(e, k) = IF k \in DOMAIN all THEN all[k] ELSE At(d[h], k)
          /\ e.places[k].slot = d[h].places[k].slot
  BY <1>1, <1>13, RewriteShape DEF AllProper
<1>16. DOMAIN e.places = DOMAIN d[h].places /\ e.me = d[h].me
  BY <1>1, <1>13, RewriteShape DEF AllProper
<1> HIDE DEF e
<1>17. \A k \in Records(d[h]) : At(e, k).id = IF At(d[h], k).id = id THEN new ELSE At(d[h], k).id
  <2>1. ASSUME NEW k \in Records(d[h])
        PROVE  k \notin KeysIn(bls, h) /\ k \in DOMAIN d[h].places
    <3>1. k \in DOMAIN d[h].places /\ IsRecord(At(d[h], k))
      BY DEF Records
    <3>2. QED
      BY <1>1, <1>6, <3>1
  <2>2. ASSUME NEW k \in Records(d[h]), At(d[h], k).id = id
        PROVE  At(e, k).id = new
    BY <1>7, <1>8, <1>12, <1>15, <2>1, <2>2
  <2>3. ASSUME NEW k \in Records(d[h]), At(d[h], k).id # id
        PROVE  At(e, k).id = At(d[h], k).id
    BY <1>8, <1>12, <1>15, <2>1, <2>3
  <2>4. QED
    BY <2>2, <2>3
<1>18. Proper(e)
  <2>1. ASSUME NEW k \in Records(d[h]), NEW i \in Records(d[h]) \ {k}
        PROVE  At(e, i).id = NoId \/ At(e, i).id # At(e, k).id
    <3>1. At(d[h], i).id = NoId \/ At(d[h], i).id # At(d[h], k).id
      BY <1>1 DEF AllProper, Proper
    <3>2. QED
      BY <1>1, <1>9, <1>17, <3>1
  <2>2. Proper(d[h])
    BY <1>1 DEF AllProper
  <2>3. QED
    BY <1>13, <1>14, <2>1, <2>2, RewriteProper
<1>19. ASSUME NEW p \in Sources(bls) \ {h}
       PROVE  p \in DOMAIN d /\ Reworded(d[p], j.rewrite[p])
  <2>1. PICK i \in KeysIn(bls, p) : TRUE
    BY <1>4
  <2>2. p \in DOMAIN d /\ Proper(d[p])
    BY <1>4, <2>1 DEF AllProper
  <2>3. Reworded(d[p], Rewrite(d[p], to(p)))
    <3>1. \A k \in DOMAIN to(p) \cap DOMAIN d[p].places :
             /\ ~IsRecord(At(d[p], k)) /\ DOMAIN to(p)[k] = DOMAIN At(d[p], k)
             /\ IsLink(to(p)[k]) /\ to(p)[k].name = Local => to(p)[k].repo = NoRepo
      BY <1>6, <1>10, <2>2
    <3>2. QED
      BY <2>2, <3>1, RewriteReworded
  <2>4. QED
    BY <1>3, <1>6, <2>1, <2>2, <2>3
<1> DEFINE F == Result(d, j)
<1>20. /\ DOMAIN F = DOMAIN d /\ F[h] = e
       /\ \A p \in DOMAIN d \ {h} : F[p] = IF p \in DOMAIN j.rewrite THEN j.rewrite[p] ELSE d[p]
       /\ DOMAIN j.last = {1} /\ j.last[1].op = "put"
       /\ j.last[1].to = h /\ j.last[1].file = e
  BY <1>1, <1>3, PutResult
<1>21. Sensible(d, j)
  BY <1>3, <1>18, <1>19, <1>20 DEF Sensible
<1> HIDE DEF F
<1>22. ASSUME NEW p \in DOMAIN d, p # h
       PROVE  /\ Reworded(d[p], F[p])
              /\ \A k \in DOMAIN d[p].places :
                    At(F[p], k) = IF k \in KeysIn(bls, p) THEN to(p)[k] ELSE At(d[p], k)
  <2>1. CASE p \in Sources(bls)
    <3>1. F[p] = j.rewrite[p] /\ j.rewrite[p] = Rewrite(d[p], to(p))
      BY <1>3, <1>20, <1>22, <2>1
    <3>2. \A k \in DOMAIN d[p].places :
             At(F[p], k) = IF k \in KeysIn(bls, p) THEN to(p)[k] ELSE At(d[p], k)
      BY <1>10, <3>1, RewriteShape DEF AllProper
    <3>3. QED
      BY <1>19, <1>22, <2>1, <3>1, <3>2
  <2>2. CASE p \notin Sources(bls)
    <3>1. F[p] = d[p]
      BY <1>3, <1>20, <1>22, <2>2
    <3>2. KeysIn(bls, p) = {}
      BY <1>4, <2>2
    <3>3. QED
      BY <3>1, <3>2, RewordedItself DEF AllProper
  <2>3. QED
    BY <2>1, <2>2
<1>23. ASSUME NEW p \in DOMAIN d, NEW k \in DOMAIN d[p].places
       PROVE  /\ Proper(F[p]) /\ F[p].me = d[p].me /\ DOMAIN F[p].places = DOMAIN d[p].places
              /\ F[p].places[k].slot = d[p].places[k].slot
              /\ ~IsRecord(At(d[p], k)) =>
                   At(F[p], k) = IF k \in KeysIn(bls, p) THEN to(p)[k] ELSE At(d[p], k)
              /\ IsRecord(At(d[p], k)) =>
                   At(F[p], k) = IF p = h /\ k \in decl THEN own[k] ELSE At(d[p], k)
  <2>1. CASE p = h
    <3>1. k \in KeysIn(bls, h) => ~IsRecord(At(d[h], k))
      BY <1>1, <1>6
    <3>2. k \in decl => IsRecord(At(d[h], k))
      BY <1>7
    <3>3. At(F[h], k) = IF k \in DOMAIN all THEN all[k] ELSE At(d[h], k)
      BY <1>15, <1>20, <2>1
    <3>4. QED
      BY <1>12, <1>15, <1>16, <1>18, <1>20, <2>1, <3>1, <3>2, <3>3
  <2>2. CASE p # h
    <3>1. k \in KeysIn(bls, p) => ~IsRecord(At(d[p], k))
      BY <1>6
    <3>2. QED
      BY <1>22, <2>2, <3>1 DEF Reworded
  <2>3. QED
    BY <2>1, <2>2
<1>24. ASSUME NEW p \in DOMAIN d, NEW k \in DOMAIN d[p].places
       PROVE  LET x == At(d[p], k)
                  y == At(F[p], k)
              IN  /\ DOMAIN y = DOMAIN x
                  /\ IsRecord(x) => /\ y.me = x.me
                                    /\ y.id = IF p = h /\ x.id = id THEN new ELSE x.id
                  /\ IsLink(x) => /\ y.name = x.name /\ y.repo = x.repo /\ y.ref = x.ref
                                  /\ y.pin = x.pin
                                  /\ y.id = IF h \in Found(d, p, x) /\ x.id = id THEN new ELSE x.id
                  /\ IsClaim(x) => y = x
  <2> DEFINE x == At(d[p], k)
             y == At(F[p], k)
  <2>1. CASE IsRecord(x)
    <3>1. ~IsLink(x) /\ ~IsClaim(x)
      BY <2>1, PlaceKinds DEF AllProper
    <3>2. p = h => (k \in decl <=> x.id = id)
      BY <1>8, <2>1 DEF Records
    <3>3. y = IF p = h /\ k \in decl THEN own[k] ELSE x
      BY <1>23, <2>1
    <3>4. CASE p = h /\ k \in decl
      BY <1>7, <3>1, <3>2, <3>3, <3>4
    <3>5. CASE ~(p = h /\ k \in decl)
      BY <3>1, <3>2, <3>3, <3>5
    <3>6. QED
      BY <3>4, <3>5
  <2>2. CASE IsLink(x)
    <3>1. ~IsRecord(x) /\ ~IsClaim(x)
      BY <2>2, PlaceKinds DEF AllProper
    <3>2. k \in KeysIn(bls, p) <=> h \in Found(d, p, x) /\ x.id = id
      BY <1>5, <2>2 DEF Links
    <3>3. y = IF k \in KeysIn(bls, p) THEN to(p)[k] ELSE x
      BY <1>23, <3>1
    <3>4. CASE k \in KeysIn(bls, p)
      BY <1>6, <3>1, <3>2, <3>3, <3>4
    <3>5. CASE k \notin KeysIn(bls, p)
      BY <3>1, <3>2, <3>3, <3>5
    <3>6. QED
      BY <3>4, <3>5
  <2>3. CASE IsClaim(x)
    <3>1. ~IsRecord(x) /\ ~IsLink(x)
      BY <2>3, PlaceKinds DEF AllProper
    <3>2. k \notin KeysIn(bls, p)
      BY <1>6, <3>1
    <3>3. QED
      BY <1>23, <3>1, <3>2
  <2>4. QED
    BY <2>1, <2>2, <2>3, PlaceKinds DEF AllProper
<1>25. ASSUME NEW p \in DOMAIN d
       PROVE  /\ Proper(F[p]) /\ F[p].me = d[p].me /\ DOMAIN F[p].places = DOMAIN d[p].places
              /\ \A k \in DOMAIN d[p].places : F[p].places[k].slot = d[p].places[k].slot
  BY <1>16, <1>15, <1>18, <1>20, <1>22 DEF Reworded
<1>26. Renumbered(d, F, h, id, new)
  <2>1. DOMAIN F = DOMAIN d
    BY <1>20
  <2>2. QED
    BY <1>24, <1>25, <2>1 DEF Renumbered
<1>27. QED
  BY <1>1, <1>3, <1>21, <1>26 DEF F, j

-----------------------------------------------------------------------------
(* Files that people add links to, and pin links in.                       *)

\* The same file with the same records.
Akin(c, e) ==
    /\ e.me = c.me /\ Keys(e) = Keys(c) /\ Records(e) = Records(c)
    /\ \A k \in Records(c) : At(e, k) = At(c, k)
Kindred(a, b) == DOMAIN a = DOMAIN b /\ \A p \in DOMAIN a : Akin(a[p], b[p])

\* A place as it was, or with its link pinned.
Later(s, t) ==
    /\ t.slot = s.slot
    /\ \/ t.holds = s.holds
       \/ IsLink(s.holds) /\ IsLink(t.holds) /\ t.holds.pin /\ t.holds.name = s.holds.name
Grown(c, e) ==
    /\ Akin(c, e)
    /\ \A k \in DOMAIN c.places : k \in DOMAIN e.places /\ Later(c.places[k], e.places[k])
GrownAll(a, b) == DOMAIN a = DOMAIN b /\ \A p \in DOMAIN a : Grown(a[p], b[p])

LEMMA AkinLaws ==
    /\ \A c : Akin(c, c)
    /\ \A c, e : Akin(c, e) => Akin(e, c)
    /\ \A c, e, f : Akin(c, e) /\ Akin(e, f) => Akin(c, f)
  BY DEF Akin

LEMMA KindredLaws ==
    /\ \A a : Kindred(a, a)
    /\ \A a, b : Kindred(a, b) => Kindred(b, a)
    /\ \A a, b, c : Kindred(a, b) /\ Kindred(b, c) => Kindred(a, c)
  BY AkinLaws DEF Kindred

LEMMA GrownLaws ==
    /\ \A c : Grown(c, c)
    /\ \A c, e, f : Grown(c, e) /\ Grown(e, f) => Grown(c, f)
    /\ \A c, e : Grown(c, e) => Akin(c, e)
<1>1. \A s, t, u : Later(s, t) /\ Later(t, u) => Later(s, u)
  BY DEF Later
<1>2. \A s : Later(s, s)
  BY DEF Later
<1>3. ASSUME NEW c, NEW e, NEW f, Grown(c, e), Grown(e, f)
      PROVE  Grown(c, f)
  <2>1. Akin(c, f)
    BY <1>3, AkinLaws DEF Grown
  <2>2. ASSUME NEW k \in DOMAIN c.places
        PROVE  k \in DOMAIN f.places /\ Later(c.places[k], f.places[k])
    BY <1>1, <1>3 DEF Grown
  <2>3. QED
    BY <2>1, <2>2 DEF Grown
<1>4. \A c : Grown(c, c)
  BY <1>2, AkinLaws DEF Grown
<1>5. QED
  BY <1>3, <1>4 DEF Grown

LEMMA GrownAllLaws ==
    /\ \A a : GrownAll(a, a)
    /\ \A a, b, c : GrownAll(a, b) /\ GrownAll(b, c) => GrownAll(a, c)
    /\ \A a, b : GrownAll(a, b) => Kindred(a, b)
<1>1. \A a : GrownAll(a, a)
  BY GrownLaws DEF GrownAll
<1>2. ASSUME NEW a, NEW b, NEW c, GrownAll(a, b), GrownAll(b, c)
      PROVE  GrownAll(a, c)
  <2>1. ASSUME NEW p \in DOMAIN a
        PROVE  Grown(a[p], c[p])
    <3>1. Grown(a[p], b[p]) /\ Grown(b[p], c[p])
      BY <1>2 DEF GrownAll
    <3>2. QED
      BY <3>1, GrownLaws
  <2>2. QED
    BY <1>2, <2>1 DEF GrownAll
<1>3. \A a, b : GrownAll(a, b) => Kindred(a, b)
  BY GrownLaws DEF GrownAll, Kindred
<1>4. QED
  BY <1>1, <1>2, <1>3

LEMMA KindredDistinct ==
    ASSUME NEW a, NEW b, Kindred(a, b), Distinct(a)
    PROVE  Distinct(b)
<1>1. DOMAIN b = DOMAIN a
  BY DEF Kindred
<1>2. ASSUME NEW p \in DOMAIN a
      PROVE  Entities(b[p]) = Entities(a[p]) /\ Keys(b[p]) = Keys(a[p])
  BY DEF Kindred, Akin, Entities
<1>3. ASSUME NEW p \in DOMAIN b, NEW q \in DOMAIN b \ {p}
      PROVE  {k \in DOMAIN b[p].places : k[1] # "e"} \cap DOMAIN b[q].places = {}
  <2>1. Keys(a[p]) \cap Keys(a[q]) = {}
    BY <1>1 DEF Distinct, Keys
  <2>2. Keys(b[p]) \cap Keys(b[q]) = {}
    BY <1>1, <1>2, <2>1
  <2>3. QED
    BY <2>2 DEF Keys
<1>4. QED
  BY <1>1, <1>2, <1>3 DEF Distinct

\* Among kindred files the same place leads to the same.
LEMMA KindredReach ==
    ASSUME NEW a, NEW b, Kindred(a, b), NEW p \in DOMAIN a, NEW k,
           At(b[p], k) = At(a[p], k), b[p].places[k].slot = a[p].places[k].slot
    PROVE  Reach(b, p, k) = Reach(a, p, k)
<1> DEFINE x == At(a[p], k)
           Files(d) == IF IsLink(x) THEN Found(d, p, x)
                       ELSE {f \in DOMAIN d : Def(f) /\ f.repo = Home(p, x) /\ f.stem = x.type}
           Whole(d) == {d[f].me : f \in Files(d)}
           Named(d) == {r.me : r \in {r \in Recorded(d, Files(d)) : r.id = x.id}}
<1>1. DOMAIN b = DOMAIN a
  BY DEF Kindred
<1>2. Found(b, p, x) = Found(a, p, x)
  BY <1>1, FoundSame
<1>3. Files(b) = Files(a)
  BY <1>1, <1>2
<1>4. Files(a) \subseteq DOMAIN a
  <2>1. Found(a, p, x) \subseteq DOMAIN a
    BY MatchesBear DEF Found
  <2>2. QED
    BY <2>1
<1>5. /\ \A f \in DOMAIN a : b[f].me = a[f].me /\ Records(b[f]) = Records(a[f])
      /\ \A f \in DOMAIN a : \A j \in Records(a[f]) : At(b[f], j) = At(a[f], j)
  BY DEF Kindred, Akin
<1> HIDE DEF Files
<1>6. Whole(b) = Whole(a)
  BY <1>3, <1>4, <1>5
<1>7. Recorded(b, Files(b)) = Recorded(a, Files(a))
  <2>1. \A f \in Files(a) : {At(b[f], j) : j \in Records(b[f])} = {At(a[f], j) : j \in Records(a[f])}
    BY <1>4, <1>5
  <2>2. QED
    BY <1>3, <2>1 DEF Recorded
<1>8. Named(b) = Named(a)
  BY <1>7
<1>9. Passing(b[p], k) <=> Passing(a[p], k)
  BY DEF Passing
<1> HIDE DEF Whole, Named
<1>10. ASSUME NEW d, At(d[p], k) = x
       PROVE  Reach(d, p, k) = IF IsRecord(x) THEN {x.me}
                               ELSE IF IsClaim(x) \/ x.id = NoId THEN Whole(d)
                               ELSE IF Passing(d[p], k) /\ Named(d) # {}
                               THEN Named(d) \cup Whole(d) ELSE Named(d)
  BY <1>10 DEF Reach, Whole, Named, Files
<1>11. Reach(a, p, k) = IF IsRecord(x) THEN {x.me}
                        ELSE IF IsClaim(x) \/ x.id = NoId THEN Whole(a)
                        ELSE IF Passing(a[p], k) /\ Named(a) # {}
                        THEN Named(a) \cup Whole(a) ELSE Named(a)
  BY <1>10
<1>12. At(b[p], k) = x
  OBVIOUS
<1> HIDE DEF x
<1>13. QED
  BY <1>6, <1>8, <1>9, <1>10, <1>11, <1>12

\* What people do to the files leaves a reference as it is, or pinned.
LEMMA GrownReach ==
    ASSUME NEW a, NEW b, Kindred(a, b), NEW p \in DOMAIN a, Grown(a[p], b[p]),
           NEW k \in DOMAIN a[p].places
    PROVE  /\ k \in DOMAIN b[p].places
           /\ \/ Reach(b, p, k) = Reach(a, p, k)
              \/ IsLink(At(b[p], k)) /\ At(b[p], k).pin
           /\ IsLink(At(a[p], k)) =>
                 /\ IsLink(At(b[p], k)) /\ At(b[p], k).name = At(a[p], k).name
                 /\ At(a[p], k).pin => At(b[p], k).pin
<1>1. k \in DOMAIN b[p].places /\ Later(a[p].places[k], b[p].places[k])
  BY DEF Grown
<1>2. b[p].places[k].slot = a[p].places[k].slot
  BY <1>1 DEF Later
<1>3. CASE At(b[p], k) = At(a[p], k)
  BY <1>1, <1>2, <1>3, KindredReach
<1>4. CASE At(b[p], k) # At(a[p], k)
  BY <1>1, <1>4 DEF Later, At
<1>5. QED
  BY <1>3, <1>4

-----------------------------------------------------------------------------
(* What writes make of files that differ.                                  *)

LEMMA WroteFrom ==
    ASSUME NEW a, NEW b, DOMAIN a = DOMAIN b, NEW w, IsWrite(w)
    PROVE  /\ DOMAIN Wrote(a, w) = DOMAIN Wrote(b, w)
           /\ \A q \in DOMAIN Wrote(a, w) :
                 \/ Wrote(a, w)[q] = Wrote(b, w)[q]
                 \/ \E p \in DOMAIN a : Wrote(a, w)[q] = a[p] /\ Wrote(b, w)[q] = b[p]
<1>1. CASE w.op = "put"
  BY <1>1 DEF Wrote, Over, Only
<1>2. CASE w.op = "move"
  BY <1>2 DEF Wrote
<1>3. CASE w.op = "remove"
  BY <1>3 DEF Wrote, Restrict
<1>4. QED
  BY <1>1, <1>2, <1>3 DEF IsWrite

LEMMA EndingOfTwo ==
    ASSUME NEW d, NEW v, NEW w
    PROVE  Ending(d, <<v, w>>) = Wrote(Wrote(d, v), w)
  BY DEF Ending

LEMMA EndingFrom ==
    ASSUME NEW a, NEW b, DOMAIN a = DOMAIN b, NEW last, ToCome(last)
    PROVE  /\ DOMAIN Ending(a, last) = DOMAIN Ending(b, last)
           /\ \A q \in DOMAIN Ending(a, last) :
                 \/ Ending(a, last)[q] = Ending(b, last)[q]
                 \/ \E p \in DOMAIN a : Ending(a, last)[q] = a[p] /\ Ending(b, last)[q] = b[p]
<1>1. CASE last = <<>>
  BY <1>1, EndingCases
<1>2. ASSUME NEW w, IsWrite(w), last = <<w>>
      PROVE  /\ DOMAIN Ending(a, last) = DOMAIN Ending(b, last)
             /\ \A q \in DOMAIN Ending(a, last) :
                   \/ Ending(a, last)[q] = Ending(b, last)[q]
                   \/ \E p \in DOMAIN a : Ending(a, last)[q] = a[p] /\ Ending(b, last)[q] = b[p]
  <2>1. Ending(a, last) = Wrote(a, w) /\ Ending(b, last) = Wrote(b, w)
    BY <1>2, EndingCases
  <2>2. QED
    BY <1>2, <2>1, WroteFrom
<1>3. ASSUME NEW v, NEW w, IsWrite(v), IsWrite(w), last = <<v, w>>
      PROVE  /\ DOMAIN Ending(a, last) = DOMAIN Ending(b, last)
             /\ \A q \in DOMAIN Ending(a, last) :
                   \/ Ending(a, last)[q] = Ending(b, last)[q]
                   \/ \E p \in DOMAIN a : Ending(a, last)[q] = a[p] /\ Ending(b, last)[q] = b[p]
  <2> DEFINE c == Wrote(a, v)
             e == Wrote(b, v)
  <2>0. \A x : Ending(x, <<v, w>>) = Wrote(Wrote(x, v), w)
    BY EndingOfTwo
  <2>1. Ending(a, last) = Wrote(c, w) /\ Ending(b, last) = Wrote(e, w)
    BY <1>3, <2>0
  <2>2. /\ DOMAIN c = DOMAIN e
        /\ \A q \in DOMAIN c : \/ c[q] = e[q]
                               \/ \E p \in DOMAIN a : c[q] = a[p] /\ e[q] = b[p]
    BY <1>3, WroteFrom
  <2> HIDE DEF c, e
  <2>3. /\ DOMAIN Wrote(c, w) = DOMAIN Wrote(e, w)
        /\ \A q \in DOMAIN Wrote(c, w) :
              \/ Wrote(c, w)[q] = Wrote(e, w)[q]
              \/ \E p \in DOMAIN c : Wrote(c, w)[q] = c[p] /\ Wrote(e, w)[q] = e[p]
    BY <1>3, <2>2, WroteFrom
  <2>4. QED
    BY <2>1, <2>2, <2>3
<1>4. QED
  BY <1>1, <1>2, <1>3 DEF ToCome, IsWrite

LEMMA EndingGrows ==
    ASSUME NEW a, NEW b, GrownAll(a, b), NEW last, ToCome(last)
    PROVE  GrownAll(Ending(a, last), Ending(b, last))
  BY EndingFrom, GrownLaws DEF GrownAll

LEMMA EndingKindred ==
    ASSUME NEW a, NEW b, Kindred(a, b), NEW last, ToCome(last)
    PROVE  Kindred(Ending(a, last), Ending(b, last))
  BY EndingFrom, AkinLaws DEF Kindred

LEMMA AmendedPaths ==
    ASSUME NEW d, NEW ps, NEW j
    PROVE  /\ DOMAIN Amended(d, ps, j) = DOMAIN d
           /\ \A p \in DOMAIN d :
                 Amended(d, ps, j)[p] = IF p \in ps THEN j.rewrite[p] ELSE d[p]
  BY DEF Amended

LEMMA ResultKindred ==
    ASSUME NEW a, NEW b, Kindred(a, b), NEW j, ToCome(j.last)
    PROVE  Kindred(Result(a, j), Result(b, j))
<1> DEFINE ps == DOMAIN j.rewrite
<1>1. Kindred(Amended(a, ps, j), Amended(b, ps, j))
  BY AmendedPaths, AkinLaws DEF Kindred
<1>2. QED
  BY <1>1, EndingKindred DEF Result

\* What a write leaves, takes or makes of one file does not depend on others.
LEMMA WroteSame ==
    ASSUME NEW a, NEW b, DOMAIN a = DOMAIN b, NEW w, IsWrite(w),
           w.op = "move" => w.from \in DOMAIN a /\ w.to \notin DOMAIN a,
           NEW p \in DOMAIN a, a[p] = b[p], NEW q \in DOMAIN Wrote(a, w),
           q = p \/ Bequeaths(w, p, q)
    PROVE  Wrote(a, w)[q] = Wrote(b, w)[q]
<1>1. CASE w.op = "put"
  BY <1>1 DEF Wrote, Over, Only, Bequeaths
<1>2. CASE w.op = "move"
  BY <1>2 DEF Wrote, Bequeaths
<1>3. CASE w.op = "remove"
  BY <1>3 DEF Wrote, Restrict, Bequeaths
<1>4. QED
  BY <1>1, <1>2, <1>3 DEF IsWrite

LEMMA EndingSame ==
    ASSUME NEW a, NEW b, DOMAIN a = DOMAIN b, NEW j, ToCome(j.last), Movable(a, j),
           NEW p \in DOMAIN a, a[p] = b[p], NEW q \in DOMAIN Ending(a, j.last), Heir(j, p, q)
    PROVE  Ending(a, j.last)[q] = Ending(b, j.last)[q]
<1> DEFINE last == j.last
<1>1. CASE last = <<>>
  <2>1. DOMAIN last = {}
    BY <1>1
  <2>2. q = p
    BY <2>1 DEF Heir
  <2>3. QED
    BY <1>1, <2>2, EndingCases
<1>2. ASSUME NEW w, IsWrite(w), last = <<w>>
      PROVE  Ending(a, last)[q] = Ending(b, last)[q]
  <2>1. Ending(a, last) = Wrote(a, w) /\ Ending(b, last) = Wrote(b, w)
    BY <1>2, EndingCases
  <2>2. DOMAIN last = {1} /\ last[1] = w
    BY <1>2
  <2>3. w.op = "move" => w.from \in DOMAIN a /\ w.to \notin DOMAIN a
    BY <2>2 DEF Movable
  <2>4. q = p \/ Bequeaths(w, p, q)
    BY <2>2 DEF Heir
  <2> HIDE DEF last
  <2>5. q \in DOMAIN Wrote(a, w)
    BY <2>1 DEF last
  <2>6. QED
    BY <1>2, <2>1, <2>3, <2>4, <2>5, WroteSame
<1>3. ASSUME NEW v, NEW w, v.op = "put", w.op \in {"put", "remove"}, last = <<v, w>>
      PROVE  Ending(a, last)[q] = Ending(b, last)[q]
  <2> DEFINE c == Wrote(a, v)
             e == Wrote(b, v)
  <2>0. \A x : Ending(x, <<v, w>>) = Wrote(Wrote(x, v), w)
    BY EndingOfTwo
  <2>1. Ending(a, last) = Wrote(c, w) /\ Ending(b, last) = Wrote(e, w)
    BY <1>3, <2>0
  <2>2. DOMAIN last = {1, 2} /\ last[1] = v /\ last[2] = w
    BY <1>3, Tails
  <2>3. q = p \/ v.to = q \/ Bequeaths(w, p, q)
    BY <1>3, <2>2 DEF Heir, Bequeaths
  <2>4. IsWrite(v) /\ IsWrite(w) /\ q \in DOMAIN Wrote(c, w) /\ w.op # "move"
    BY <1>3, <2>1 DEF IsWrite
  <2>5. DOMAIN c = DOMAIN e /\ p \in DOMAIN c /\ c[p] = e[p]
    BY <1>3 DEF Wrote, Over, Only
  <2>6. v.to \in DOMAIN c /\ c[v.to] = e[v.to]
    BY <1>3 DEF Wrote, Over, Only
  <2> HIDE DEF c, e
  <2>7. Wrote(c, w)[q] = Wrote(e, w)[q]
    <3>1. CASE q = v.to
      BY <2>4, <2>5, <2>6, <3>1, WroteSame
    <3>2. CASE q # v.to
      BY <2>3, <2>4, <2>5, <3>2, WroteSame
    <3>3. QED
      BY <3>1, <3>2
  <2>8. QED
    BY <2>1, <2>7
<1>4. QED
  BY <1>1, <1>2, <1>3 DEF ToCome

\* What becomes of a file does not depend on the others.
LEMMA ResultSame ==
    ASSUME NEW a, NEW b, DOMAIN a = DOMAIN b, NEW j, ToCome(j.last), Movable(a, j),
           NEW p \in DOMAIN a, a[p] = b[p], NEW q \in DOMAIN Result(a, j), Heir(j, p, q)
    PROVE  Result(a, j)[q] = Result(b, j)[q]
<1> DEFINE ps == DOMAIN j.rewrite
           c == Amended(a, ps, j)
           e == Amended(b, ps, j)
<1>1. DOMAIN c = DOMAIN a /\ DOMAIN e = DOMAIN c /\ c[p] = e[p] /\ p \in DOMAIN c
  BY AmendedPaths
<1> HIDE DEF c, e
<1>2. Movable(c, j)
  BY <1>1 DEF Movable
<1>3. Result(a, j) = Ending(c, j.last) /\ Result(b, j) = Ending(e, j.last)
  BY DEF Result, c, e
<1>4. QED
  BY <1>1, <1>2, <1>3, EndingSame

-----------------------------------------------------------------------------
(* Every verb leads references where they led.                             *)

\* The references a verb is not held to (LeftBehind, ValueMoves, FoldedAt).
Spared(d, r, p, k) ==
    \/ /\ r.verb = "promote" /\ p = r.path
       /\ LET tree == Subtree(d[p], r.key)
              l    == At(d[p], k)
          IN  /\ k \in tree /\ IsLink(l)
              /\ l.name = Local /\ l.id \notin IdsOf(d[p], tree \cap Inlines(d[p]))
    \/ /\ r.verb \in {"promote", "inline"} /\ Passing(d[p], k)
       /\ r.path \in Found(d, p, At(d[p], k))
    \/ /\ r.verb = "inline" /\ p = r.to /\ k = r.key
       /\ IsLink(At(d[p], k)) /\ At(d[p], k).id # NoId

\* The plan j of the verb r leads them there.
Leads(d, r, j) ==
    LET F == Result(d, j) IN
    /\ Distinct(F)
    /\ \A p \in DOMAIN d : \A k \in DOMAIN d[p].places :
          Reach(d, p, k) # {} /\ ~Spared(d, r, p, k) =>
             \E q \in DOMAIN F :
                /\ Heir(j, p, q) /\ k \in DOMAIN F[q].places
                /\ \/ Reach(F, q, k) = Reach(d, p, k)
                   \/ IsLink(At(F[q], k)) /\ Bears(d, F, NewHome(r), At(F[q], k))

-----------------------------------------------------------------------------
(* A record that becomes a file.                                           *)

\* What lies in an entity: itself, and the records in what lies in it.
LEMMA WithinLaws ==
    ASSUME NEW c, NEW m
    PROVE  LET W == Within(c, m)
           IN  /\ m \in W
               /\ \A j \in Records(c) : c.places[j].in \in W => At(c, j).me \in W
               /\ \A e \in W : e = m \/ \E j \in Records(c) : c.places[j].in \in W /\ At(c, j).me = e
<1> DEFINE all == {m} \cup {At(c, j).me : j \in Records(c)}
           Closed(es) == \A j \in Records(c) : c.places[j].in \in es => At(c, j).me \in es
           W == Within(c, m)
<1>1. W = {e \in all : \A es \in SUBSET all : m \in es /\ Closed(es) => e \in es}
  BY DEF Within
<1> DEFINE least == {m} \cup {At(c, j).me : j \in {j \in Records(c) : c.places[j].in \in W}}
<1> HIDE DEF W
<1>2. m \in W
  BY <1>1
<1>3. ASSUME NEW j \in Records(c), c.places[j].in \in W
      PROVE  At(c, j).me \in W
  BY <1>1, <1>3
<1>4. least \subseteq W /\ least \in SUBSET all
  BY <1>2, <1>3
<1>5. Closed(least)
  BY <1>4
<1>6. ASSUME NEW e \in W
      PROVE  e \in least
  <2>1. m \in least
    OBVIOUS
  <2> HIDE DEF least, Closed
  <2>2. QED
    BY <1>1, <1>4, <1>5, <2>1
<1>7. QED
  BY <1>2, <1>3, <1>6 DEF W

\* The records of a tree are those whose entities lie in it.
LEMMA TreeRecords ==
    ASSUME NEW c, Proper(c), NEW k \in Inlines(c)
    PROVE  LET W == Within(c, At(c, k).me)
               tree == Subtree(c, k)
           IN  /\ tree \subseteq DOMAIN c.places /\ k \in tree /\ k \in Records(c)
               /\ \A i \in tree \ {k} : c.places[i].in \in W
               /\ \A i \in DOMAIN c.places \ tree : c.places[i].in \notin W
               /\ \A j \in Records(c) : j \in tree <=> At(c, j).me \in W
               /\ W \subseteq {At(c, j).me : j \in Records(c) \cap tree}
               /\ c.me \notin W
               /\ Records(c) \cap tree \subseteq Inlines(c)
<1> DEFINE m == At(c, k).me
           W == Within(c, m)
           tree == Subtree(c, k)
<1>1. k \in Records(c) /\ k \in DOMAIN c.places
  BY DEF Inlines, Records
<1>2. tree = {k} \cup {j \in DOMAIN c.places : c.places[j].in \in W}
  BY DEF Subtree
<1>3. /\ m \in W
      /\ \A j \in Records(c) : c.places[j].in \in W => At(c, j).me \in W
      /\ \A e \in W : e = m \/ \E j \in Records(c) : c.places[j].in \in W /\ At(c, j).me = e
  BY WithinLaws
<1>4. \A j \in Records(c) : /\ At(c, j).me # c.me
                            /\ c.places[j].slot = "prose" => c.places[j].in = c.me
                            /\ \A i \in Records(c) \ {j} : At(c, i).me # At(c, j).me
  BY DEF Proper
<1>5. \A j \in Records(c) : j \in DOMAIN c.places
  BY DEF Records
<1>6. ASSUME NEW e \in W
      PROVE  \E j \in Records(c) \cap tree : At(c, j).me = e
  BY <1>1, <1>2, <1>3, <1>5
<1>7. ASSUME NEW j \in Records(c)
      PROVE  j \in tree <=> At(c, j).me \in W
  <2>1. j \in tree => At(c, j).me \in W
    BY <1>2, <1>3
  <2>2. ASSUME At(c, j).me \in W
        PROVE  j \in tree
    <3>1. PICK i \in Records(c) \cap tree : At(c, i).me = At(c, j).me
      BY <1>6, <2>2
    <3>2. QED
      BY <1>4, <3>1
  <2>3. QED
    BY <2>1, <2>2
<1>8. c.me \notin W
  BY <1>4, <1>6
<1>9. Records(c) \cap tree \subseteq Inlines(c)
  BY <1>2, <1>4, <1>8 DEF Inlines
<1> HIDE DEF W, tree
<1>10. QED
  BY <1>1, <1>2, <1>6, <1>7, <1>8, <1>9 DEF W, tree, m

\* Places of c, in a file of their own.
PartOf(c, e) ==
    /\ DOMAIN e.places \subseteq DOMAIN c.places
    /\ \A i \in DOMAIN e.places :
          /\ DOMAIN e.places[i] = {"in", "slot", "holds"}
          /\ e.places[i].in = c.places[i].in /\ e.places[i].slot = c.places[i].slot
          /\ DOMAIN At(e, i) \in {RecordFields, LinkFields, ClaimFields}
          /\ IsRecord(At(e, i)) => At(e, i) = At(c, i)
          /\ IsLink(At(c, i)) => IsLink(At(e, i))
          /\ IsLink(At(e, i)) /\ At(e, i).name = Local => At(e, i).repo = NoRepo
          /\ i[1] = "e" => i[2] \in Entities(e)
PartRecords(c, e) == \A j \in Records(e) :
    At(c, j).me # e.me /\ (c.places[j].slot = "prose" => e.body /\ c.places[j].in = e.me)
LEMMA PartProper ==
    ASSUME NEW c, Proper(c), NEW e, DOMAIN e = {"me", "body", "places"},
           PartOf(c, e), PartRecords(c, e)
    PROVE  Proper(e)
<1>1. ASSUME NEW i \in DOMAIN e.places
      PROVE  IsRecord(At(e, i)) => i \in Records(c)
  BY DEF Records, PartOf
<1>3. \A j \in Records(e) : j \in Records(c) /\ j \in DOMAIN e.places /\ At(e, j) = At(c, j)
  BY <1>1 DEF PartOf, Records
<1>4. ASSUME NEW j \in Records(e)
      PROVE  /\ At(e, j).me # e.me
             /\ e.places[j].slot = "prose" => e.body /\ e.places[j].in = e.me
             /\ \A i \in Records(e) \ {j} :
                   At(e, i).me # At(e, j).me /\ (At(e, i).id = NoId \/ At(e, i).id # At(e, j).id)
  <2>1. \A i \in Records(c) \ {j} :
           At(c, i).me # At(c, j).me /\ (At(c, i).id = NoId \/ At(c, i).id # At(c, j).id)
    BY <1>3 DEF Proper
  <2>2. QED
    BY <1>3, <2>1 DEF PartOf, PartRecords
<1>5. ASSUME NEW i \in DOMAIN e.places, i[1] = "e"
      PROVE  Jot(i, e.places[i])
  <2>1. Jot(i, c.places[i])
    BY <1>5 DEF Proper, PartOf
  <2>2. QED
    BY <2>1 DEF Jot, At, PartOf
<1>6. QED
  BY <1>4, <1>5 DEF Proper, PartOf

\* What becomes of the two parts of the file.
Torn(c, k, moved, host, tree) ==
    [out |-> [me |-> At(c, k).me, body |-> FALSE, places |-> Restrict(moved.places, tree \ {k})],
     rest |-> [host EXCEPT !.places = Restrict(@, (DOMAIN @ \ tree) \cup {k})]]

LEMMA TornProper ==
    ASSUME NEW c, Proper(c), NEW k \in Inlines(c), NEW to, Path(to), NEW inner, NEW left,
           \A i \in DOMAIN inner : /\ IsLink(At(c, i)) /\ DOMAIN inner[i] = LinkFields
                                   /\ inner[i].name = Local => inner[i].repo = NoRepo,
           k \in DOMAIN left, left[k] = WholeFile(to),
           \A i \in DOMAIN left \ {k} : /\ IsLink(At(c, i)) /\ DOMAIN left[i] = LinkFields
                                        /\ left[i].name = Local => left[i].repo = NoRepo
    PROVE  LET tree == Subtree(c, k)
               T == Torn(c, k, Rewrite(c, inner), Rewrite(c, left), tree)
               a == T.out
               b == T.rest
           IN  /\ Proper(a) /\ a.me = At(c, k).me /\ DOMAIN a.places = tree \ {k}
               /\ Records(a) = Records(c) \cap (tree \ {k})
               /\ \A i \in tree \ {k} :
                     /\ a.places[i].slot = c.places[i].slot
                     /\ At(a, i) = IF i \in DOMAIN inner THEN inner[i] ELSE At(c, i)
               /\ Proper(b) /\ b.me = c.me /\ DOMAIN b.places = (DOMAIN c.places \ tree) \cup {k}
               /\ Records(b) = Records(c) \ tree
               /\ \A i \in DOMAIN b.places :
                     /\ b.places[i].slot = c.places[i].slot
                     /\ At(b, i) = IF i \in DOMAIN left THEN left[i] ELSE At(c, i)
<1> DEFINE W == Within(c, At(c, k).me)
           tree == Subtree(c, k)
           moved == Rewrite(c, inner)
           host == Rewrite(c, left)
           T == Torn(c, k, moved, host, tree)
           a == T.out
           b == T.rest
<1>1. /\ tree \subseteq DOMAIN c.places /\ k \in tree /\ k \in Records(c)
      /\ \A i \in tree \ {k} : c.places[i].in \in W
      /\ \A i \in DOMAIN c.places \ tree : c.places[i].in \notin W
      /\ \A j \in Records(c) : j \in tree <=> At(c, j).me \in W
      /\ W \subseteq {At(c, j).me : j \in Records(c) \cap tree}
      /\ c.me \notin W
      /\ Records(c) \cap tree \subseteq Inlines(c)
  BY TreeRecords
<1>2. /\ DOMAIN moved.places = DOMAIN c.places
      /\ \A i \in DOMAIN c.places :
            /\ DOMAIN moved.places[i] = {"in", "slot", "holds"}
            /\ moved.places[i].in = c.places[i].in /\ moved.places[i].slot = c.places[i].slot
            /\ moved.places[i].holds = IF i \in DOMAIN inner THEN inner[i] ELSE At(c, i)
  BY RewriteShape DEF At
<1>3. /\ DOMAIN host = {"me", "body", "places"} /\ host.me = c.me /\ host.body = c.body
      /\ DOMAIN host.places = DOMAIN c.places
      /\ \A i \in DOMAIN c.places :
            /\ DOMAIN host.places[i] = {"in", "slot", "holds"}
            /\ host.places[i].in = c.places[i].in /\ host.places[i].slot = c.places[i].slot
            /\ host.places[i].holds = IF i \in DOMAIN left THEN left[i] ELSE At(c, i)
  BY RewriteShape DEF At
<1> HIDE DEF W, tree, moved, host
<1>4. /\ a = [me |-> At(c, k).me, body |-> FALSE, places |-> Restrict(moved.places, tree \ {k})]
      /\ b = [host EXCEPT !.places = Restrict(@, (DOMAIN @ \ tree) \cup {k})]
  BY DEF Torn
<1> HIDE DEF T
<1>5. /\ DOMAIN a = {"me", "body", "places"} /\ a.me = At(c, k).me /\ a.body = FALSE
      /\ DOMAIN a.places = tree \ {k} /\ \A i \in tree \ {k} : a.places[i] = moved.places[i]
  BY <1>4 DEF Restrict
<1>6. /\ DOMAIN b = {"me", "body", "places"} /\ b.me = c.me /\ b.body = c.body
      /\ DOMAIN b.places = (DOMAIN c.places \ tree) \cup {k}
      /\ \A i \in DOMAIN b.places : b.places[i] = host.places[i]
  BY <1>3, <1>4 DEF Restrict
<1> HIDE DEF a, b
<1>7. ASSUME NEW i \in DOMAIN c.places
      PROVE  /\ DOMAIN At(c, i) \in {RecordFields, LinkFields, ClaimFields}
             /\ IsLink(At(c, i)) /\ At(c, i).name = Local => At(c, i).repo = NoRepo
             /\ IsLink(At(c, i)) => ~IsRecord(At(c, i)) /\ ~IsClaim(At(c, i))
             /\ i[1] = "e" => IsLink(At(c, i)) /\ c.places[i].in = i[2] /\ i[2] \in Entities(c)
             /\ i \in Records(c) <=> IsRecord(At(c, i))
  BY PlaceKinds DEF Proper, Jot, At, Records
<1>8. \A x : DOMAIN x = LinkFields => IsLink(x) /\ ~IsRecord(x)
  BY DEF IsLink, IsRecord, LinkFields
\* What is taken out.
<1>9. ASSUME NEW i \in tree \ {k}
      PROVE  /\ i \in DOMAIN c.places /\ a.places[i].slot = c.places[i].slot
             /\ a.places[i].in = c.places[i].in /\ DOMAIN a.places[i] = {"in", "slot", "holds"}
             /\ At(a, i) = IF i \in DOMAIN inner THEN inner[i] ELSE At(c, i)
             /\ IsRecord(At(a, i)) <=> IsRecord(At(c, i))
             /\ IsRecord(At(a, i)) => At(a, i) = At(c, i)
             /\ DOMAIN At(a, i) \in {RecordFields, LinkFields, ClaimFields}
             /\ IsLink(At(c, i)) => IsLink(At(a, i))
             /\ IsLink(At(a, i)) /\ At(a, i).name = Local => At(a, i).repo = NoRepo
  <2>1. /\ i \in DOMAIN c.places /\ a.places[i].slot = c.places[i].slot
        /\ a.places[i].in = c.places[i].in /\ DOMAIN a.places[i] = {"in", "slot", "holds"}
        /\ At(a, i) = IF i \in DOMAIN inner THEN inner[i] ELSE At(c, i)
    BY <1>1, <1>2, <1>5 DEF At
  <2>2. CASE i \in DOMAIN inner
    BY <1>7, <1>8, <2>1, <2>2
  <2>3. CASE i \notin DOMAIN inner
    BY <1>7, <2>1, <2>3
  <2>4. QED
    BY <2>1, <2>2, <2>3
<1>11. Entities(a) = W
  <2>1. Records(a) = Records(c) \cap (tree \ {k})
    BY <1>5, <1>7, <1>9 DEF Records
  <2>2. \A j \in Records(a) : At(a, j).me = At(c, j).me
    BY <1>7, <1>9, <2>1
  <2>3. ASSUME NEW e \in W
        PROVE  e \in Entities(a)
    <3>1. PICK j \in Records(c) \cap tree : At(c, j).me = e
      BY <1>1
    <3>2. CASE j = k
      BY <1>5, <3>1, <3>2 DEF Entities
    <3>3. CASE j # k
      BY <2>1, <2>2, <3>1, <3>3 DEF Entities
    <3>4. QED
      BY <3>2, <3>3
  <2>4. Entities(a) \subseteq W
    BY <1>1, <1>5, <2>1, <2>2 DEF Entities
  <2>5. QED
    BY <2>3, <2>4
<1>12. Proper(a) /\ Records(a) = Records(c) \cap (tree \ {k})
  <2> DEFINE rs == Records(c) \cap (tree \ {k})
  <2>1. ASSUME NEW i \in DOMAIN a.places, i[1] = "e"
        PROVE  i[2] \in Entities(a)
    BY <1>1, <1>5, <1>7, <1>11, <2>1
  <2>2. ASSUME NEW j \in rs
        PROVE  At(c, j).me # a.me /\ c.places[j].slot # "prose"
    <3>1. At(c, j).me # At(c, k).me
      BY <1>1 DEF Proper
    <3>2. j \in Inlines(c)
      BY <1>1
    <3>3. QED
      BY <1>5, <3>1, <3>2 DEF Inlines
  <2>3. Records(a) = rs
    BY <1>5, <1>7, <1>9 DEF Records
  <2>6. PartRecords(c, a)
    BY <2>2, <2>3 DEF PartRecords
  <2>4. DOMAIN a.places \subseteq DOMAIN c.places
    BY <1>1, <1>5
  <2>5. PartOf(c, a)
    BY <1>5, <1>9, <2>1, <2>4 DEF PartOf
  <2> HIDE DEF rs
  <2>7. Proper(a) /\ Records(a) = rs
    BY <1>5, <2>3, <2>5, <2>6, PartProper
  <2>8. QED
    BY <2>7 DEF rs
\* What stays.
<1>13. DOMAIN WholeFile(to) = LinkFields /\ WholeFile(to).repo = NoRepo
  BY DEF WholeFile, LinkFields
<1>14. ASSUME NEW i \in DOMAIN b.places
       PROVE  /\ i \in DOMAIN c.places /\ b.places[i].slot = c.places[i].slot
              /\ b.places[i].in = c.places[i].in /\ DOMAIN b.places[i] = {"in", "slot", "holds"}
              /\ At(b, i) = IF i \in DOMAIN left THEN left[i] ELSE At(c, i)
              /\ IsRecord(At(b, i)) <=> IsRecord(At(c, i)) /\ i # k
              /\ IsRecord(At(b, i)) => At(b, i) = At(c, i)
              /\ DOMAIN At(b, i) \in {RecordFields, LinkFields, ClaimFields}
              /\ IsLink(At(c, i)) => IsLink(At(b, i))
              /\ IsLink(At(b, i)) /\ At(b, i).name = Local => At(b, i).repo = NoRepo
  <2>1. /\ i \in DOMAIN c.places /\ b.places[i].slot = c.places[i].slot
        /\ b.places[i].in = c.places[i].in /\ DOMAIN b.places[i] = {"in", "slot", "holds"}
        /\ At(b, i) = IF i \in DOMAIN left THEN left[i] ELSE At(c, i)
    BY <1>1, <1>3, <1>6 DEF At
  <2>2. CASE i = k
    BY <1>8, <1>13, <2>1, <2>2
  <2>3. CASE i # k /\ i \in DOMAIN left
    BY <1>7, <1>8, <2>1, <2>3
  <2>4. CASE i # k /\ i \notin DOMAIN left
    BY <1>7, <2>1, <2>4
  <2>5. QED
    BY <2>1, <2>2, <2>3, <2>4
<1>16. Proper(b) /\ Records(b) = Records(c) \ tree
  <2> DEFINE rs == Records(c) \ tree
  <2>1. Records(b) = rs
    BY <1>1, <1>6, <1>7, <1>14 DEF Records
  <2>2. \A j \in rs : At(b, j).me = At(c, j).me
    BY <1>7, <1>14, <2>1 DEF Records
  <2>3. ASSUME NEW i \in DOMAIN b.places, i[1] = "e"
        PROVE  i[2] \in Entities(b)
    <3>1. i \in DOMAIN c.places /\ i \notin Records(c)
      BY <1>7, <1>14, <2>3
    <3>2. i \notin tree
      BY <1>1, <1>6, <3>1
    <3>3. i[2] \notin W /\ i[2] \in Entities(c)
      BY <1>1, <1>7, <2>3, <3>1, <3>2
    <3>4. CASE i[2] = c.me
      BY <1>6, <3>4 DEF Entities
    <3>5. CASE i[2] # c.me
      <4>1. PICK j \in Records(c) : At(c, j).me = i[2]
        BY <3>3, <3>5 DEF Entities
      <4>2. j \in rs
        BY <1>1, <3>3, <4>1
      <4>3. QED
        BY <2>1, <2>2, <4>1, <4>2 DEF Entities
    <3>6. QED
      BY <3>4, <3>5
  <2>4. ASSUME NEW j \in rs
        PROVE  /\ At(c, j).me # b.me
               /\ c.places[j].slot = "prose" => b.body /\ c.places[j].in = b.me
    BY <1>6 DEF Proper
  <2>5. PartRecords(c, b)
    BY <2>1, <2>4 DEF PartRecords
  <2>6. DOMAIN b.places \subseteq DOMAIN c.places
    BY <1>14
  <2>9. PartOf(c, b)
    BY <1>6, <1>14, <2>3, <2>6 DEF PartOf
  <2> HIDE DEF rs
  <2>7. Proper(b) /\ Records(b) = rs
    BY <1>6, <2>1, <2>5, <2>9, PartProper
  <2>8. QED
    BY <2>7 DEF rs
<1>17. QED
  BY <1>5, <1>6, <1>9, <1>12, <1>14, <1>16 DEF a, b, T, tree, moved, host

\* Where a place of p is to be found, and the links that are led to the new file.
Site(d, h, k, to, p, i) == IF p = h /\ i \in Subtree(d[h], k) \ {k} THEN to ELSE p
Travelling(d, h, k) == IdsOf(d[h], Subtree(d[h], k) \cap Inlines(d[h]))
Turns(d, h, k, p, i) ==
    LET x == At(d[p], i) IN IsLink(x) /\ h \in Found(d, p, x) /\ x.id \in Travelling(d, h, k)

\* F is d with the record at k of h in a file of its own.
Split(d, F, h, k, to) ==
    LET c == d[h]
        tree == Subtree(c, k)
    IN
    /\ h \in DOMAIN d /\ to \notin DOMAIN d /\ k \in Inlines(c)
    /\ to.repo = h.repo /\ ~Def(h) /\ ~Def(to) /\ Path(to)
    /\ DOMAIN F = DOMAIN d \cup {to}
    /\ Proper(F[to]) /\ F[to].me = At(c, k).me /\ DOMAIN F[to].places = tree \ {k}
    /\ Records(F[to]) = Records(c) \cap (tree \ {k})
    /\ Proper(F[h]) /\ F[h].me = c.me /\ DOMAIN F[h].places = (DOMAIN c.places \ tree) \cup {k}
    /\ Records(F[h]) = Records(c) \ tree
    /\ \A p \in DOMAIN d \ {h} : Reworded(d[p], F[p])
    /\ At(F[h], k) = WholeFile(to)
    /\ \A p \in DOMAIN d : \A i \in DOMAIN d[p].places :
          /\ p # h \/ i # k =>
                LET e == F[Site(d, h, k, to, p, i)]
                IN  /\ e.places[i].slot = d[p].places[i].slot
                    /\ At(e, i) = IF Turns(d, h, k, p, i) THEN PromotedLink(At(d[p], i), At(c, k).id, to)
                                  ELSE At(d[p], i)
          /\ Turns(d, h, k, p, i) /\ ~(p = h /\ i \in tree) => ~Passing(d[p], i)

\* The records of d, in F.
LEMMA SplitRecords ==
    ASSUME NEW d, AllProper(d), NEW F, NEW h, NEW k, NEW to, Split(d, F, h, k, to)
    PROVE  /\ AllProper(F)
           /\ \A p \in DOMAIN d \ {h} :
                 /\ F[p].me = d[p].me /\ Records(F[p]) = Records(d[p])
                 /\ \A j \in Records(d[p]) : At(F[p], j) = At(d[p], j)
           /\ \A j \in Records(F[to]) : At(F[to], j) = At(d[h], j)
           /\ \A j \in Records(F[h]) : At(F[h], j) = At(d[h], j)
<1>1. ASSUME NEW p \in DOMAIN d \ {h}
      PROVE  /\ F[p].me = d[p].me /\ Records(F[p]) = Records(d[p])
             /\ \A j \in Records(d[p]) : At(F[p], j) = At(d[p], j)
             /\ Proper(F[p])
  <2>1. Reworded(d[p], F[p]) /\ Proper(d[p])
    BY DEF Split, AllProper
  <2>2. QED
    BY <2>1, RewordedKinds DEF Reworded
<1>2. AllProper(F)
  BY <1>1 DEF Split, AllProper
<1>3. ASSUME NEW i \in DOMAIN d[h].places, IsRecord(At(d[h], i))
      PROVE  ~Turns(d, h, k, h, i)
  BY <1>3, PlaceKinds DEF Turns, Split, AllProper
<1>4. ASSUME NEW i \in Records(d[h]), i # k
      PROVE  At(F[Site(d, h, k, to, h, i)], i) = At(d[h], i)
  BY <1>3, <1>4 DEF Split, Records
<1>5. ASSUME NEW j \in Records(F[to])
      PROVE  At(F[to], j) = At(d[h], j)
  <2>1. j \in Records(d[h]) /\ j \in Subtree(d[h], k) \ {k}
    BY DEF Split
  <2>2. QED
    BY <1>4, <2>1 DEF Site
<1>6. ASSUME NEW j \in Records(F[h])
      PROVE  At(F[h], j) = At(d[h], j)
  <2>1. j \in Records(d[h]) /\ j \notin Subtree(d[h], k) /\ j # k
    BY TreeRecords DEF Split, AllProper
  <2>2. QED
    BY <1>4, <2>1 DEF Site
<1>7. QED
  BY <1>1, <1>2, <1>5, <1>6

LEMMA SplitDistinct ==
    ASSUME NEW d, AllProper(d), Distinct(d), NEW F, NEW h, NEW k, NEW to, Split(d, F, h, k, to)
    PROVE  Distinct(F)
<1> DEFINE c == d[h]
           tree == Subtree(c, k)
           out == {At(c, j).me : j \in Records(c) \cap tree}
<1>0. /\ h \in DOMAIN d /\ to \notin DOMAIN d /\ DOMAIN F = DOMAIN d \cup {to} /\ Proper(c)
      /\ ~Def(to) /\ Path(to) /\ k \in Inlines(c)
  BY DEF Split, AllProper
<1>1. /\ F[to].me = At(c, k).me /\ DOMAIN F[to].places = tree \ {k}
      /\ Records(F[to]) = Records(c) \cap (tree \ {k})
      /\ F[h].me = c.me /\ DOMAIN F[h].places = (DOMAIN c.places \ tree) \cup {k}
      /\ Records(F[h]) = Records(c) \ tree
  BY DEF Split
<1>2. /\ tree \subseteq DOMAIN c.places /\ k \in tree /\ k \in Records(c)
      /\ \A i, j \in Records(c) : At(c, i).me = At(c, j).me => i = j
      /\ \A i \in Records(c) : At(c, i).me # c.me
  BY <1>0, TreeRecords DEF Proper
<1>3. /\ \A j \in Records(F[to]) : At(F[to], j) = At(c, j)
      /\ \A j \in Records(F[h]) : At(F[h], j) = At(c, j)
  BY SplitRecords
<1>4. Entities(F[to]) \subseteq Entities(c) /\ Entities(F[h]) \subseteq Entities(c)
  BY <1>1, <1>2, <1>3 DEF Entities
<1>5. Entities(F[to]) \cap Entities(F[h]) = {}
  BY <1>1, <1>2, <1>3 DEF Entities
<1>6. DOMAIN F[to].places \subseteq DOMAIN c.places /\ DOMAIN F[h].places \subseteq DOMAIN c.places
      /\ DOMAIN F[to].places \cap DOMAIN F[h].places = {}
  BY <1>1, <1>2
<1>7. ASSUME NEW p \in DOMAIN d \ {h}
      PROVE  Entities(F[p]) = Entities(d[p]) /\ DOMAIN F[p].places = DOMAIN d[p].places
  <2>1. Reworded(d[p], F[p]) /\ Proper(d[p])
    BY DEF Split, AllProper
  <2>2. QED
    BY <2>1, RewordedKinds DEF Reworded
<1> DEFINE Of(q) == IF q = to THEN h ELSE q
<1>8. ASSUME NEW q \in DOMAIN F
      PROVE  /\ Of(q) \in DOMAIN d /\ Entities(F[q]) \subseteq Entities(d[Of(q)])
             /\ DOMAIN F[q].places \subseteq DOMAIN d[Of(q)].places /\ Path(q)
             /\ Def(q) => Of(q) = q
  BY <1>0, <1>4, <1>6, <1>7 DEF Distinct
<1>9. ASSUME NEW q \in DOMAIN F, NEW s \in DOMAIN F \ {q}
      PROVE  /\ Entities(F[q]) \cap Entities(F[s]) = {}
             /\ {i \in DOMAIN F[q].places : i[1] # "e"} \cap DOMAIN F[s].places = {}
             /\ ~(Def(q) /\ Def(s) /\ q.repo = s.repo /\ q.stem = s.stem)
  <2>1. CASE Of(q) # Of(s)
    <3>1. /\ Entities(d[Of(q)]) \cap Entities(d[Of(s)]) = {}
          /\ {i \in DOMAIN d[Of(q)].places : i[1] # "e"} \cap DOMAIN d[Of(s)].places = {}
      BY <1>8, <2>1 DEF Distinct
    <3>2. ~(Def(q) /\ Def(s) /\ q.repo = s.repo /\ q.stem = s.stem)
      BY <1>8, <2>1 DEF Distinct
    <3> HIDE DEF Of
    <3>3. QED
      BY <1>8, <3>1, <3>2
  <2>2. CASE Of(q) = Of(s)
    <3>1. (q = to /\ s = h) \/ (q = h /\ s = to)
      BY <2>2
    <3>2. QED
      BY <1>0, <1>5, <1>6, <3>1
  <2>3. QED
    BY <2>1, <2>2
<1>10. QED
  BY <1>8, <1>9 DEF Distinct

\* Where a place of d is in F, and what it holds.
LEMMA SplitPlace ==
    ASSUME NEW d, AllProper(d), NEW F, NEW h, NEW k, NEW to, Split(d, F, h, k, to),
           NEW p \in DOMAIN d, NEW i \in DOMAIN d[p].places
    PROVE  LET q == Site(d, h, k, to, p, i)
           IN  /\ q \in DOMAIN F /\ Proper(F[q]) /\ i \in DOMAIN F[q].places
               /\ q.repo = p.repo /\ q \in {p, to}
<1> DEFINE tree == Subtree(d[h], k)
<1>1. /\ h \in DOMAIN d /\ to \notin DOMAIN d /\ to.repo = h.repo
      /\ DOMAIN F = DOMAIN d \cup {to} /\ DOMAIN F[to].places = tree \ {k}
      /\ DOMAIN F[h].places = (DOMAIN d[h].places \ tree) \cup {k}
      /\ \A s \in DOMAIN d \ {h} : Reworded(d[s], F[s])
  BY DEF Split
<1>2. AllProper(F)
  BY SplitRecords
<1> HIDE DEF tree
<1>3. CASE p = h /\ i \in tree \ {k}
  BY <1>1, <1>2, <1>3 DEF Site, AllProper, tree
<1>4. CASE p = h /\ i \notin tree \ {k}
  BY <1>1, <1>2, <1>4 DEF Site, AllProper, tree
<1>5. CASE p # h
  BY <1>1, <1>2, <1>5 DEF Site, AllProper, Reworded
<1>6. QED
  BY <1>3, <1>4, <1>5

\* What is not led to the new file finds what it found, or a name borne twice.
LEMMA SplitFinds ==
    ASSUME NEW d, AllProper(d), NEW F, NEW h, NEW k, NEW to, Split(d, F, h, k, to),
           NEW p \in DOMAIN d, NEW i \in DOMAIN d[p].places, IsLink(At(d[p], i)),
           NEW g, Found(d, p, At(d[p], i)) = {g},
           NEW q, q.repo = p.repo, At(d[p], i).name = Local => q = p
    PROVE  \/ Found(F, q, At(d[p], i)) = {g}
           \/ Bears(d, F, to, At(d[p], i))
<1> DEFINE x == At(d[p], i)
<1>1. /\ Home(p, x) = g.repo /\ ~x.pin /\ g \in DOMAIN d
      /\ x.name = Local => g = p
      /\ x.name # Local => Matches(d, Home(p, x), x.name) = {g} /\ x.name.stem = g.stem
  BY FoundHome
<1>2. to \notin DOMAIN d /\ DOMAIN F = DOMAIN d \cup {to}
  BY DEF Split
<1>3. Home(q, x) = Home(p, x)
  BY HomeKept
<1>4. CASE x.name = Local
  BY <1>1, <1>4 DEF Found
<1>5. CASE x.name # Local /\ to.repo = Home(p, x) /\ to.stem = x.name.stem
  BY <1>1, <1>2, <1>5 DEF Bears
<1>6. CASE x.name # Local /\ ~(to.repo = Home(p, x) /\ to.stem = x.name.stem)
  <2>1. \A f \in DOMAIN F \ DOMAIN d : f.repo = Home(p, x) => f.stem # x.name.stem
    BY <1>2, <1>6
  <2>2. x.name # Local /\ ~x.pin /\ Matches(d, Home(p, x), x.name) = {g} /\ g \in DOMAIN F
    BY <1>1, <1>2, <1>6
  <2> HIDE DEF x
  <2>3. Found(F, q, x) = {g}
    BY <1>3, <2>1, <2>2, FindsKept
  <2>4. QED
    BY <2>3 DEF x
<1>7. QED
  BY <1>4, <1>5, <1>6

LEMMA TravellingRecord ==
    ASSUME NEW d, NEW h, NEW k, Proper(d[h]), k \in Inlines(d[h]),
           NEW j \in Records(d[h]), At(d[h], j).id # NoId
    PROVE  At(d[h], j).id \in Travelling(d, h, k) <=> j \in Subtree(d[h], k)
<1> DEFINE tree == Subtree(d[h], k)
<1>1. Records(d[h]) \cap tree \subseteq Inlines(d[h]) /\ tree \subseteq DOMAIN d[h].places
  BY TreeRecords
<1>2. \A i \in Inlines(d[h]) : i \in Records(d[h])
  BY DEF Inlines
<1>3. \A i \in Records(d[h]) : At(d[h], i).id = At(d[h], j).id => i = j
  BY DEF Proper
<1>4. j \in tree => At(d[h], j).id \in Travelling(d, h, k)
  BY <1>1 DEF Travelling, IdsOf
<1>5. ASSUME At(d[h], j).id \in Travelling(d, h, k)
      PROVE  j \in tree
  <2>1. PICK i \in tree \cap Inlines(d[h]) : At(d[h], i).id = At(d[h], j).id
    BY <1>5 DEF Travelling, IdsOf
  <2>2. QED
    BY <1>2, <1>3, <2>1
<1>6. QED
  BY <1>4, <1>5

\* A reference that travels, led to the new file.
LEMMA SplitTurns ==
    ASSUME NEW d, AllProper(d), NEW F, NEW h, NEW k, NEW to, Split(d, F, h, k, to),
           NEW p \in DOMAIN d, NEW i \in DOMAIN d[p].places, IsLink(At(d[p], i)),
           Reach(d, p, i) # {}, Turns(d, h, k, p, i), ~Passing(d[p], i)
    PROVE  LET q == Site(d, h, k, to, p, i)
           IN  /\ IsLink(At(F[q], i))
               /\ Reach(F, q, i) = Reach(d, p, i) \/ Bears(d, F, to, At(F[q], i))
<1> DEFINE c == d[h]
           own == At(c, k).id
           tree == Subtree(c, k)
           q == Site(d, h, k, to, p, i)
           x == At(d[p], i)
           y == At(F[q], i)
<1>1. /\ h \in DOMAIN d /\ to \notin DOMAIN d /\ to.repo = h.repo /\ Path(to) /\ k \in Inlines(c)
      /\ DOMAIN F = DOMAIN d \cup {to} /\ F[to].me = At(c, k).me /\ Proper(F[to])
      /\ Records(F[to]) = Records(c) \cap (tree \ {k})
  BY DEF Split
<1>2. PICK g : Found(d, p, x) = {g} /\ g \in DOMAIN d /\ Lands(d, p, i, g)
  BY Landing
<1>3. g = h /\ x.id \in Travelling(d, h, k) /\ x.id # NoId
  BY <1>2 DEF Turns, Travelling, IdsOf
<1>4. Home(p, x) = to.repo /\ ~x.pin
  BY <1>1, <1>2, <1>3, FoundHome
<1>5. PICK j \in Records(c) : At(c, j).id = x.id /\ Reach(d, p, i) = {At(c, j).me}
  BY <1>2, <1>3 DEF Lands
<1>6. Proper(c) /\ k \in Records(c) /\ k \in DOMAIN c.places
  BY <1>1 DEF AllProper, Inlines, Records
<1>7. j \in tree
  <2>1. At(d[h], j).id \in Travelling(d, h, k) <=> j \in Subtree(d[h], k)
    BY <1>1, <1>3, <1>5, <1>6, TravellingRecord
  <2>2. QED
    BY <1>3, <1>5, <2>1
<1>8. p # h \/ i # k
  BY <1>6, PlaceKinds DEF Records
<1>9. q \in DOMAIN F /\ Proper(F[q]) /\ i \in DOMAIN F[q].places /\ q.repo = p.repo
  BY SplitPlace
<1>10. y = PromotedLink(x, own, to) /\ F[q].places[i].slot = d[p].places[i].slot
  BY <1>8 DEF Split
<1>11. DOMAIN x = {"name", "repo", "id", "ref", "head", "pin"} /\ ~IsRecord(x) /\ ~IsClaim(x)
  BY PlaceKinds DEF AllProper
<1> HIDE DEF y, x, q
<1>12. /\ DOMAIN y = DOMAIN x /\ y.name = Stem(to) /\ y.repo = x.repo /\ y.ref = x.ref /\ y.pin = x.pin
       /\ y.id = IF x.id = own THEN NoId ELSE x.id
  BY <1>10, <1>11 DEF PromotedLink
<1>13. IsLink(y) /\ ~IsRecord(y) /\ ~IsClaim(y)
  BY <1>11, <1>12 DEF IsLink, IsRecord, IsClaim
<1>14. Home(q, y) = to.repo
  BY <1>4, <1>9, <1>12, HomeKept
<1>15. CASE ~Sole(F, to)
  <2>1. PICK f \in DOMAIN F : f.repo = to.repo /\ f.stem = to.stem /\ f # to
    BY <1>1, <1>15 DEF Sole, Path
  <2>2. y.name.stem = f.stem
    BY <1>12, <2>1, NameParts
  <2>3. Bears(d, F, to, y)
    BY <1>1, <2>1, <2>2 DEF Bears
  <2>4. QED
    BY <1>13, <2>3 DEF x, y, q
<1>16. CASE Sole(F, to)
  <2>1. Found(F, q, y) = {to}
    BY <1>4, <1>12, <1>14, <1>16, FindsSole DEF Spellings
  <2>2. At(d[p], i).id # NoId /\ ~IsRecord(At(F[q], i)) /\ IsLink(At(F[q], i)) /\ ~IsClaim(At(F[q], i))
    BY <1>3, <1>13 DEF x, y
  <2>3. ~Passing(F[q], i) \/ y.id = NoId
    BY <1>10, <1>12, <2>2 DEF Passing, x, y
  <2>4. \A e \in {Found(F, q, At(F[q], i))} : e = {to}
    BY <2>1 DEF y
  <2>5. /\ y.id = NoId => Reach(F, q, i) = {F[to].me}
        /\ y.id # NoId =>
             \A s \in Records(F[to]) : At(F[to], s).id = y.id =>
                Reach(F, q, i) = IF Passing(F[q], i) THEN {At(F[to], s).me, F[to].me} ELSE {At(F[to], s).me}
    BY <1>1, <2>2, <2>4, Arrival DEF y
  <2>6. CASE x.id = own
    <3>1. j = k
      BY <1>3, <1>5, <1>6, <2>6 DEF Proper
    <3>2. QED
      BY <1>1, <1>5, <1>12, <1>13, <2>5, <2>6, <3>1 DEF x, y, q
  <2>7. CASE x.id # own
    <3>1. j \in Records(F[to]) /\ At(F[to], j) = At(c, j)
      <4>1. j # k
        BY <1>5, <2>7
      <4>2. j \in Records(F[to])
        BY <1>1, <1>7, <4>1
      <4>3. QED
        BY <4>2, SplitRecords
    <3>2. y.id = x.id /\ y.id # NoId
      BY <1>3, <1>12, <2>7
    <3>3. Reach(F, q, i) = {At(F[to], j).me}
      BY <1>5, <2>3, <2>5, <3>1, <3>2
    <3>4. QED
      BY <1>5, <1>13, <3>1, <3>3 DEF x, y, q
  <2>8. QED
    BY <2>6, <2>7
<1>17. QED
  BY <1>15, <1>16

\* A reference that stays as it was.
LEMMA SplitStays ==
    ASSUME NEW d, AllProper(d), NEW F, NEW h, NEW k, NEW to, Split(d, F, h, k, to),
           NEW p \in DOMAIN d, NEW i \in DOMAIN d[p].places, IsLink(At(d[p], i)),
           Reach(d, p, i) # {}, ~Turns(d, h, k, p, i),
           p = h /\ i \in Subtree(d[h], k) /\ At(d[p], i).name = Local =>
              At(d[p], i).id \in Travelling(d, h, k)
    PROVE  LET q == Site(d, h, k, to, p, i)
           IN  /\ IsLink(At(F[q], i))
               /\ Reach(F, q, i) = Reach(d, p, i) \/ Bears(d, F, to, At(F[q], i))
<1> DEFINE c == d[h]
           tree == Subtree(c, k)
           q == Site(d, h, k, to, p, i)
           x == At(d[p], i)
           y == At(F[q], i)
<1>1. /\ h \in DOMAIN d /\ to \notin DOMAIN d /\ DOMAIN F = DOMAIN d \cup {to} /\ k \in Inlines(c)
      /\ Records(F[h]) = Records(c) \ tree /\ F[h].me = c.me
  BY DEF Split
<1>2. PICK g : Found(d, p, x) = {g} /\ g \in DOMAIN d /\ Lands(d, p, i, g)
  BY Landing
<1>3. Proper(c) /\ k \in Records(c) /\ k \in DOMAIN c.places
  BY <1>1 DEF AllProper, Inlines, Records
<1>4. p # h \/ i # k
  BY <1>3, PlaceKinds DEF Records
<1>5. q \in DOMAIN F /\ Proper(F[q]) /\ i \in DOMAIN F[q].places /\ q.repo = p.repo
  BY SplitPlace
<1>6. y = x /\ F[q].places[i].slot = d[p].places[i].slot
  BY <1>4 DEF Split
<1>7. ~IsRecord(x) /\ ~IsClaim(x) /\ IsLink(x)
  BY PlaceKinds DEF AllProper
<1>8. x.name = Local => q = p
  <2>1. ASSUME x.name = Local, p = h, i \in tree
        PROVE  FALSE
    <3>1. Found(d, p, x) = {p}
      BY <1>2, <2>1 DEF Found
    <3>2. QED
      BY <1>7, <2>1, <3>1 DEF Turns
  <2>2. QED
    BY <2>1 DEF Site
<1>9. Found(F, q, x) = {g} \/ Bears(d, F, to, x)
  <2> HIDE DEF q
  <2>1. QED
    BY <1>2, <1>5, <1>8, SplitFinds
<1>10. F[g].me = d[g].me /\ Proper(F[g]) /\ g \in DOMAIN F
  <2>1. AllProper(F)
    BY SplitRecords
  <2>2. CASE g = h
    BY <1>1, <2>1, <2>2 DEF AllProper
  <2>3. CASE g # h
    BY <1>1, <1>2, <2>1, <2>3, SplitRecords DEF AllProper
  <2>4. QED
    BY <2>2, <2>3
<1>11. ASSUME NEW j \in Records(d[g]), At(d[g], j).id = x.id, x.id # NoId
       PROVE  j \in Records(F[g]) /\ At(F[g], j) = At(d[g], j)
  <2>1. CASE g = h
    <3>1. x.id \notin Travelling(d, h, k)
      BY <1>2, <1>7, <2>1 DEF Turns
    <3>2. At(d[h], j).id \in Travelling(d, h, k) <=> j \in Subtree(d[h], k)
      BY <1>1, <1>3, <1>11, <2>1, TravellingRecord
    <3>3. j \in Records(F[h])
      BY <1>1, <1>11, <2>1, <3>1, <3>2
    <3>4. QED
      BY <2>1, <3>3, SplitRecords
  <2>2. CASE g # h
    BY <1>2, <2>2, SplitRecords
  <2>3. QED
    BY <2>1, <2>2
<1>12. Passing(F[q], i) <=> Passing(d[p], i)
  BY <1>6 DEF Passing
<1>13. ASSUME Found(F, q, x) = {g}
       PROVE  Reach(F, q, i) = Reach(d, p, i)
  <2>1. /\ x.id = NoId => Reach(F, q, i) = {F[g].me}
        /\ x.id # NoId =>
             \A j \in Records(F[g]) : At(F[g], j).id = x.id =>
                Reach(F, q, i) = IF Passing(F[q], i) THEN {At(F[g], j).me, F[g].me} ELSE {At(F[g], j).me}
    <3>1. /\ IsLink(At(F[q], i)) /\ ~IsRecord(At(F[q], i)) /\ ~IsClaim(At(F[q], i))
          /\ Found(F, q, At(F[q], i)) = {g} /\ At(F[q], i).id = x.id
      BY <1>6, <1>7, <1>13
    <3> HIDE DEF q, x, y
    <3>2. QED
      BY <1>10, <3>1, Arrival
  <2>2. CASE x.id = NoId
    BY <1>2, <1>10, <2>1, <2>2 DEF Lands
  <2>3. CASE x.id # NoId
    <3>1. PICK j \in Records(d[g]) :
             /\ At(d[g], j).id = x.id
             /\ Reach(d, p, i) = IF Passing(d[p], i) THEN {At(d[g], j).me, d[g].me}
                                 ELSE {At(d[g], j).me}
      BY <1>2, <2>3 DEF Lands
    <3>2. j \in Records(F[g]) /\ At(F[g], j) = At(d[g], j)
      BY <1>11, <2>3, <3>1
    <3>3. QED
      BY <1>10, <1>12, <2>1, <2>3, <3>1, <3>2
  <2>4. QED
    BY <2>2, <2>3
<1> HIDE DEF q, x, y
<1>14. QED
  BY <1>6, <1>7, <1>9, <1>13 DEF q, x, y

LEMMA SplitFollows ==
    ASSUME NEW d, AllProper(d), Distinct(d), NEW F, NEW h, NEW k, NEW to, Split(d, F, h, k, to),
           NEW r, r.verb = "promote", r.path = h, r.key = k,
           NEW p \in DOMAIN d, NEW i \in DOMAIN d[p].places,
           Reach(d, p, i) # {}, ~Spared(d, r, p, i)
    PROVE  \E q \in {p, h, to} :
              /\ q \in DOMAIN F /\ i \in DOMAIN F[q].places
              /\ \/ Reach(F, q, i) = Reach(d, p, i)
                 \/ IsLink(At(F[q], i)) /\ Bears(d, F, to, At(F[q], i))
<1> DEFINE c == d[h]
           tree == Subtree(c, k)
           q == Site(d, h, k, to, p, i)
           x == At(d[p], i)
           y == At(F[q], i)
<1>1. /\ h \in DOMAIN d /\ to \notin DOMAIN d /\ DOMAIN F = DOMAIN d \cup {to} /\ k \in Inlines(c)
      /\ F[to].me = At(c, k).me /\ F[h].me = c.me /\ to.repo = h.repo /\ ~Def(h) /\ ~Def(to) /\ Path(to)
      /\ At(F[h], k) = WholeFile(to) /\ Proper(F[to])
  BY DEF Split
<1>2. q \in DOMAIN F /\ i \in DOMAIN F[q].places /\ q.repo = p.repo /\ q \in {p, to}
  BY SplitPlace
<1>3. Proper(c) /\ k \in Records(c) /\ k \in DOMAIN c.places /\ IsRecord(At(c, k))
  BY <1>1 DEF AllProper, Inlines, Records
<1>4. CASE p = h /\ i = k
  <2> DEFINE w == WholeFile(to)
  <2>1. /\ w.name = Stem(to) /\ w.repo = NoRepo /\ w.id = NoId /\ ~w.pin
        /\ IsLink(w) /\ ~IsRecord(w) /\ ~IsClaim(w)
    BY DEF WholeFile, IsLink, IsRecord, IsClaim
  <2>2. Reach(d, p, i) = {At(c, k).me}
    BY <1>3, <1>4, RecordReach
  <2>3. Home(h, w) = to.repo
    BY <1>1, <2>1 DEF Home
  <2>4. q = h
    BY <1>4 DEF Site
  <2> HIDE DEF w, q
  <2>5. CASE Sole(F, to)
    <3>1. Found(F, h, w) = {to}
      BY <2>1, <2>3, <2>5, FindsSole DEF Spellings
    <3>2. Reach(F, h, k) = {F[to].me}
      BY <1>1, <2>1, <3>1, Arrival DEF w
    <3>3. QED
      BY <1>1, <1>2, <1>4, <2>2, <2>4, <3>2
  <2>6. CASE ~Sole(F, to)
    <3>1. PICK f \in DOMAIN F : f.repo = to.repo /\ f.stem = to.stem /\ f # to
      BY <1>1, <2>6 DEF Sole, Path
    <3>2. w.name.stem = f.stem
      BY <2>1, <3>1, NameParts
    <3>3. f \in DOMAIN d
      BY <1>1, <3>1
    <3>4. Bears(d, F, to, w)
      BY <3>1, <3>2, <3>3 DEF Bears
    <3>5. QED
      BY <1>1, <1>2, <1>4, <2>1, <2>4, <3>4 DEF w
  <2>7. QED
    BY <2>5, <2>6
<1>5. CASE IsRecord(x) /\ ~(p = h /\ i = k)
  <2>1. ~Turns(d, h, k, p, i)
    BY <1>5, PlaceKinds DEF Turns, AllProper
  <2>2. y = x
    BY <1>5, <2>1 DEF Split
  <2>3. Reach(F, q, i) = Reach(d, p, i)
    BY <1>5, <2>2, RecordReach
  <2> HIDE DEF q
  <2>4. QED
    BY <1>2, <2>3
<1>6. CASE IsClaim(x)
  <2>1. ~IsLink(x) /\ ~IsRecord(x) /\ ~Turns(d, h, k, p, i)
    BY <1>6, PlaceKinds DEF Turns, AllProper
  <2>2. y = x
    BY <1>3, <2>1 DEF Split
  <2>3. Reach(d, p, i) = {d[f].me : f \in Claimed(d, p, x)}
    BY <1>6, <2>1, ClaimReach
  <2>4. Reach(F, q, i) = {F[f].me : f \in Claimed(F, q, x)}
    <3> HIDE DEF q, x
    <3>1. QED
      BY <1>6, <2>1, <2>2, ClaimReach DEF y
  <2>5. Home(q, x) = Home(p, x)
    BY <1>2, HomeKept
  <2>6. Claimed(F, q, x) = Claimed(d, p, x)
    BY <1>1, <2>5 DEF Claimed
  <2>7. \A f \in Claimed(d, p, x) : F[f].me = d[f].me
    <3>1. \A f \in Claimed(d, p, x) : f \in DOMAIN d \ {h}
      BY <1>1 DEF Claimed
    <3>2. \A f \in DOMAIN d \ {h} : F[f].me = d[f].me
      BY SplitRecords
    <3>3. QED
      BY <3>1, <3>2
  <2> HIDE DEF q, x, y
  <2>8. Reach(F, q, i) = Reach(d, p, i)
    BY <2>3, <2>4, <2>6, <2>7
  <2>9. QED
    BY <1>2, <2>8
<1>7. CASE IsLink(x)
  <2>1. /\ IsLink(At(F[q], i))
        /\ Reach(F, q, i) = Reach(d, p, i) \/ Bears(d, F, to, At(F[q], i))
    <3>1. CASE Turns(d, h, k, p, i)
      <4>1. ~Passing(d[p], i)
        BY <3>1 DEF Spared, Turns
      <4>2. QED
        BY <1>7, <3>1, <4>1, SplitTurns
    <3>2. CASE ~Turns(d, h, k, p, i)
      <4>1. p = h /\ i \in Subtree(d[h], k) /\ x.name = Local => x.id \in Travelling(d, h, k)
        BY <1>7 DEF Spared, Travelling
      <4>2. QED
        BY <1>7, <3>2, <4>1, SplitStays
    <3>3. QED
      BY <3>1, <3>2
  <2> HIDE DEF q
  <2>2. QED
    BY <1>2, <2>1
<1>8. QED
  BY <1>4, <1>5, <1>6, <1>7, PlaceKinds DEF AllProper

TwoPuts(j, a, e, b, f) == j.last = <<Put(a, e), Put(b, f)>>
Putting(d, F, j, a, e, b, f) ==
    /\ DOMAIN F = DOMAIN d \cup {a, b} /\ F[a] = e /\ F[b] = f
    /\ \A p \in DOMAIN d \ {a, b} :
          F[p] = IF p \in DOMAIN j.rewrite THEN j.rewrite[p] ELSE d[p]
LEMMA TwoPutsResult ==
    ASSUME NEW d, NEW j, NEW a, NEW e, NEW b, NEW f, a # b, TwoPuts(j, a, e, b, f)
    PROVE  /\ Putting(d, Result(d, j), j, a, e, b, f)
           /\ \A p : Heir(j, p, a) /\ Heir(j, p, b) /\ Heir(j, p, p)
<1> DEFINE F == Result(d, j)
           A == Amended(d, DOMAIN j.rewrite, j)
           v == Put(a, e)
           w == Put(b, f)
<1>1. j.last = <<v, w>>
  BY DEF TwoPuts
<1>2. v.op = "put" /\ v.to = a /\ v.file = e /\ w.op = "put" /\ w.to = b /\ w.file = f
  BY DEF Put
<1>3. /\ DOMAIN A = DOMAIN d
      /\ \A p \in DOMAIN d : A[p] = IF p \in DOMAIN j.rewrite THEN j.rewrite[p] ELSE d[p]
  BY DEF Amended
<1> HIDE DEF A, v, w
<1>4. F = Wrote(Wrote(A, v), w)
  BY <1>1, EndingOfTwo DEF Result, A
<1> DEFINE G == Over(Only(a, e), A)
<1>5. F = Over(Only(b, f), G)
  BY <1>2, <1>4 DEF Wrote
<1>6. DOMAIN G = DOMAIN d \cup {a} /\ G[a] = e /\ \A p \in DOMAIN d \ {a} : G[p] = A[p]
  BY <1>3 DEF Over, Only
<1> HIDE DEF F, G
<1>7. DOMAIN F = DOMAIN d \cup {a, b} /\ F[b] = f /\ F[a] = e /\ \A p \in DOMAIN d \ {a, b} : F[p] = A[p]
  BY <1>5, <1>6 DEF Over, Only
<1>8. DOMAIN j.last = {1, 2} /\ j.last[1] = v /\ j.last[2] = w
  BY <1>1, Tails
<1>9. ASSUME NEW p
      PROVE  Heir(j, p, a) /\ Heir(j, p, b) /\ Heir(j, p, p)
  BY <1>2, <1>8 DEF Heir, Bequeaths
<1>10. QED
  BY <1>3, <1>7, <1>9 DEF F, Putting

LEMMA PromotedParts ==
    ASSUME NEW x, DOMAIN x = LinkFields, NEW own, NEW to, Path(to)
    PROVE  LET y == PromotedLink(x, own, to)
           IN  /\ DOMAIN y = LinkFields /\ y.name = Stem(to) /\ y.name # Local /\ IsLink(y)
<1>1. Stem(to) # Local
  BY NameParts DEF Path
<1>2. QED
  BY <1>1 DEF PromotedLink, LinkFields, IsLink

LEMMA PromoteSplits ==
    ASSUME NEW d, AllProper(d), NEW h \in DOMAIN d, NEW k \in DOMAIN d[h].places, NEW to, Path(to),
           Promote(d, h, k, to) # Refused
    PROVE  LET j == Promote(d, h, k, to)
           IN  /\ Sensible(d, j) /\ j.absent = {to}
               /\ to \notin DOMAIN d =>
                     Split(d, Result(d, j), h, k, to) /\ \A p : Heir(j, p, p) /\ Heir(j, p, h) /\ Heir(j, p, to)
<1> DEFINE c     == d[h]
           own   == At(c, k).id
           tree  == Subtree(c, k)
           ids   == IdsOf(c, tree \cap Inlines(c))
           bls   == {b \in Backlinks(d, h) : At(d[b[1]], b[2]).id \in ids}
           outer == {b \in bls : b[1] # h \/ b[2] \notin tree}
           new(p, ks) == [i \in ks |-> PromotedLink(At(d[p], i), own, to)]
           inner == new(h, KeysIn(bls, h) \cap tree)
           left  == Over(new(h, KeysIn(outer, h)), Only(k, WholeFile(to)))
           moved == Rewrite(c, inner)
           host  == Rewrite(c, left)
           T == Torn(c, k, moved, host, tree)
           rewrite == [p \in Sources(outer) \ {h} |-> Rewrite(d[p], new(p, KeysIn(outer, p)))]
           j == Promote(d, h, k, to)
<1>1. /\ ~Def(h) /\ h.repo = to.repo /\ ~Def(to) /\ k \in Inlines(c)
      /\ \A b \in outer : At(d[b[1]], b[2]).ref \/ d[b[1]].places[b[2]].slot = "prose"
  BY DEF Promote
<1>2. j = Job({h}, {to}, rewrite, Spans(outer), <<Put(to, T.out), Put(h, T.rest)>>, {h, to})
  BY DEF Promote, Torn
<1> HIDE DEF j, T, rewrite
<1>3. /\ TwoPuts(j, to, T.out, h, T.rest) /\ j.rewrite = rewrite /\ j.absent = {to}
  BY <1>2 DEF Job, TwoPuts
<1>3a. Loose(d, j.spans)
  <2>1. j.spans = Spans(outer) /\ outer \in SUBSET Backlinks(d, h)
    BY <1>2 DEF Job
  <2> HIDE DEF outer
  <2>2. QED
    BY <2>1, SpansLoose
<1>4. Proper(c)
  BY DEF AllProper
<1>5. ids = Travelling(d, h, k)
  BY DEF Travelling
<1> HIDE DEF ids
\* The references to be led to the new file.
<1>6. /\ \A p, i : i \in KeysIn(bls, p) <=> <<p, i>> \in bls
      /\ \A p, i : i \in KeysIn(outer, p) <=> <<p, i>> \in outer
      /\ \A p : p \in Sources(outer) <=> KeysIn(outer, p) # {}
      /\ \A p : \A i \in KeysIn(bls, p) : p \in DOMAIN d /\ i \in Links(d, p, h)
      /\ \A p : \A i \in KeysIn(outer, p) : p \in DOMAIN d /\ i \in Links(d, p, h)
  <2>1. bls \in SUBSET Backlinks(d, h) /\ outer \in SUBSET Backlinks(d, h)
    OBVIOUS
  <2> HIDE DEF bls, outer
  <2>2. QED
    BY <2>1, KeysOf
<1>7. ASSUME NEW p \in DOMAIN d, NEW i \in DOMAIN d[p].places
      PROVE  /\ i \in KeysIn(bls, p) <=> Turns(d, h, k, p, i)
             /\ i \in KeysIn(outer, p) <=> Turns(d, h, k, p, i) /\ ~(p = h /\ i \in tree)
  <2>1. <<p, i>> \in Backlinks(d, h) <=> i \in Links(d, p, h)
    BY BacklinkPairs
  <2>2. <<p, i>>[1] = p /\ <<p, i>>[2] = i
    OBVIOUS
  <2>3. i \in Links(d, p, h) <=> IsLink(At(d[p], i)) /\ h \in Found(d, p, At(d[p], i))
    BY DEF Links
  <2>4. <<p, i>> \in bls <=> Turns(d, h, k, p, i)
    BY <1>5, <2>1, <2>2, <2>3 DEF Turns
  <2>5. <<p, i>> \in outer <=> <<p, i>> \in bls /\ ~(p = h /\ i \in tree)
    BY <2>2
  <2> HIDE DEF bls, outer
  <2>6. QED
    BY <1>6, <2>4, <2>5
<1>8. ASSUME NEW p, NEW i \in KeysIn(outer, p)
      PROVE  At(d[p], i).ref \/ d[p].places[i].slot = "prose"
  <2>1. <<p, i>> \in outer /\ <<p, i>>[1] = p /\ <<p, i>>[2] = i
    BY <1>6
  <2> HIDE DEF outer
  <2>2. QED
    BY <1>1, <2>1
<1> HIDE DEF bls, outer
<1>9. ASSUME NEW p \in DOMAIN d, NEW i \in DOMAIN d[p].places, IsLink(At(d[p], i))
      PROVE  LET y == PromotedLink(At(d[p], i), own, to)
             IN  DOMAIN y = LinkFields /\ y.name # Local /\ ~IsRecord(At(d[p], i)) /\ DOMAIN At(d[p], i) = LinkFields
  <2>1. DOMAIN At(d[p], i) = LinkFields /\ ~IsRecord(At(d[p], i))
    BY <1>9, PlaceKinds DEF AllProper, LinkFields
  <2>2. QED
    BY <2>1, PromotedParts
<1>10. ASSUME NEW p, NEW i, i \in KeysIn(bls, p) \/ i \in KeysIn(outer, p)
       PROVE  /\ p \in DOMAIN d /\ i \in DOMAIN d[p].places /\ IsLink(At(d[p], i)) /\ ~At(d[p], i).pin
  BY <1>6, <1>10, LinksPart
\* The two parts of the file.
<1>11. /\ DOMAIN inner = KeysIn(bls, h) \cap tree
       /\ \A i \in DOMAIN inner : inner[i] = PromotedLink(At(c, i), own, to)
  OBVIOUS
<1>12. /\ DOMAIN left = KeysIn(outer, h) \cup {k} /\ left[k] = WholeFile(to)
       /\ \A i \in KeysIn(outer, h) : i # k /\ left[i] = PromotedLink(At(c, i), own, to)
  <2>1. k \notin KeysIn(outer, h)
    BY <1>1, <1>10, PlaceKinds DEF AllProper, Inlines, Records
  <2>2. QED
    BY <2>1 DEF Over, Only
<1> HIDE DEF inner, left
<1>13. \A i \in DOMAIN inner : /\ IsLink(At(c, i)) /\ DOMAIN inner[i] = LinkFields
                               /\ inner[i].name = Local => inner[i].repo = NoRepo
  BY <1>9, <1>10, <1>11
<1>14. \A i \in DOMAIN left \ {k} : /\ IsLink(At(c, i)) /\ DOMAIN left[i] = LinkFields
                                    /\ left[i].name = Local => left[i].repo = NoRepo
  BY <1>9, <1>10, <1>12
<1>15. /\ Proper(T.out) /\ T.out.me = At(c, k).me /\ DOMAIN T.out.places = tree \ {k}
       /\ Records(T.out) = Records(c) \cap (tree \ {k})
       /\ \A i \in tree \ {k} :
             /\ T.out.places[i].slot = c.places[i].slot
             /\ At(T.out, i) = IF i \in DOMAIN inner THEN inner[i] ELSE At(c, i)
       /\ Proper(T.rest) /\ T.rest.me = c.me /\ DOMAIN T.rest.places = (DOMAIN c.places \ tree) \cup {k}
       /\ Records(T.rest) = Records(c) \ tree
       /\ \A i \in DOMAIN T.rest.places :
             /\ T.rest.places[i].slot = c.places[i].slot
             /\ At(T.rest, i) = IF i \in DOMAIN left THEN left[i] ELSE At(c, i)
  <2>1. k \in DOMAIN left /\ left[k] = WholeFile(to)
    BY <1>12
  <2>2. QED
    BY <1>1, <1>4, <1>13, <1>14, <2>1, TornProper DEF T, moved, host, tree
<1>16. tree \subseteq DOMAIN c.places /\ k \in tree
  BY <1>1, <1>4, TreeRecords
\* The files of others.
<1>17. ASSUME NEW p \in Sources(outer) \ {h}
       PROVE  /\ p \in DOMAIN d /\ Reworded(d[p], rewrite[p])
              /\ \A i \in DOMAIN d[p].places :
                    /\ rewrite[p].places[i].slot = d[p].places[i].slot
                    /\ At(rewrite[p], i) = IF i \in KeysIn(outer, p) THEN PromotedLink(At(d[p], i), own, to)
                                                ELSE At(d[p], i)
  <2> DEFINE ks == KeysIn(outer, p)
             nw == new(p, ks)
  <2>1. rewrite[p] = Rewrite(d[p], nw)
    BY DEF rewrite
  <2>2. PICK i \in ks : TRUE
    BY <1>6
  <2>3. p \in DOMAIN d /\ Proper(d[p])
    BY <1>10, <2>2 DEF AllProper
  <2>4. \A s \in ks : /\ ~IsRecord(At(d[p], s)) /\ DOMAIN nw[s] = DOMAIN At(d[p], s)
                      /\ nw[s].name # Local /\ s \in DOMAIN d[p].places
    BY <1>9, <1>10
  <2>5. DOMAIN nw = ks /\ \A s \in ks : nw[s] = PromotedLink(At(d[p], s), own, to)
    OBVIOUS
  <2> HIDE DEF nw, ks
  <2>6. Reworded(d[p], Rewrite(d[p], nw))
    BY <2>3, <2>4, <2>5, RewriteReworded
  <2>7. \A s \in DOMAIN d[p].places :
           /\ Rewrite(d[p], nw).places[s].slot = d[p].places[s].slot
           /\ At(Rewrite(d[p], nw), s) = IF s \in DOMAIN nw THEN nw[s] ELSE At(d[p], s)
    BY <2>3, RewriteShape
  <2>8. QED
    BY <2>1, <2>3, <2>5, <2>6, <2>7 DEF ks
<1>18. DOMAIN rewrite = Sources(outer) \ {h}
  BY DEF rewrite
<1>19. Sensible(d, j)
  <2>1. \A i \in DOMAIN j.last : j.last[i].op = "put" => Proper(j.last[i].file)
    <3>1. DOMAIN j.last = {1, 2} /\ j.last[1].file = T.out /\ j.last[2].file = T.rest
      BY <1>3, Tails DEF TwoPuts, Put
    <3>2. QED
      BY <1>15, <3>1
  <2>2. QED
    BY <1>3, <1>3a, <1>17, <1>18, <2>1 DEF Sensible
<1>20. ASSUME to \notin DOMAIN d
       PROVE  Split(d, Result(d, j), h, k, to) /\ \A p : Heir(j, p, p) /\ Heir(j, p, h) /\ Heir(j, p, to)
  <2> DEFINE F == Result(d, j)
  <2>1. /\ DOMAIN F = DOMAIN d \cup {to} /\ F[to] = T.out /\ F[h] = T.rest
        /\ \A p \in DOMAIN d \ {h} : F[p] = IF p \in DOMAIN rewrite THEN rewrite[p] ELSE d[p]
        /\ \A p : Heir(j, p, to) /\ Heir(j, p, h) /\ Heir(j, p, p)
    <3>1. to # h /\ DOMAIN d \cup {to, h} = DOMAIN d \cup {to} /\ DOMAIN d \ {to, h} = DOMAIN d \ {h}
      BY <1>20
    <3> HIDE DEF F
    <3>2. Putting(d, F, j, to, T.out, h, T.rest) /\ \A p : Heir(j, p, to) /\ Heir(j, p, h) /\ Heir(j, p, p)
      BY <1>3, <3>1, TwoPutsResult DEF F
    <3>3. QED
      BY <1>3, <3>1, <3>2 DEF Putting
  <2> HIDE DEF F
  <2>2. ASSUME NEW p \in DOMAIN d \ {h}
        PROVE  /\ Reworded(d[p], F[p])
               /\ \A i \in DOMAIN d[p].places :
                     /\ F[p].places[i].slot = d[p].places[i].slot
                     /\ At(F[p], i) = IF i \in KeysIn(outer, p) THEN PromotedLink(At(d[p], i), own, to)
                                      ELSE At(d[p], i)
    <3>1. CASE p \in Sources(outer)
      BY <1>17, <1>18, <2>1, <3>1
    <3>2. CASE p \notin Sources(outer)
      <4>1. F[p] = d[p] /\ KeysIn(outer, p) = {}
        BY <1>6, <1>18, <2>1, <3>2
      <4>2. QED
        BY <4>1, RewordedItself DEF AllProper
    <3>3. QED
      BY <3>1, <3>2
  <2>3. ASSUME NEW p \in DOMAIN d, NEW i \in DOMAIN d[p].places, p # h \/ i # k
        PROVE  LET e == F[Site(d, h, k, to, p, i)]
               IN  /\ e.places[i].slot = d[p].places[i].slot
                   /\ At(e, i) = IF Turns(d, h, k, p, i) THEN PromotedLink(At(d[p], i), At(c, k).id, to)
                                 ELSE At(d[p], i)
    <3>1. CASE p # h
      BY <1>7, <2>2, <3>1 DEF Site
    <3>2. CASE p = h /\ i \in tree
      <4>1. Site(d, h, k, to, p, i) = to /\ i \in tree \ {k}
        BY <2>3, <3>2 DEF Site
      <4>2. i \in DOMAIN inner <=> Turns(d, h, k, p, i)
        BY <1>7, <1>11, <3>2
      <4> HIDE DEF tree
      <4>3. QED
        BY <1>11, <1>15, <2>1, <3>2, <4>1, <4>2
    <3>3. CASE p = h /\ i \notin tree
      <4>1. Site(d, h, k, to, p, i) = h /\ i \in DOMAIN T.rest.places
        BY <1>15, <3>3 DEF Site
      <4>2. i \in DOMAIN left <=> Turns(d, h, k, p, i)
        BY <1>7, <1>12, <2>3, <3>3
      <4> HIDE DEF tree
      <4>3. QED
        BY <1>12, <1>15, <2>1, <2>3, <3>3, <4>1, <4>2
    <3>4. QED
      BY <3>1, <3>2, <3>3
  <2>4. ASSUME NEW p \in DOMAIN d, NEW i \in DOMAIN d[p].places,
               Turns(d, h, k, p, i), ~(p = h /\ i \in tree)
        PROVE  ~Passing(d[p], i)
    BY <1>7, <1>8, <2>4 DEF Passing
  <2>5. At(F[h], k) = WholeFile(to)
    BY <1>12, <1>15, <2>1
  <2>6. Split(d, F, h, k, to)
    <3> HIDE DEF own
    <3>1. /\ Proper(F[to]) /\ F[to].me = At(c, k).me /\ DOMAIN F[to].places = tree \ {k}
          /\ Records(F[to]) = Records(c) \cap (tree \ {k})
          /\ Proper(F[h]) /\ F[h].me = c.me /\ DOMAIN F[h].places = (DOMAIN c.places \ tree) \cup {k}
          /\ Records(F[h]) = Records(c) \ tree
      BY <1>15, <2>1
    <3>2. /\ h \in DOMAIN d /\ to \notin DOMAIN d /\ k \in Inlines(c)
          /\ to.repo = h.repo /\ ~Def(h) /\ ~Def(to) /\ Path(to)
          /\ DOMAIN F = DOMAIN d \cup {to}
      BY <1>1, <1>20, <2>1
    <3>3. \A p \in DOMAIN d \ {h} : Reworded(d[p], F[p])
      BY <2>2
    <3>4. QED
      BY <2>3, <2>4, <2>5, <3>1, <3>2, <3>3 DEF Split
  <2>7. QED
    BY <2>1, <2>6 DEF F
<1>21. QED
  BY <1>3, <1>19, <1>20 DEF j

LEMMA PromoteLeads ==
    ASSUME NEW d, AllProper(d), Distinct(d), NEW r, r.verb = "promote", NEW j,
           Split(d, Result(d, j), r.path, r.key, r.to),
           \A p : Heir(j, p, p) /\ Heir(j, p, r.path) /\ Heir(j, p, r.to)
    PROVE  Leads(d, r, j)
<1> DEFINE F == Result(d, j)
<1>1. Distinct(F)
  BY SplitDistinct
<1>2. NewHome(r) = r.to
  BY DEF NewHome
<1>3. ASSUME NEW p \in DOMAIN d, NEW i \in DOMAIN d[p].places, Reach(d, p, i) # {}, ~Spared(d, r, p, i)
      PROVE  \E q \in {p, r.path, r.to} :
                /\ q \in DOMAIN F /\ i \in DOMAIN F[q].places
                /\ \/ Reach(F, q, i) = Reach(d, p, i)
                   \/ IsLink(At(F[q], i)) /\ Bears(d, F, r.to, At(F[q], i))
  BY <1>3, SplitFollows
<1> HIDE DEF F
<1>4. QED
  BY <1>1, <1>2, <1>3 DEF Leads, F

-----------------------------------------------------------------------------
(* A file that becomes a record.                                           *)

\* Two files with no entity and no place in common.
Foreign(c, e) == Entities(c) \cap Entities(e) = {} /\ DOMAIN c.places \cap DOMAIN e.places = {}
LEMMA DistinctForeign ==
    ASSUME NEW d, AllProper(d), Distinct(d), NEW p \in DOMAIN d, NEW q \in DOMAIN d \ {p}
    PROVE  Foreign(d[p], d[q])
<1>1. /\ Entities(d[p]) \cap Entities(d[q]) = {}
      /\ {k \in DOMAIN d[p].places : k[1] # "e"} \cap DOMAIN d[q].places = {}
  BY DEF Distinct
<1>2. ASSUME NEW k \in DOMAIN d[p].places, k \in DOMAIN d[q].places
      PROVE  FALSE
  <2>1. k[1] = "e"
    BY <1>1, <1>2
  <2>2. k[2] \in Entities(d[p]) /\ k[2] \in Entities(d[q])
    BY <1>2, <2>1 DEF AllProper, Proper
  <2>3. QED
    BY <1>1, <2>2
<1>3. QED
  BY <1>1, <1>2 DEF Foreign

\* The ids that the file gets in place of those the other has too, and its own.
Renaming(c, e, g) ==
    /\ DOMAIN g = (HostBlockIds(e) \cap HostBlockIds(c)) \cup {NoId}
    /\ \A id \in DOMAIN g : g[id] # NoId /\ g[id] \notin HostBlockIds(c) /\ g[id] \notin HostBlockIds(e)
    /\ \A a, b \in DOMAIN g : g[a] = g[b] => a = b
NewId(g, id) == IF id # NoId /\ id \in DOMAIN g THEN g[id] ELSE id

LEMMA NewIdsDiffer ==
    ASSUME NEW c, NEW e, Proper(c), Proper(e), NEW g, Renaming(c, e, g)
    PROVE  /\ \A i \in Records(c) : At(c, i).id # g[NoId]
           /\ \A i \in Records(e) : NewId(g, At(e, i).id) # g[NoId]
           /\ \A i \in Records(c), j \in Records(e) :
                 At(c, i).id = NoId \/ At(c, i).id # NewId(g, At(e, j).id)
           /\ \A i \in Records(e) : \A j \in Records(e) \ {i} :
                 NewId(g, At(e, i).id) = NoId \/ NewId(g, At(e, i).id) # NewId(g, At(e, j).id)
<1>1. /\ \A i \in Records(c) : At(c, i).id # NoId => At(c, i).id \in HostBlockIds(c)
      /\ \A i \in Records(e) : At(e, i).id # NoId => At(e, i).id \in HostBlockIds(e)
  BY DEF HostBlockIds, IdsOf
<1>2. NoId \in DOMAIN g
  BY DEF Renaming
<1>3. ASSUME NEW i \in Records(e)
      PROVE  \/ At(e, i).id = NoId /\ NewId(g, At(e, i).id) = NoId
             \/ /\ At(e, i).id # NoId /\ At(e, i).id \in DOMAIN g
                /\ NewId(g, At(e, i).id) = g[At(e, i).id]
             \/ /\ At(e, i).id # NoId /\ At(e, i).id \notin DOMAIN g /\ At(e, i).id \in HostBlockIds(e)
                /\ NewId(g, At(e, i).id) = At(e, i).id /\ At(e, i).id \notin HostBlockIds(c)
  BY <1>1 DEF NewId, Renaming
<1>4. \A i \in Records(c) : At(c, i).id # g[NoId]
  BY <1>1, <1>2 DEF Renaming
<1>5. \A i \in Records(e) : NewId(g, At(e, i).id) # g[NoId]
  BY <1>2, <1>3 DEF Renaming
<1>6. \A i \in Records(c), j \in Records(e) :
         At(c, i).id = NoId \/ At(c, i).id # NewId(g, At(e, j).id)
  BY <1>1, <1>3 DEF Renaming
<1>7. ASSUME NEW i \in Records(e), NEW j \in Records(e) \ {i}
      PROVE  NewId(g, At(e, i).id) = NoId \/ NewId(g, At(e, i).id) # NewId(g, At(e, j).id)
  <2>1. At(e, i).id = NoId \/ At(e, i).id # At(e, j).id
    BY DEF Proper
  <2>2. QED
    BY <1>3, <2>1 DEF Renaming
<1>8. QED
  BY <1>4, <1>5, <1>6, <1>7

\* The places of both files in one.
Joined(c, u, v) == [c EXCEPT !.places = Over(u.places, v.places)]
LEMMA JoinShape ==
    ASSUME NEW c, NEW e, Proper(c), Proper(e), Foreign(c, e), NEW a, NEW b
    PROVE  LET w == Joined(c, Rewrite(c, a), Rewrite(e, b))
           IN  /\ DOMAIN w = {"me", "body", "places"} /\ w.me = c.me /\ w.body = c.body
               /\ DOMAIN w.places = DOMAIN c.places \cup DOMAIN e.places
               /\ \A i \in DOMAIN c.places :
                     /\ DOMAIN w.places[i] = {"in", "slot", "holds"}
                     /\ w.places[i].in = c.places[i].in /\ w.places[i].slot = c.places[i].slot
                     /\ At(w, i) = IF i \in DOMAIN a THEN a[i] ELSE At(c, i)
               /\ \A i \in DOMAIN e.places :
                     /\ DOMAIN w.places[i] = {"in", "slot", "holds"}
                     /\ w.places[i].in = e.places[i].in /\ w.places[i].slot = e.places[i].slot
                     /\ At(w, i) = IF i \in DOMAIN b THEN b[i] ELSE At(e, i)
<1> DEFINE u == Rewrite(c, a)
           v == Rewrite(e, b)
           w == Joined(c, u, v)
<1>1. /\ DOMAIN u.places = DOMAIN c.places
      /\ \A i \in DOMAIN c.places :
            /\ DOMAIN u.places[i] = {"in", "slot", "holds"}
            /\ u.places[i].in = c.places[i].in /\ u.places[i].slot = c.places[i].slot
            /\ At(u, i) = IF i \in DOMAIN a THEN a[i] ELSE At(c, i)
  BY RewriteShape
<1>2. /\ DOMAIN v.places = DOMAIN e.places
      /\ \A i \in DOMAIN e.places :
            /\ DOMAIN v.places[i] = {"in", "slot", "holds"}
            /\ v.places[i].in = e.places[i].in /\ v.places[i].slot = e.places[i].slot
            /\ At(v, i) = IF i \in DOMAIN b THEN b[i] ELSE At(e, i)
  BY RewriteShape
<1> HIDE DEF u, v
<1>3. DOMAIN c = {"me", "body", "places"}
  BY DEF Proper
<1>4. /\ DOMAIN w = {"me", "body", "places"} /\ w.me = c.me /\ w.body = c.body
      /\ w.places = Over(u.places, v.places)
  BY <1>3 DEF Joined
<1> HIDE DEF w
<1>5. /\ DOMAIN w.places = DOMAIN c.places \cup DOMAIN e.places
      /\ \A i \in DOMAIN c.places : w.places[i] = u.places[i]
      /\ \A i \in DOMAIN e.places : w.places[i] = v.places[i]
  BY <1>1, <1>2, <1>4 DEF Over, Foreign
<1>6. /\ \A i \in DOMAIN c.places : At(w, i) = At(u, i)
      /\ \A i \in DOMAIN e.places : At(w, i) = At(v, i)
  BY <1>5 DEF At
<1>7. QED
  BY <1>1, <1>2, <1>4, <1>5, <1>6 DEF u, v, w

\* A place whose link changes its words.
Reads(x, y) ==
    /\ IsLink(x) /\ DOMAIN y = LinkFields
    /\ y.name = Local => y.repo = NoRepo

\* What is written at the places of c, and at those of e.
Receives(c, a, k, me, id) ==
    /\ k \in DOMAIN a /\ a[k] = [me |-> me, id |-> id]
    /\ \A i \in DOMAIN a \ {k} : Reads(At(c, i), a[i])
GivesUp(e, b, g) ==
    /\ Records(e) \subseteq DOMAIN b
    /\ \A i \in Records(e) : b[i] = [me |-> At(e, i).me, id |-> NewId(g, At(e, i).id)]
    /\ \A i \in DOMAIN b \ Records(e) : Reads(At(e, i), b[i])

\* w has the records of both, and one more for e itself at k.
Unites(c, e, k, g, w) ==
    /\ Records(w) = Records(c) \cup Records(e) \cup {k}
    /\ k \notin Records(c) /\ k \notin Records(e) /\ Records(c) \cap Records(e) = {}
    /\ At(w, k) = [me |-> e.me, id |-> g[NoId]]
    /\ \A i \in Records(c) : At(w, i) = At(c, i)
    /\ \A i \in Records(e) : At(w, i) = [me |-> At(e, i).me, id |-> NewId(g, At(e, i).id)]
    /\ Entities(w) = Entities(c) \cup Entities(e)
    /\ \A i \in DOMAIN c.places \ {k} : /\ IsLink(At(c, i)) => IsLink(At(w, i))
                                        /\ DOMAIN At(w, i) = DOMAIN At(c, i)
    /\ \A i \in DOMAIN e.places : /\ IsLink(At(e, i)) => IsLink(At(w, i))
                                  /\ DOMAIN At(w, i) = DOMAIN At(e, i)
    /\ \A i \in DOMAIN w.places :
          IsLink(At(w, i)) /\ At(w, i).name = Local => At(w, i).repo = NoRepo

LEMMA JoinRecords ==
    ASSUME NEW c, NEW e, Proper(c), Proper(e), Foreign(c, e), NEW g, NEW a, NEW b, NEW k \in DOMAIN c.places,
           IsLink(At(c, k)), Receives(c, a, k, e.me, g[NoId]), GivesUp(e, b, g)
    PROVE  Unites(c, e, k, g, Joined(c, Rewrite(c, a), Rewrite(e, b)))
<1> DEFINE w == Joined(c, Rewrite(c, a), Rewrite(e, b))
<1>1. /\ w.me = c.me /\ DOMAIN w.places = DOMAIN c.places \cup DOMAIN e.places
      /\ \A i \in DOMAIN c.places : At(w, i) = IF i \in DOMAIN a THEN a[i] ELSE At(c, i)
      /\ \A i \in DOMAIN e.places : At(w, i) = IF i \in DOMAIN b THEN b[i] ELSE At(e, i)
  BY JoinShape
<1> HIDE DEF w
<1>2. /\ \A i \in DOMAIN c.places : IsLink(At(c, i)) => ~IsRecord(At(c, i)) /\ DOMAIN At(c, i) = LinkFields
      /\ \A i \in DOMAIN e.places : IsLink(At(e, i)) => ~IsRecord(At(e, i)) /\ DOMAIN At(e, i) = LinkFields
      /\ \A i \in DOMAIN e.places : IsRecord(At(e, i)) => DOMAIN At(e, i) = RecordFields
      /\ \A i \in DOMAIN c.places : IsLink(At(c, i)) /\ At(c, i).name = Local => At(c, i).repo = NoRepo
      /\ \A i \in DOMAIN e.places : IsLink(At(e, i)) /\ At(e, i).name = Local => At(e, i).repo = NoRepo
  BY PlaceKinds DEF Proper, LinkFields, RecordFields
<1>3. \A x : DOMAIN x = LinkFields => IsLink(x) /\ ~IsRecord(x)
  BY DEF IsLink, IsRecord, LinkFields
<1>4. \A me, id : LET x == [me |-> me, id |-> id]
                  IN  /\ IsRecord(x) /\ ~IsLink(x) /\ DOMAIN x = RecordFields
                      /\ x.me = me /\ x.id = id
  BY DEF IsLink, IsRecord, RecordFields
<1>5. ASSUME NEW i \in DOMAIN c.places \ {k}
      PROVE  /\ IsRecord(At(w, i)) <=> IsRecord(At(c, i))
             /\ IsRecord(At(c, i)) => At(w, i) = At(c, i)
             /\ IsLink(At(c, i)) => IsLink(At(w, i))
             /\ DOMAIN At(w, i) = DOMAIN At(c, i)
             /\ IsLink(At(w, i)) /\ At(w, i).name = Local => At(w, i).repo = NoRepo
  <2>1. CASE i \in DOMAIN a
    <3>1. At(w, i) = a[i] /\ Reads(At(c, i), a[i])
      BY <1>1, <2>1 DEF Receives
    <3>2. QED
      BY <1>2, <1>3, <3>1 DEF Reads
  <2>2. CASE i \notin DOMAIN a
    BY <1>1, <1>2, <2>2
  <2>3. QED
    BY <2>1, <2>2
<1>6. ASSUME NEW i \in DOMAIN e.places
      PROVE  /\ IsRecord(At(w, i)) <=> IsRecord(At(e, i))
             /\ IsRecord(At(e, i)) => At(w, i) = [me |-> At(e, i).me, id |-> NewId(g, At(e, i).id)]
             /\ IsLink(At(e, i)) => IsLink(At(w, i))
             /\ DOMAIN At(w, i) = DOMAIN At(e, i)
             /\ IsLink(At(w, i)) /\ At(w, i).name = Local => At(w, i).repo = NoRepo
  <2>1. CASE i \in Records(e)
    <3>1. At(w, i) = [me |-> At(e, i).me, id |-> NewId(g, At(e, i).id)] /\ IsRecord(At(e, i))
      BY <1>1, <2>1 DEF GivesUp, Records
    <3>2. IsRecord(At(w, i)) /\ ~IsLink(At(w, i)) /\ DOMAIN At(w, i) = RecordFields
      BY <1>4, <3>1
    <3>3. QED
      BY <1>2, <3>1, <3>2
  <2>2. CASE i \in DOMAIN b \ Records(e)
    <3>1. At(w, i) = b[i] /\ Reads(At(e, i), b[i])
      BY <1>1, <2>2 DEF GivesUp
    <3>2. QED
      BY <1>2, <1>3, <3>1 DEF Reads
  <2>3. CASE i \notin DOMAIN b /\ i \notin Records(e)
    BY <1>1, <1>2, <2>3 DEF Records
  <2>4. QED
    BY <2>1, <2>2, <2>3
<1>7. At(w, k) = [me |-> e.me, id |-> g[NoId]] /\ IsRecord(At(w, k)) /\ ~IsLink(At(w, k)) /\ ~IsRecord(At(c, k))
  BY <1>1, <1>2, <1>4 DEF Receives
<1>8. Records(w) = Records(c) \cup Records(e) \cup {k}
  <2>1. \A i : i \in Records(w) <=> i \in DOMAIN w.places /\ IsRecord(At(w, i))
    BY DEF Records
  <2>2. \A i : i \in Records(c) <=> i \in DOMAIN c.places /\ IsRecord(At(c, i))
    BY DEF Records
  <2>3. \A i : i \in Records(e) <=> i \in DOMAIN e.places /\ IsRecord(At(e, i))
    BY DEF Records
  <2>4. QED
    BY <1>1, <1>5, <1>6, <1>7, <2>1, <2>2, <2>3
<1>9. k \notin Records(c) /\ k \notin Records(e) /\ Records(c) \cap Records(e) = {}
  BY <1>7 DEF Records, Foreign
<1>10. \A i \in Records(c) : At(w, i) = At(c, i)
  BY <1>5, <1>9 DEF Records
<1>11. \A i \in Records(e) : At(w, i) = [me |-> At(e, i).me, id |-> NewId(g, At(e, i).id)]
  BY <1>6 DEF Records
<1>12. Entities(w) = Entities(c) \cup Entities(e)
  <2>1. \A i \in Records(e) : At(w, i).me = At(e, i).me
    BY <1>4, <1>11
  <2>2. At(w, k).me = e.me
    BY <1>7
  <2>3. \A m : m \in Entities(w) <=> m = c.me \/ \E i \in Records(w) : At(w, i).me = m
    BY <1>1 DEF Entities
  <2>4. /\ \A m : m \in Entities(c) <=> m = c.me \/ \E i \in Records(c) : At(c, i).me = m
        /\ \A m : m \in Entities(e) <=> m = e.me \/ \E i \in Records(e) : At(e, i).me = m
    BY DEF Entities
  <2>5. QED
    BY <1>8, <1>10, <2>1, <2>2, <2>3, <2>4
<1>13. QED
  BY <1>1, <1>5, <1>6, <1>7, <1>8, <1>9, <1>10, <1>11, <1>12 DEF w, Unites

LEMMA JoinProper ==
    ASSUME NEW c, NEW e, Proper(c), Proper(e), Foreign(c, e), NEW g, Renaming(c, e, g), NEW a, NEW b,
           NEW k \in DOMAIN c.places,
           IsLink(At(c, k)), c.places[k].slot = "amp", ~e.body,
           Receives(c, a, k, e.me, g[NoId]), GivesUp(e, b, g)
    PROVE  Proper(Joined(c, Rewrite(c, a), Rewrite(e, b)))
<1> DEFINE w == Joined(c, Rewrite(c, a), Rewrite(e, b))
<1>1. /\ DOMAIN w = {"me", "body", "places"} /\ w.me = c.me /\ w.body = c.body
      /\ DOMAIN w.places = DOMAIN c.places \cup DOMAIN e.places
      /\ \A i \in DOMAIN c.places :
            /\ DOMAIN w.places[i] = {"in", "slot", "holds"}
            /\ w.places[i].in = c.places[i].in /\ w.places[i].slot = c.places[i].slot
      /\ \A i \in DOMAIN e.places :
            /\ DOMAIN w.places[i] = {"in", "slot", "holds"}
            /\ w.places[i].in = e.places[i].in /\ w.places[i].slot = e.places[i].slot
  BY JoinShape
<1>2. /\ Records(w) = Records(c) \cup Records(e) \cup {k}
      /\ k \notin Records(c) /\ k \notin Records(e) /\ Records(c) \cap Records(e) = {}
      /\ At(w, k) = [me |-> e.me, id |-> g[NoId]]
      /\ \A i \in Records(c) : At(w, i) = At(c, i)
      /\ \A i \in Records(e) : At(w, i) = [me |-> At(e, i).me, id |-> NewId(g, At(e, i).id)]
      /\ Entities(w) = Entities(c) \cup Entities(e)
      /\ \A i \in DOMAIN c.places \ {k} : /\ IsLink(At(c, i)) => IsLink(At(w, i))
                                          /\ DOMAIN At(w, i) = DOMAIN At(c, i)
      /\ \A i \in DOMAIN e.places : /\ IsLink(At(e, i)) => IsLink(At(w, i))
                                    /\ DOMAIN At(w, i) = DOMAIN At(e, i)
      /\ \A i \in DOMAIN w.places :
            IsLink(At(w, i)) /\ At(w, i).name = Local => At(w, i).repo = NoRepo
  <2>1. Unites(c, e, k, g, w)
    BY JoinRecords
  <2> HIDE DEF w
  <2>2. QED
    BY <2>1 DEF Unites
<1> HIDE DEF w
<1>3. /\ At(w, k).me = e.me /\ At(w, k).id = g[NoId]
      /\ \A i \in Records(e) : At(w, i).me = At(e, i).me /\ At(w, i).id = NewId(g, At(e, i).id)
  BY <1>2
<1>4. \A i \in DOMAIN w.places : /\ DOMAIN w.places[i] = {"in", "slot", "holds"}
                                 /\ DOMAIN At(w, i) \in {RecordFields, LinkFields, ClaimFields}
  <2>1. DOMAIN At(w, k) = RecordFields
    BY <1>2 DEF RecordFields
  <2>2. \A i \in DOMAIN c.places : DOMAIN At(c, i) \in {RecordFields, LinkFields, ClaimFields}
    BY DEF Proper
  <2>3. \A i \in DOMAIN e.places : DOMAIN At(e, i) \in {RecordFields, LinkFields, ClaimFields}
    BY DEF Proper
  <2>4. QED
    BY <1>1, <1>2, <2>1, <2>2, <2>3
<1>5. ASSUME NEW i \in DOMAIN w.places, i[1] = "e"
      PROVE  Jot(i, w.places[i]) /\ i[2] \in Entities(w)
  <2>1. CASE i \in DOMAIN c.places
    <3>1. Jot(i, c.places[i]) /\ i[2] \in Entities(c)
      BY <1>5, <2>1 DEF Proper
    <3>2. i # k
      BY <3>1 DEF Jot
    <3>3. QED
      BY <1>1, <1>2, <2>1, <3>1, <3>2 DEF Jot, At
  <2>2. CASE i \in DOMAIN e.places
    <3>1. Jot(i, e.places[i]) /\ i[2] \in Entities(e)
      BY <1>5, <2>2 DEF Proper
    <3>2. QED
      BY <1>1, <1>2, <2>2, <3>1 DEF Jot, At
  <2>3. QED
    BY <1>1, <2>1, <2>2
<1>6. /\ \A i \in Records(c) : At(c, i).me \in Entities(c) /\ i \in DOMAIN c.places
      /\ \A i \in Records(e) : At(e, i).me \in Entities(e) /\ i \in DOMAIN e.places
      /\ c.me \in Entities(c) /\ e.me \in Entities(e)
  BY DEF Entities, Records
<1>7. /\ \A i \in Records(c) : At(c, i).me # c.me
      /\ \A i \in Records(e) : At(e, i).me # e.me
      /\ \A i \in Records(c) : c.places[i].slot = "prose" => c.body /\ c.places[i].in = c.me
      /\ \A i \in Records(e) : e.places[i].slot # "prose"
  BY DEF Proper
<1>8. \A m \in Entities(c) : m \notin Entities(e)
  BY DEF Foreign
<1>9. ASSUME NEW i \in Records(w)
      PROVE  At(w, i).me # w.me /\ (w.places[i].slot = "prose" => w.body /\ w.places[i].in = w.me)
  <2>1. CASE i \in Records(c)
    BY <1>1, <1>2, <1>6, <1>7, <2>1
  <2>2. CASE i \in Records(e)
    BY <1>1, <1>3, <1>6, <1>7, <1>8, <2>2
  <2>3. CASE i = k
    BY <1>1, <1>3, <1>6, <1>8, <2>3
  <2>4. QED
    BY <1>2, <2>1, <2>2, <2>3
<1>10. /\ \A i \in Records(c) : At(c, i).id # g[NoId]
       /\ \A i \in Records(e) : NewId(g, At(e, i).id) # g[NoId]
       /\ \A i \in Records(c), j \in Records(e) :
             At(c, i).id = NoId \/ At(c, i).id # NewId(g, At(e, j).id)
       /\ \A i \in Records(e) : \A j \in Records(e) \ {i} :
             NewId(g, At(e, i).id) = NoId \/ NewId(g, At(e, i).id) # NewId(g, At(e, j).id)
  BY NewIdsDiffer
<1>11. ASSUME NEW i \in Records(w), NEW j \in Records(w) \ {i}
       PROVE  At(w, j).me # At(w, i).me /\ (At(w, j).id = NoId \/ At(w, j).id # At(w, i).id)
  <2>1. CASE i \in Records(c) /\ j \in Records(c)
    BY <1>2, <2>1 DEF Proper
  <2>2. CASE i \in Records(e) /\ j \in Records(e)
    <3>1. At(e, j).me # At(e, i).me
      BY <1>11, <2>2 DEF Proper
    <3>2. QED
      BY <1>3, <1>10, <2>2, <3>1
  <2>3. CASE i \in Records(c) /\ j \in Records(e)
    BY <1>2, <1>3, <1>6, <1>8, <1>10, <2>3
  <2>4. CASE i \in Records(e) /\ j \in Records(c)
    BY <1>2, <1>3, <1>6, <1>8, <1>10, <2>4
  <2>5. CASE i = k
    <3>1. CASE j \in Records(c)
      BY <1>2, <1>3, <1>6, <1>8, <1>10, <2>5, <3>1
    <3>2. CASE j \in Records(e)
      BY <1>3, <1>7, <1>10, <2>5, <3>2
    <3>3. QED
      BY <1>2, <2>5, <3>1, <3>2
  <2>6. CASE j = k
    <3>1. CASE i \in Records(c)
      BY <1>2, <1>3, <1>6, <1>8, <1>10, <2>6, <3>1
    <3>2. CASE i \in Records(e)
      BY <1>3, <1>7, <1>10, <2>6, <3>2
    <3>3. QED
      BY <1>2, <2>6, <3>1, <3>2
  <2>7. QED
    BY <1>2, <2>1, <2>2, <2>3, <2>4, <2>5, <2>6
<1>12. Proper(w)
  BY <1>1, <1>2, <1>4, <1>5, <1>9, <1>11 DEF Proper
<1>13. QED
  BY <1>12 DEF w

\* What becomes of a reference to the file: a local one to its record, in the
\* two files; elsewhere one to the record in `into`.
Refers(x, y, near, into, g) ==
    /\ DOMAIN y = LinkFields
    /\ y.name = IF near THEN Local ELSE Stem(into)
    /\ y.repo = IF near THEN NoRepo ELSE x.repo
    /\ y.id = IF x.id \in DOMAIN g THEN g[x.id] ELSE x.id
    /\ y.ref = IF x.id = NoId THEN TRUE ELSE x.ref
    /\ y.pin = x.pin

Host(f, into, p) == IF p = f THEN into ELSE p

\* F is d with the file f as the record at k of `into`.
Folded(d, F, f, into, k, g) ==
    LET c == d[into]
        e == d[f]
    IN
    /\ f \in DOMAIN d /\ into \in DOMAIN d \ {f} /\ into.repo = f.repo /\ ~Def(f)
    /\ k \in Links(d, into, f) /\ Renaming(c, e, g)
    /\ DOMAIN F = DOMAIN d \ {f}
    /\ Proper(F[into]) /\ F[into].me = c.me
    /\ DOMAIN F[into].places = DOMAIN c.places \cup DOMAIN e.places
    /\ Entities(F[into]) = Entities(c) \cup Entities(e)
    /\ Records(F[into]) = Records(c) \cup Records(e) \cup {k}
    /\ At(F[into], k) = [me |-> e.me, id |-> g[NoId]]
    /\ \A i \in Records(c) : At(F[into], i) = At(c, i)
    /\ \A i \in Records(e) : At(F[into], i) = [me |-> At(e, i).me, id |-> NewId(g, At(e, i).id)]
    /\ \A p \in DOMAIN d \ {f, into} : Reworded(d[p], F[p])
    /\ \A p \in DOMAIN d : \A i \in DOMAIN d[p].places :
          LET x == At(d[p], i)
              s == F[Host(f, into, p)].places[i]
          IN  /\ IsLink(x) /\ ~(p = into /\ i = k) =>
                    /\ s.slot = d[p].places[i].slot
                    /\ IF f \in Found(d, p, x) THEN Refers(x, s.holds, p \in {f, into}, into, g)
                       ELSE s.holds = x
              /\ IsClaim(x) => s.holds = x

\* The records of d, in F.
LEMMA FoldedRecords ==
    ASSUME NEW d, AllProper(d), NEW F, NEW f, NEW into, NEW k, NEW g, Folded(d, F, f, into, k, g)
    PROVE  /\ AllProper(F)
           /\ \A p \in DOMAIN d \ {f} :
                 /\ F[p].me = d[p].me /\ Records(d[p]) \subseteq Records(F[p])
                 /\ \A j \in Records(d[p]) : At(F[p], j) = At(d[p], j)
<1>1. ASSUME NEW p \in DOMAIN d \ {f, into}
      PROVE  /\ F[p].me = d[p].me /\ Records(F[p]) = Records(d[p]) /\ Proper(F[p])
             /\ \A j \in Records(d[p]) : At(F[p], j) = At(d[p], j)
  <2>1. Reworded(d[p], F[p]) /\ Proper(d[p])
    BY DEF Folded, AllProper
  <2>2. QED
    BY <2>1, RewordedKinds DEF Reworded
<1>2. /\ F[into].me = d[into].me /\ Records(d[into]) \subseteq Records(F[into]) /\ Proper(F[into])
      /\ \A j \in Records(d[into]) : At(F[into], j) = At(d[into], j)
  BY DEF Folded
<1>3. DOMAIN F = DOMAIN d \ {f}
  BY DEF Folded
<1>4. QED
  BY <1>1, <1>2, <1>3 DEF AllProper

LEMMA FoldedDistinct ==
    ASSUME NEW d, AllProper(d), Distinct(d), NEW F, NEW f, NEW into, NEW k, NEW g,
           Folded(d, F, f, into, k, g)
    PROVE  Distinct(F)
<1>1. /\ f \in DOMAIN d /\ into \in DOMAIN d \ {f} /\ DOMAIN F = DOMAIN d \ {f}
      /\ DOMAIN F[into].places = DOMAIN d[into].places \cup DOMAIN d[f].places
      /\ Entities(F[into]) = Entities(d[into]) \cup Entities(d[f])
  BY DEF Folded
<1>2. ASSUME NEW p \in DOMAIN d \ {f, into}
      PROVE  Entities(F[p]) = Entities(d[p]) /\ DOMAIN F[p].places = DOMAIN d[p].places
  <2>1. Reworded(d[p], F[p]) /\ Proper(d[p])
    BY DEF Folded, AllProper
  <2>2. QED
    BY <2>1, RewordedKinds DEF Reworded
<1>3. ASSUME NEW q \in DOMAIN F, NEW s \in DOMAIN F \ {q}
      PROVE  /\ Entities(F[q]) \cap Entities(F[s]) = {}
             /\ {i \in DOMAIN F[q].places : i[1] # "e"} \cap DOMAIN F[s].places = {}
             /\ ~(Def(q) /\ Def(s) /\ q.repo = s.repo /\ q.stem = s.stem)
  <2>1. \A a \in DOMAIN d : \A b \in DOMAIN d \ {a} :
           /\ Entities(d[a]) \cap Entities(d[b]) = {}
           /\ {i \in DOMAIN d[a].places : i[1] # "e"} \cap DOMAIN d[b].places = {}
           /\ ~(Def(a) /\ Def(b) /\ a.repo = b.repo /\ a.stem = b.stem)
    BY DEF Distinct
  <2>2. CASE q # into /\ s # into
    BY <1>1, <1>2, <1>3, <2>1, <2>2
  <2>3. CASE q = into
    <3>1. /\ Entities(d[into]) \cap Entities(d[s]) = {} /\ Entities(d[f]) \cap Entities(d[s]) = {}
          /\ {i \in DOMAIN d[into].places : i[1] # "e"} \cap DOMAIN d[s].places = {}
          /\ {i \in DOMAIN d[f].places : i[1] # "e"} \cap DOMAIN d[s].places = {}
          /\ ~(Def(q) /\ Def(s) /\ q.repo = s.repo /\ q.stem = s.stem)
      BY <1>1, <1>3, <2>1, <2>3
    <3>2. Entities(F[s]) = Entities(d[s]) /\ DOMAIN F[s].places = DOMAIN d[s].places
      BY <1>1, <1>2, <1>3, <2>3
    <3>3. QED
      BY <1>1, <2>3, <3>1, <3>2
  <2>4. CASE s = into
    <3>1. /\ Entities(d[q]) \cap Entities(d[into]) = {} /\ Entities(d[q]) \cap Entities(d[f]) = {}
          /\ {i \in DOMAIN d[q].places : i[1] # "e"} \cap DOMAIN d[into].places = {}
          /\ {i \in DOMAIN d[q].places : i[1] # "e"} \cap DOMAIN d[f].places = {}
          /\ ~(Def(q) /\ Def(s) /\ q.repo = s.repo /\ q.stem = s.stem)
      BY <1>1, <1>3, <2>1, <2>4
    <3>2. Entities(F[q]) = Entities(d[q]) /\ DOMAIN F[q].places = DOMAIN d[q].places
      BY <1>1, <1>2, <1>3, <2>4
    <3>3. QED
      BY <1>1, <2>4, <3>1, <3>2
  <2>5. QED
    BY <2>2, <2>3, <2>4
<1>4. \A q \in DOMAIN F : Path(q)
  BY <1>1 DEF Distinct
<1>5. QED
  BY <1>3, <1>4 DEF Distinct

LEMMA FoldedPlace ==
    ASSUME NEW d, AllProper(d), NEW F, NEW f, NEW into, NEW k, NEW g, Folded(d, F, f, into, k, g),
           NEW p \in DOMAIN d, NEW i \in DOMAIN d[p].places
    PROVE  LET q == Host(f, into, p)
           IN  /\ q \in DOMAIN F /\ Proper(F[q]) /\ i \in DOMAIN F[q].places
               /\ q.repo = p.repo /\ q \in {p, into}
<1>1. /\ f \in DOMAIN d /\ into \in DOMAIN d \ {f} /\ into.repo = f.repo
      /\ DOMAIN F = DOMAIN d \ {f} /\ DOMAIN F[into].places = DOMAIN d[into].places \cup DOMAIN d[f].places
      /\ \A s \in DOMAIN d \ {f, into} : Reworded(d[s], F[s])
  BY DEF Folded
<1>2. AllProper(F)
  BY FoldedRecords
<1>3. CASE p = f
  BY <1>1, <1>2, <1>3 DEF Host, AllProper
<1>4. CASE p = into
  BY <1>1, <1>2, <1>4 DEF Host, AllProper
<1>5. CASE p # f /\ p # into
  BY <1>1, <1>2, <1>5 DEF Host, AllProper, Reworded
<1>6. QED
  BY <1>3, <1>4, <1>5

\* A reference to the file leads to its record, or to the record it led to.
LEMMA FoldedTurns ==
    ASSUME NEW d, AllProper(d), Distinct(d), NEW F, NEW f, NEW into, NEW k, NEW g,
           Folded(d, F, f, into, k, g),
           NEW p \in DOMAIN d, NEW i \in DOMAIN d[p].places, IsLink(At(d[p], i)),
           ~(p = into /\ i = k), Reach(d, p, i) # {},
           f \in Found(d, p, At(d[p], i)), ~Passing(d[p], i)
    PROVE  LET q == Host(f, into, p)
           IN  /\ IsLink(At(F[q], i))
               /\ Reach(F, q, i) = Reach(d, p, i) \/ Bears(d, F, into, At(F[q], i))
<1> DEFINE c == d[into]
           e == d[f]
           near == p \in {f, into}
           q == Host(f, into, p)
           x == At(d[p], i)
           y == At(F[q], i)
<1>1. /\ f \in DOMAIN d /\ into \in DOMAIN d \ {f} /\ into.repo = f.repo
      /\ Renaming(c, e, g) /\ DOMAIN F = DOMAIN d \ {f} /\ Proper(F[into])
      /\ Records(F[into]) = Records(c) \cup Records(e) \cup {k}
      /\ At(F[into], k) = [me |-> e.me, id |-> g[NoId]]
      /\ \A j \in Records(e) : At(F[into], j) = [me |-> At(e, j).me, id |-> NewId(g, At(e, j).id)]
  BY DEF Folded
<1>2. PICK h : Found(d, p, x) = {h} /\ h \in DOMAIN d /\ Lands(d, p, i, h)
  BY Landing
<1>3. h = f
  BY <1>2
<1>4. Home(p, x) = into.repo /\ ~x.pin
  BY <1>1, <1>2, <1>3, FoundHome
<1>5. q \in DOMAIN F /\ Proper(F[q]) /\ i \in DOMAIN F[q].places /\ q.repo = p.repo
  BY FoldedPlace
<1>6. Refers(x, y, near, into, g) /\ F[q].places[i].slot = d[p].places[i].slot
  BY DEF Folded, At
<1>7. ~IsRecord(x) /\ ~IsClaim(x)
  BY PlaceKinds DEF AllProper
<1>8. near => q = into
  BY DEF Host
<1> HIDE DEF y, x, q
<1>9. IsLink(y) /\ ~IsRecord(y) /\ ~IsClaim(y)
  BY <1>6 DEF Refers, LinkFields, IsLink, IsRecord, IsClaim
<1>10. ~y.pin /\ y.id = (IF x.id \in DOMAIN g THEN g[x.id] ELSE x.id)
       /\ y.ref = (IF x.id = NoId THEN TRUE ELSE x.ref)
  BY <1>4, <1>6 DEF Refers
<1>11. y.id # NoId
  BY <1>1, <1>10 DEF Renaming
<1>12. ~Passing(F[q], i)
  BY <1>6, <1>9, <1>10 DEF Passing, x, y
\* The record that y names.
<1>13. \E j \in Records(F[into]) : At(F[into], j).id = y.id /\ Reach(d, p, i) = {At(F[into], j).me}
  <2>1. CASE x.id = NoId
    <3>1. y.id = g[NoId]
      BY <1>1, <1>10, <2>1 DEF Renaming
    <3>2. Reach(d, p, i) = {e.me}
      BY <1>2, <1>3, <2>1 DEF Lands, x
    <3>3. At(F[into], k).id = g[NoId] /\ At(F[into], k).me = e.me
      BY <1>1
    <3>4. QED
      BY <1>1, <3>1, <3>2, <3>3
  <2>2. CASE x.id # NoId
    <3>1. PICK j \in Records(e) : At(e, j).id = x.id /\ Reach(d, p, i) = {At(e, j).me}
      BY <1>2, <1>3, <2>2 DEF Lands, x
    <3>2. At(F[into], j).me = At(e, j).me /\ At(F[into], j).id = NewId(g, x.id)
      BY <1>1, <3>1
    <3>3. y.id = NewId(g, x.id)
      BY <1>10, <2>2 DEF NewId
    <3>4. QED
      BY <1>1, <3>1, <3>2, <3>3
  <2>3. QED
    BY <2>1, <2>2
<1>14. ASSUME Found(F, q, y) = {into}
       PROVE  Reach(F, q, i) = Reach(d, p, i)
  <2>1. /\ IsLink(At(F[q], i)) /\ ~IsRecord(At(F[q], i)) /\ ~IsClaim(At(F[q], i))
        /\ Found(F, q, At(F[q], i)) = {into} /\ At(F[q], i).id = y.id /\ into \in DOMAIN F
    BY <1>1, <1>9, <1>14 DEF y
  <2>2. \A j \in Records(F[into]) : At(F[into], j).id = y.id =>
           Reach(F, q, i) = IF Passing(F[q], i) THEN {At(F[into], j).me, F[into].me} ELSE {At(F[into], j).me}
    BY <1>1, <1>11, <2>1, Arrival
  <2>3. QED
    BY <1>12, <1>13, <2>2
<1>15. CASE near
  <2>1. y.name = Local /\ q = into
    BY <1>6, <1>8, <1>15 DEF Refers
  <2>2. Found(F, q, y) = {into}
    BY <1>10, <2>1 DEF Found
  <2>3. QED
    BY <1>9, <1>14, <2>2 DEF q, y, x
<1>16. CASE ~near
  <2>1. y.name = Stem(into) /\ y.repo = x.repo
    BY <1>6, <1>16 DEF Refers
  <2>2. Home(q, y) = into.repo
    BY <1>4, <1>5, <2>1, HomeKept
  <2>3. into.stem # ""
    BY <1>1 DEF Distinct, Path
  <2>4. CASE Sole(F, into)
    <3>1. Found(F, q, y) = {into}
      BY <1>10, <2>1, <2>2, <2>4, FindsSole DEF Spellings
    <3>2. QED
      BY <1>9, <1>14, <3>1 DEF q, y, x
  <2>5. CASE ~Sole(F, into)
    <3>1. PICK s \in DOMAIN F : s.repo = into.repo /\ s.stem = into.stem /\ s # into
      BY <1>1, <2>3, <2>5 DEF Sole
    <3>2. y.name.stem = s.stem
      BY <2>1, <3>1, NameParts
    <3>3. Bears(d, F, into, y)
      BY <1>1, <3>1, <3>2 DEF Bears
    <3>4. QED
      BY <1>9, <3>3 DEF q, y, x
  <2>6. QED
    BY <2>4, <2>5
<1>17. QED
  BY <1>15, <1>16

\* A reference to another file leads where it led.
LEMMA FoldedStays ==
    ASSUME NEW d, AllProper(d), NEW F, NEW f, NEW into, NEW k, NEW g, Folded(d, F, f, into, k, g),
           NEW p \in DOMAIN d, NEW i \in DOMAIN d[p].places, IsLink(At(d[p], i)),
           Reach(d, p, i) # {}, f \notin Found(d, p, At(d[p], i))
    PROVE  LET q == Host(f, into, p)
           IN  Reach(F, q, i) = Reach(d, p, i)
<1> DEFINE q == Host(f, into, p)
           x == At(d[p], i)
           y == At(F[q], i)
<1>1. DOMAIN F = DOMAIN d \ {f} /\ k \in Links(d, into, f)
  BY DEF Folded
<1>2. PICK h : Found(d, p, x) = {h} /\ h \in DOMAIN d /\ Lands(d, p, i, h)
  BY Landing
<1>3. h # f /\ h \in DOMAIN F
  BY <1>1, <1>2
<1>4. /\ Home(p, x) = h.repo /\ ~x.pin
      /\ x.name = Local => h = p
      /\ x.name # Local => Matches(d, Home(p, x), x.name) = {h}
  BY <1>2, FoundHome
<1>5. q.repo = p.repo
  BY FoldedPlace
<1>6. y = x /\ F[q].places[i].slot = d[p].places[i].slot
  <2>1. ~(p = into /\ i = k)
    BY <1>1 DEF Links
  <2>2. QED
    BY <2>1 DEF Folded, At
<1>7. ~IsRecord(x) /\ ~IsClaim(x) /\ IsLink(x)
  BY PlaceKinds DEF AllProper
<1>8. /\ Proper(F[h]) /\ F[h].me = d[h].me /\ Records(d[h]) \subseteq Records(F[h])
      /\ \A j \in Records(d[h]) : At(F[h], j) = At(d[h], j)
  BY <1>2, <1>3, FoldedRecords DEF AllProper
<1>9. Found(F, q, x) = {h}
  <2>1. CASE x.name = Local
    <3>1. q = h
      BY <1>3, <1>4, <2>1 DEF Host
    <3>2. QED
      BY <1>4, <2>1, <3>1 DEF Found
  <2>2. CASE x.name # Local
    <3>1. Home(q, x) = Home(p, x)
      BY <1>5, HomeKept
    <3>2. x.name # Local /\ ~x.pin /\ Matches(d, Home(p, x), x.name) = {h}
          /\ \A s \in DOMAIN F \ DOMAIN d : s.repo = Home(p, x) => s.stem # x.name.stem
      BY <1>1, <1>4, <2>2
    <3> HIDE DEF x, q
    <3>3. QED
      BY <1>3, <3>1, <3>2, FindsKept
  <2>3. QED
    BY <2>1, <2>2
<1>10. Passing(F[q], i) <=> Passing(d[p], i)
  BY <1>6 DEF Passing
<1>11. /\ IsLink(At(F[q], i)) /\ ~IsRecord(At(F[q], i)) /\ ~IsClaim(At(F[q], i))
       /\ Found(F, q, At(F[q], i)) = {h} /\ At(F[q], i).id = x.id
  BY <1>6, <1>7, <1>9
<1> HIDE DEF q, x, y
<1>12. QED
  <2>1. IsLink(At(d[p], i)) /\ Found(d, p, At(d[p], i)) = {h} /\ At(d[p], i).id = x.id
    BY <1>2 DEF x
  <2>2. \A j \in Records(d[h]) : At(d[h], j).id = At(d[p], i).id =>
           j \in Records(F[h]) /\ At(F[h], j).id = At(F[q], i).id /\ At(F[h], j).me = At(d[h], j).me
    BY <1>8, <1>11, <2>1
  <2>3. /\ h \in DOMAIN F /\ Proper(F[h]) /\ F[h].me = d[h].me
        /\ At(F[q], i).id = NoId <=> At(d[p], i).id = NoId
    BY <1>3, <1>8, <1>11, <2>1
  <2>4. Reach(F, q, i) = Reach(d, p, i)
    BY <1>10, <1>11, <2>1, <2>2, <2>3, SameLanding
  <2>5. QED
    BY <2>4 DEF q

LEMMA FoldFollows ==
    ASSUME NEW d, AllProper(d), Distinct(d), NEW F, NEW f, NEW into, NEW k, NEW g,
           Folded(d, F, f, into, k, g),
           NEW r, r.verb = "inline", r.path = f, r.to = into, r.key = k,
           NEW p \in DOMAIN d, NEW i \in DOMAIN d[p].places,
           Reach(d, p, i) # {}, ~Spared(d, r, p, i)
    PROVE  \E q \in {p, into} :
              /\ q \in DOMAIN F /\ i \in DOMAIN F[q].places
              /\ \/ Reach(F, q, i) = Reach(d, p, i)
                 \/ IsLink(At(F[q], i)) /\ Bears(d, F, into, At(F[q], i))
<1> DEFINE q == Host(f, into, p)
           x == At(d[p], i)
           y == At(F[q], i)
<1>1. /\ f \in DOMAIN d /\ into \in DOMAIN d \ {f} /\ into.repo = f.repo /\ ~Def(f)
      /\ k \in Links(d, into, f) /\ DOMAIN F = DOMAIN d \ {f}
      /\ At(F[into], k) = [me |-> d[f].me, id |-> g[NoId]]
      /\ \A j \in Records(d[f]) : At(F[into], j).me = At(d[f], j).me /\ IsRecord(At(F[into], j))
  BY DEF Folded, IsRecord
<1>2. q \in DOMAIN F /\ i \in DOMAIN F[q].places /\ q.repo = p.repo /\ q \in {p, into}
  BY FoldedPlace
<1>3. CASE IsRecord(x)
  <2>1. i \in Records(d[p])
    BY <1>3 DEF Records
  <2>2. IsRecord(y) /\ y.me = x.me
    <3>1. CASE p = f
      BY <1>1, <2>1, <3>1 DEF Host
    <3>2. CASE p # f
      BY <1>3, <2>1, <3>2, FoldedRecords DEF Host
    <3>3. QED
      BY <3>1, <3>2
  <2>3. Reach(F, q, i) = Reach(d, p, i)
    BY <1>3, <2>2, RecordReach
  <2> HIDE DEF q
  <2>4. QED
    BY <1>2, <2>3
<1>4. CASE IsClaim(x)
  <2>1. ~IsLink(x) /\ ~IsRecord(x)
    BY <1>4, PlaceKinds DEF AllProper
  <2>2. y = x
    BY <1>4 DEF Folded, At
  <2>3. Reach(d, p, i) = {d[s].me : s \in Claimed(d, p, x)}
    BY <1>4, <2>1, ClaimReach
  <2>4. Reach(F, q, i) = {F[s].me : s \in Claimed(F, q, x)}
    <3> HIDE DEF q, x
    <3>1. QED
      BY <1>4, <2>1, <2>2, ClaimReach DEF y
  <2>5. Home(q, x) = Home(p, x)
    BY <1>2, HomeKept
  <2>6. Claimed(F, q, x) = Claimed(d, p, x)
    BY <1>1, <2>5 DEF Claimed
  <2>7. \A s \in Claimed(d, p, x) : F[s].me = d[s].me
    <3>1. \A s \in Claimed(d, p, x) : s \in DOMAIN d \ {f}
      BY <1>1 DEF Claimed
    <3>2. \A s \in DOMAIN d \ {f} : F[s].me = d[s].me
      BY FoldedRecords
    <3>3. QED
      BY <3>1, <3>2
  <2> HIDE DEF q, x, y
  <2>8. Reach(F, q, i) = Reach(d, p, i)
    BY <2>3, <2>4, <2>6, <2>7
  <2>9. QED
    BY <1>2, <2>8
<1>5. CASE IsLink(x) /\ p = into /\ i = k
  <2>1. x.id = NoId
    BY <1>5 DEF Spared
  <2>2. PICK h : Found(d, p, x) = {h} /\ Lands(d, p, i, h)
    BY <1>5, Landing
  <2>3. h = f
    BY <1>1, <1>5, <2>2 DEF Links
  <2>4. Reach(d, p, i) = {d[f].me}
    BY <2>1, <2>2, <2>3 DEF Lands
  <2>5. IsRecord(At(F[into], k)) /\ At(F[into], k).me = d[f].me
    BY <1>1 DEF IsRecord
  <2>6. Reach(F, into, k) = {d[f].me}
    BY <2>5, RecordReach
  <2>7. into \in DOMAIN F /\ k \in DOMAIN F[into].places
    BY <1>2, <1>5 DEF Host
  <2>8. QED
    BY <1>5, <2>4, <2>6, <2>7
<1>6. CASE IsLink(x) /\ ~(p = into /\ i = k)
  <2>1. \/ Reach(F, q, i) = Reach(d, p, i)
        \/ IsLink(At(F[q], i)) /\ Bears(d, F, into, At(F[q], i))
    <3>1. CASE f \in Found(d, p, x)
      <4>1. ~Passing(d[p], i)
        BY <3>1 DEF Spared
      <4>2. QED
        BY <1>6, <3>1, <4>1, FoldedTurns
    <3>2. CASE f \notin Found(d, p, x)
      BY <1>6, <3>2, FoldedStays
    <3>3. QED
      BY <3>1, <3>2
  <2> HIDE DEF q
  <2>2. QED
    BY <1>2, <2>1
<1>7. QED
  BY <1>3, <1>4, <1>5, <1>6, PlaceKinds DEF AllProper

PutRemove(j, a, e, b) == j.last = <<Put(a, e), Remove(b)>>
Merging(d, F, j, a, e, b) ==
    /\ DOMAIN F = DOMAIN d \ {b} /\ F[a] = e
    /\ \A p \in DOMAIN d \ {a, b} :
          F[p] = IF p \in DOMAIN j.rewrite THEN j.rewrite[p] ELSE d[p]
LEMMA PutRemoveResult ==
    ASSUME NEW d, NEW j, NEW a \in DOMAIN d, NEW e, NEW b, a # b, PutRemove(j, a, e, b)
    PROVE  /\ Merging(d, Result(d, j), j, a, e, b)
           /\ \A p : Heir(j, p, a) /\ Heir(j, p, p)
           /\ Proper(e) => \A i \in DOMAIN j.last : j.last[i].op = "put" => Proper(j.last[i].file)
<1> DEFINE F == Result(d, j)
           A == Amended(d, DOMAIN j.rewrite, j)
           v == Put(a, e)
           w == Remove(b)
<1>1. j.last = <<v, w>>
  BY DEF PutRemove
<1>2. v.op = "put" /\ v.to = a /\ v.file = e /\ w.op = "remove" /\ w.from = b
  BY DEF Put, Remove
<1>3. /\ DOMAIN A = DOMAIN d
      /\ \A p \in DOMAIN d : A[p] = IF p \in DOMAIN j.rewrite THEN j.rewrite[p] ELSE d[p]
  BY DEF Amended
<1> HIDE DEF A, v, w
<1>4. F = Wrote(Wrote(A, v), w)
  BY <1>1, EndingOfTwo DEF Result, A
<1> DEFINE G == Over(Only(a, e), A)
<1>5. F = Restrict(G, DOMAIN G \ {b})
  BY <1>2, <1>4 DEF Wrote
<1>6. DOMAIN G = DOMAIN d /\ G[a] = e /\ \A p \in DOMAIN d \ {a} : G[p] = A[p]
  BY <1>3 DEF Over, Only
<1> HIDE DEF F, G
<1>7. DOMAIN F = DOMAIN d \ {b} /\ F[a] = e /\ \A p \in DOMAIN d \ {a, b} : F[p] = A[p]
  BY <1>5, <1>6 DEF Restrict
<1>8. DOMAIN j.last = {1, 2} /\ j.last[1] = v /\ j.last[2] = w
  BY <1>1, Tails
<1>9. ASSUME NEW p
      PROVE  Heir(j, p, a) /\ Heir(j, p, p)
  BY <1>2, <1>8 DEF Heir, Bequeaths
<1>10. Proper(e) => \A i \in DOMAIN j.last : j.last[i].op = "put" => Proper(j.last[i].file)
  BY <1>2, <1>8
<1>11. QED
  BY <1>3, <1>7, <1>9, <1>10 DEF F, Merging

LEMMA FreshRenaming ==
    ASSUME NEW d, NEW f, NEW into, Renamings(d, f, into) # {}, NoId \notin FreshIds
    PROVE  Renaming(d[into], d[f], FreshFor(d, f, into))
<1> DEFINE g == FreshFor(d, f, into)
           taken == HostBlockIds(d[f]) \cup HostBlockIds(d[into])
           both  == (HostBlockIds(d[f]) \cap HostBlockIds(d[into])) \cup {NoId}
<1>1. g \in Renamings(d, f, into)
  BY DEF FreshFor
<1>2. g \in [both -> FreshIds \ taken] /\ IsInjective(g)
  BY <1>1 DEF Renamings
<1> HIDE DEF g
<1>3. \A a, b \in DOMAIN g : g[a] = g[b] => a = b
  BY <1>2 DEF IsInjective
<1>4. DOMAIN g = both /\ \A id \in both : g[id] \in FreshIds /\ g[id] \notin taken
  BY <1>2
<1>5. QED
  BY <1>3, <1>4 DEF Renaming, g

\* A reference rewritten by inline.
LEMMA RehomedParts ==
    ASSUME NEW x, DOMAIN x = LinkFields, NEW g, NEW into, Path(into)
    PROVE  /\ Refers(x, [Rehomed(x, g) EXCEPT !.name = Local, !.repo = NoRepo], TRUE, into, g)
           /\ Refers(x, [Rehomed(x, g) EXCEPT !.name = Stem(into)], FALSE, into, g)
           /\ Stem(into) # Local
<1> DEFINE z == Rehomed(x, g)
<1>1. /\ DOMAIN z = LinkFields /\ z.name = x.name /\ z.repo = x.repo /\ z.pin = x.pin
      /\ z.id = IF x.id \in DOMAIN g THEN g[x.id] ELSE x.id
      /\ z.ref = IF x.id = NoId THEN TRUE ELSE x.ref
  BY DEF Rehomed, LinkFields
<1> HIDE DEF z
<1>2. Refers(x, [z EXCEPT !.name = Local, !.repo = NoRepo], TRUE, into, g)
  BY <1>1 DEF Refers, LinkFields
<1>3. Refers(x, [z EXCEPT !.name = Stem(into)], FALSE, into, g)
  BY <1>1 DEF Refers, LinkFields
<1>4. Stem(into) # Local
  BY NameParts DEF Path
<1>5. QED
  BY <1>2, <1>3, <1>4 DEF z

LEMMA RecordWithId ==
    ASSUME NEW x, DOMAIN x = RecordFields, NEW g
    PROVE  [x EXCEPT !.id = IF @ # NoId /\ @ \in DOMAIN g THEN g[@] ELSE @]
              = [me |-> x.me, id |-> NewId(g, x.id)]
<1> DEFINE v == NewId(g, x.id)
<1>1. v = IF x.id # NoId /\ x.id \in DOMAIN g THEN g[x.id] ELSE x.id
  BY DEF NewId
<1>2. [x EXCEPT !.id = IF @ # NoId /\ @ \in DOMAIN g THEN g[@] ELSE @] = [x EXCEPT !.id = v]
  BY <1>1
<1> HIDE DEF v
<1>3. [x EXCEPT !.id = v] = [me |-> x.me, id |-> v]
  BY DEF RecordFields
<1>4. QED
  BY <1>2, <1>3 DEF v

LEMMA InlineFolds ==
    ASSUME NEW d, AllProper(d), Distinct(d), NEW f \in DOMAIN d, NEW into \in DOMAIN d, NEW k,
           NoId \notin FreshIds, Inline(d, f, into, k) # Refused
    PROVE  LET j == Inline(d, f, into, k)
           IN  /\ Sensible(d, j)
               /\ \E g : Folded(d, Result(d, j), f, into, k, g)
               /\ \A p : Heir(j, p, p) /\ Heir(j, p, into)
<1> DEFINE c     == d[into]
           e     == d[f]
           bls   == Backlinks(d, f)
           g     == FreshFor(d, f, into)
           cross == {b \in bls : b[1] \notin {f, into}}
           near(p) == [i \in KeysIn(bls, p) |->
                         [Rehomed(At(d[p], i), g) EXCEPT !.name = Local, !.repo = NoRepo]]
           far(p)  == [i \in KeysIn(bls, p) |->
                         [Rehomed(At(d[p], i), g) EXCEPT !.name = Stem(into)]]
           ids   == [i \in Records(e) |->
                         [At(e, i) EXCEPT !.id = IF @ # NoId /\ @ \in DOMAIN g THEN g[@] ELSE @]]
           rec   == Only(k, [me |-> e.me, id |-> g[NoId]])
           a     == Over(rec, near(into))
           b     == Over(ids, near(f))
           w     == Joined(c, Rewrite(c, a), Rewrite(e, b))
           rewrite == [p \in Sources(cross) |-> Rewrite(d[p], far(p))]
           j     == Inline(d, f, into, k)
<1>1. /\ f # into /\ ~Def(f) /\ into.repo = f.repo /\ ~e.body /\ Renamings(d, f, into) # {}
      /\ <<into, k>> \in bls /\ c.places[k].slot = "amp"
  BY DEF Inline
<1>2. j = Job({into, f}, {}, rewrite, Spans(cross), <<Put(into, w), Remove(f)>>, {into, f})
  BY DEF Inline, Joined
<1> HIDE DEF j, w, rewrite
<1>3. PutRemove(j, into, w, f) /\ j.rewrite = rewrite
  BY <1>2 DEF Job, PutRemove
<1>3a. Loose(d, j.spans)
  <2>1. j.spans = Spans(cross) /\ cross \in SUBSET Backlinks(d, f)
    BY <1>2 DEF Job
  <2> HIDE DEF cross
  <2>2. QED
    BY <2>1, SpansLoose
<1>4. Proper(c) /\ Proper(e) /\ Foreign(c, e)
  BY <1>1, DistinctForeign DEF AllProper
<1>5. Renaming(c, e, g)
  BY <1>1, FreshRenaming
<1>6. Path(into)
  BY DEF Distinct
<1> HIDE DEF g
\* The references to the file.
<1>7. /\ k \in Links(d, into, f) /\ k \in DOMAIN c.places /\ IsLink(At(c, k))
      /\ k \in KeysIn(bls, into)
  <2>1. k \in Links(d, into, f)
    BY <1>1, BacklinkPairs
  <2>2. QED
    BY <2>1, BacklinkKeys, LinksPart
<1>8. ASSUME NEW p \in DOMAIN d, NEW i
      PROVE  i \in KeysIn(bls, p) <=>
                i \in DOMAIN d[p].places /\ IsLink(At(d[p], i)) /\ f \in Found(d, p, At(d[p], i))
  <2>1. KeysIn(bls, p) = Links(d, p, f)
    BY BacklinkKeys
  <2>2. QED
    BY <2>1 DEF Links
<1>9. ASSUME NEW p \in DOMAIN d, NEW i \in KeysIn(bls, p)
      PROVE  /\ i \in DOMAIN d[p].places /\ IsLink(At(d[p], i)) /\ ~IsRecord(At(d[p], i)) /\ ~At(d[p], i).pin
             /\ DOMAIN At(d[p], i) = LinkFields
             /\ Refers(At(d[p], i), near(p)[i], TRUE, into, g)
             /\ Refers(At(d[p], i), far(p)[i], FALSE, into, g)
             /\ Reads(At(d[p], i), near(p)[i])
             /\ DOMAIN far(p)[i] = LinkFields /\ far(p)[i].name # Local
  <2>1. i \in DOMAIN d[p].places /\ IsLink(At(d[p], i)) /\ ~At(d[p], i).pin
    <3>1. KeysIn(bls, p) = Links(d, p, f)
      BY BacklinkKeys
    <3>2. QED
      BY <3>1, LinksPart
  <2>2. ~IsRecord(At(d[p], i)) /\ DOMAIN At(d[p], i) = LinkFields
    BY <2>1, PlaceKinds DEF AllProper, LinkFields
  <2> DEFINE y == near(p)[i]
             z == far(p)[i]
  <2>3. /\ y = [Rehomed(At(d[p], i), g) EXCEPT !.name = Local, !.repo = NoRepo]
        /\ z = [Rehomed(At(d[p], i), g) EXCEPT !.name = Stem(into)]
    OBVIOUS
  <2> HIDE DEF y, z
  <2>4. /\ Refers(At(d[p], i), y, TRUE, into, g)
        /\ Refers(At(d[p], i), z, FALSE, into, g)
        /\ Stem(into) # Local
    BY <1>6, <2>2, <2>3, RehomedParts
  <2>5. Reads(At(d[p], i), y) /\ DOMAIN z = LinkFields /\ z.name # Local
    BY <2>1, <2>4 DEF Reads, Refers
  <2>6. QED
    BY <2>1, <2>2, <2>4, <2>5 DEF y, z
<1>10. \A p : DOMAIN near(p) = KeysIn(bls, p) /\ DOMAIN far(p) = KeysIn(bls, p)
  OBVIOUS
<1>11. /\ \A p : p \in Sources(cross) <=> p \notin {f, into} /\ KeysIn(bls, p) # {}
       /\ \A p \in Sources(cross) : p \in DOMAIN d
  <2>1. cross \in SUBSET Backlinks(d, f) /\ bls \in SUBSET Backlinks(d, f)
    OBVIOUS
  <2>2. \A p, i : <<p, i>> \in cross <=> <<p, i>> \in bls /\ p \notin {f, into}
    <3>1. \A p, i : <<p, i>>[1] = p
      OBVIOUS
    <3>2. QED
      BY <3>1
  <2> HIDE DEF cross, bls
  <2>3. /\ \A p, i : i \in KeysIn(cross, p) <=> <<p, i>> \in cross
        /\ \A p : p \in Sources(cross) <=> KeysIn(cross, p) # {}
        /\ \A p : \A i \in KeysIn(cross, p) : p \in DOMAIN d
    BY <2>1, KeysOf
  <2>4. \A p, i : i \in KeysIn(bls, p) <=> <<p, i>> \in bls
    BY <2>1, KeysOf
  <2>5. QED
    BY <2>2, <2>3, <2>4
<1> HIDE DEF near, far, bls, cross
\* The two files in one.
<1>12. /\ DOMAIN a = KeysIn(bls, into) /\ a[k] = [me |-> e.me, id |-> g[NoId]]
       /\ \A i \in KeysIn(bls, into) \ {k} : a[i] = near(into)[i]
  BY <1>7, <1>10 DEF Over, Only
<1>13. /\ DOMAIN ids = Records(e)
       /\ \A i \in Records(e) : ids[i] = [me |-> At(e, i).me, id |-> NewId(g, At(e, i).id)]
  <2>1. ASSUME NEW i \in Records(e)
        PROVE  DOMAIN At(e, i) = RecordFields
    BY <1>4, PlaceKinds DEF Records, RecordFields
  <2>2. ASSUME NEW i \in Records(e)
        PROVE  ids[i] = [me |-> At(e, i).me, id |-> NewId(g, At(e, i).id)]
    <3> DEFINE x == At(e, i)
    <3>1. DOMAIN x = RecordFields
      BY <2>1
    <3>2. ids[i] = [x EXCEPT !.id = IF @ # NoId /\ @ \in DOMAIN g THEN g[@] ELSE @]
      OBVIOUS
    <3> HIDE DEF x, ids
    <3>3. QED
      BY <3>1, <3>2, RecordWithId DEF x
  <2>3. QED
    BY <2>2
<1> HIDE DEF ids
<1>14. \A i \in KeysIn(bls, f) : i \notin Records(e)
  BY <1>9 DEF Records
<1>15. /\ DOMAIN b = Records(e) \cup KeysIn(bls, f)
       /\ \A i \in Records(e) : b[i] = [me |-> At(e, i).me, id |-> NewId(g, At(e, i).id)]
       /\ \A i \in KeysIn(bls, f) : b[i] = near(f)[i]
  BY <1>10, <1>13, <1>14 DEF Over
<1> HIDE DEF a, b
<1>16. Receives(c, a, k, e.me, g[NoId])
  BY <1>7, <1>9, <1>12 DEF Receives
<1>17. GivesUp(e, b, g)
  BY <1>9, <1>15 DEF GivesUp
<1>18. /\ w.me = c.me /\ DOMAIN w.places = DOMAIN c.places \cup DOMAIN e.places
       /\ \A i \in DOMAIN c.places :
             /\ w.places[i].slot = c.places[i].slot
             /\ At(w, i) = IF i \in DOMAIN a THEN a[i] ELSE At(c, i)
       /\ \A i \in DOMAIN e.places :
             /\ w.places[i].slot = e.places[i].slot
             /\ At(w, i) = IF i \in DOMAIN b THEN b[i] ELSE At(e, i)
  BY <1>4, JoinShape DEF w
<1>19. /\ Records(w) = Records(c) \cup Records(e) \cup {k}
       /\ At(w, k) = [me |-> e.me, id |-> g[NoId]]
       /\ \A i \in Records(c) : At(w, i) = At(c, i)
       /\ \A i \in Records(e) : At(w, i) = [me |-> At(e, i).me, id |-> NewId(g, At(e, i).id)]
       /\ Entities(w) = Entities(c) \cup Entities(e)
  <2>1. Unites(c, e, k, g, w)
    BY <1>4, <1>7, <1>16, <1>17, JoinRecords DEF w
  <2>2. QED
    BY <2>1 DEF Unites
<1>20. Proper(w)
  BY <1>1, <1>4, <1>5, <1>7, <1>16, <1>17, JoinProper DEF w
\* The files of others.
<1>21. ASSUME NEW p \in Sources(cross)
       PROVE  /\ p \in DOMAIN d /\ Reworded(d[p], rewrite[p])
              /\ \A i \in DOMAIN d[p].places :
                    /\ rewrite[p].places[i].slot = d[p].places[i].slot
                    /\ At(rewrite[p], i) = IF i \in KeysIn(bls, p) THEN far(p)[i] ELSE At(d[p], i)
  <2>1. rewrite[p] = Rewrite(d[p], far(p))
    BY <1>10 DEF rewrite
  <2>2. PICK i \in KeysIn(bls, p) : TRUE
    BY <1>11
  <2>3. p \in DOMAIN d /\ Proper(d[p])
    BY <1>11 DEF AllProper
  <2>4. \A s \in DOMAIN far(p) \cap DOMAIN d[p].places :
           /\ ~IsRecord(At(d[p], s)) /\ DOMAIN far(p)[s] = DOMAIN At(d[p], s)
           /\ IsLink(far(p)[s]) /\ far(p)[s].name = Local => far(p)[s].repo = NoRepo
    BY <1>9, <1>10, <2>3
  <2>5. Reworded(d[p], Rewrite(d[p], far(p)))
    BY <2>3, <2>4, RewriteReworded
  <2>6. \A s \in DOMAIN d[p].places :
           /\ Rewrite(d[p], far(p)).places[s].slot = d[p].places[s].slot
           /\ At(Rewrite(d[p], far(p)), s) = IF s \in DOMAIN far(p) THEN far(p)[s] ELSE At(d[p], s)
    BY <2>3, RewriteShape
  <2>7. QED
    <3>1. \A s \in DOMAIN d[p].places :
             /\ rewrite[p].places[s].slot = d[p].places[s].slot
             /\ At(rewrite[p], s) = IF s \in KeysIn(bls, p) THEN far(p)[s] ELSE At(d[p], s)
      BY <1>10, <2>1, <2>6
    <3>2. QED
      BY <2>1, <2>3, <2>5, <3>1
<1>22. DOMAIN rewrite = Sources(cross)
  BY DEF rewrite
<1> DEFINE F == Result(d, j)
<1>23. /\ Merging(d, F, j, into, w, f)
       /\ \A p : Heir(j, p, into) /\ Heir(j, p, p)
       /\ \A i \in DOMAIN j.last : j.last[i].op = "put" => Proper(j.last[i].file)
  BY <1>1, <1>3, <1>20, PutRemoveResult
<1> HIDE DEF F
<1>24. /\ DOMAIN F = DOMAIN d \ {f} /\ F[into] = w
       /\ \A p \in DOMAIN d \ {f, into} : F[p] = IF p \in DOMAIN rewrite THEN rewrite[p] ELSE d[p]
  BY <1>3, <1>23 DEF Merging
<1>25. Sensible(d, j)
  BY <1>3, <1>3a, <1>21, <1>22, <1>23 DEF Sensible
<1>26. ASSUME NEW p \in DOMAIN d \ {f, into}
       PROVE  /\ Reworded(d[p], F[p])
              /\ \A i \in DOMAIN d[p].places :
                    /\ F[p].places[i].slot = d[p].places[i].slot
                    /\ At(F[p], i) = IF i \in KeysIn(bls, p) THEN far(p)[i] ELSE At(d[p], i)
  <2>1. CASE p \in Sources(cross)
    BY <1>21, <1>22, <1>24, <2>1
  <2>2. CASE p \notin Sources(cross)
    <3>1. F[p] = d[p] /\ KeysIn(bls, p) = {}
      BY <1>11, <1>22, <1>24, <2>2
    <3>2. QED
      BY <3>1, RewordedItself DEF AllProper
  <2>3. QED
    BY <2>1, <2>2
<1>27. ASSUME NEW p \in DOMAIN d, NEW i \in DOMAIN d[p].places, IsLink(At(d[p], i)), ~(p = into /\ i = k)
       PROVE  LET s == F[Host(f, into, p)].places[i]
              IN  /\ s.slot = d[p].places[i].slot
                  /\ IF f \in Found(d, p, At(d[p], i))
                     THEN Refers(At(d[p], i), s.holds, p \in {f, into}, into, g) ELSE s.holds = At(d[p], i)
  <2> DEFINE q == Host(f, into, p)
             n == p \in {f, into}
             new == IF n THEN near(p) ELSE far(p)
  <2>1. /\ F[q].places[i].slot = d[p].places[i].slot
        /\ At(F[q], i) = IF i \in KeysIn(bls, p) THEN new[i] ELSE At(d[p], i)
    <3>1. CASE p = f
      <4>1. q = into /\ new = near(f)
        BY <3>1 DEF Host
      <4>2. i \notin Records(e)
        BY <1>4, <1>27, <3>1, PlaceKinds DEF Records
      <4>3. QED
        BY <1>15, <1>18, <1>24, <3>1, <4>1, <4>2
    <3>2. CASE p = into
      <4>1. q = into /\ new = near(into)
        BY <1>1, <3>2 DEF Host
      <4>2. QED
        BY <1>12, <1>18, <1>24, <1>27, <3>2, <4>1
    <3>3. CASE p \notin {f, into}
      <4>1. q = p /\ new = far(p)
        BY <3>3 DEF Host
      <4>2. QED
        BY <1>26, <3>3, <4>1
    <3>4. QED
      BY <3>1, <3>2, <3>3
  <2>2. i \in KeysIn(bls, p) <=> f \in Found(d, p, At(d[p], i))
    BY <1>8, <1>27
  <2>3. i \in KeysIn(bls, p) => Refers(At(d[p], i), new[i], n, into, g)
    <3>1. CASE n
      BY <1>9, <3>1
    <3>2. CASE ~n
      <4>1. n = FALSE /\ new = far(p)
        BY <3>2
      <4> HIDE DEF n, new
      <4>2. QED
        BY <1>9, <4>1
    <3>3. QED
      BY <3>1, <3>2
  <2> HIDE DEF q, new, n
  <2>4. CASE i \in KeysIn(bls, p)
    BY <2>1, <2>2, <2>3, <2>4 DEF At, q, n
  <2>5. CASE i \notin KeysIn(bls, p)
    BY <2>1, <2>2, <2>5 DEF At, q, n
  <2>6. QED
    BY <2>4, <2>5
<1>28. ASSUME NEW p \in DOMAIN d, NEW i \in DOMAIN d[p].places, IsClaim(At(d[p], i))
       PROVE  F[Host(f, into, p)].places[i].holds = At(d[p], i)
  <2>1. ~IsLink(At(d[p], i)) /\ ~IsRecord(At(d[p], i))
    BY <1>28, PlaceKinds DEF AllProper
  <2>2. i \notin KeysIn(bls, p)
    BY <1>9, <2>1
  <2>3. At(F[Host(f, into, p)], i) = At(d[p], i)
    <3>1. CASE p = f
      <4>1. i \notin Records(e)
        BY <2>1, <3>1 DEF Records
      <4>2. QED
        BY <1>15, <1>18, <1>24, <2>2, <3>1, <4>1 DEF Host
    <3>2. CASE p = into
      BY <1>1, <1>12, <1>18, <1>24, <2>2, <3>2 DEF Host
    <3>3. CASE p \notin {f, into}
      BY <1>26, <2>2, <3>3 DEF Host
    <3>4. QED
      BY <3>1, <3>2, <3>3
  <2>4. QED
    BY <2>3 DEF At
<1>29. Folded(d, F, f, into, k, g)
  <2>1. /\ f \in DOMAIN d /\ into \in DOMAIN d \ {f} /\ into.repo = f.repo /\ ~Def(f)
        /\ k \in Links(d, into, f) /\ Renaming(c, e, g) /\ DOMAIN F = DOMAIN d \ {f}
    BY <1>1, <1>5, <1>7, <1>24
  <2>2. /\ Proper(F[into]) /\ F[into].me = c.me
        /\ DOMAIN F[into].places = DOMAIN c.places \cup DOMAIN e.places
        /\ Entities(F[into]) = Entities(c) \cup Entities(e)
        /\ Records(F[into]) = Records(c) \cup Records(e) \cup {k}
        /\ At(F[into], k) = [me |-> e.me, id |-> g[NoId]]
        /\ \A i \in Records(c) : At(F[into], i) = At(c, i)
        /\ \A i \in Records(e) : At(F[into], i) = [me |-> At(e, i).me, id |-> NewId(g, At(e, i).id)]
    BY <1>18, <1>19, <1>20, <1>24
  <2>3. \A p \in DOMAIN d \ {f, into} : Reworded(d[p], F[p])
    BY <1>26
  <2>4. QED
    BY <1>27, <1>28, <2>1, <2>2, <2>3 DEF Folded
<1>30. QED
  BY <1>23, <1>25, <1>29 DEF F, j

LEMMA InlineLeads ==
    ASSUME NEW d, AllProper(d), Distinct(d), NEW r, r.verb = "inline", NEW j, NEW g,
           Folded(d, Result(d, j), r.path, r.to, r.key, g),
           \A p : Heir(j, p, p) /\ Heir(j, p, r.to)
    PROVE  Leads(d, r, j)
<1> DEFINE F == Result(d, j)
<1>1. Distinct(F)
  BY FoldedDistinct
<1>2. NewHome(r) = r.to
  BY DEF NewHome
<1>3. ASSUME NEW p \in DOMAIN d, NEW i \in DOMAIN d[p].places, Reach(d, p, i) # {}, ~Spared(d, r, p, i)
      PROVE  \E q \in {p, r.to} :
                /\ q \in DOMAIN F /\ i \in DOMAIN F[q].places
                /\ \/ Reach(F, q, i) = Reach(d, p, i)
                   \/ IsLink(At(F[q], i)) /\ Bears(d, F, r.to, At(F[q], i))
  BY <1>3, FoldFollows
<1> HIDE DEF F
<1>4. QED
  BY <1>1, <1>2, <1>3 DEF Leads, F

LEMMA MoveLeads ==
    ASSUME NEW d, AllProper(d), Distinct(d), NEW r, NEW j, NEW from, NEW to,
           OneMove(j, from, to), Renames(d, from, to),
           Relabelled(d, Result(d, j), from, to), NewHome(r) = to
    PROVE  Leads(d, r, j)
<1> DEFINE F == Result(d, j)
<1>1. Distinct(F)
  BY RelabelledDistinct
<1>2. ASSUME NEW p \in DOMAIN d, NEW k \in DOMAIN d[p].places, Reach(d, p, k) # {}
      PROVE  LET q == Moved(p, from, to)
             IN  /\ q \in DOMAIN F /\ k \in DOMAIN F[q].places
                 /\ \/ Reach(F, q, k) = Reach(d, p, k)
                    \/ IsLink(At(F[q], k)) /\ Bears(d, F, to, At(F[q], k))
  BY <1>2, RelabelledFollows
<1>3. \A p : Heir(j, p, Moved(p, from, to))
  <2>1. DOMAIN j.last = {1} /\ j.last[1] = Move(from, to)
    BY Tails DEF OneMove
  <2>2. Bequeaths(Move(from, to), from, to)
    BY DEF Bequeaths, Move
  <2>3. QED
    BY <2>1, <2>2 DEF Heir, Moved
<1> HIDE DEF F
<1>4. ASSUME NEW p \in DOMAIN d, NEW k \in DOMAIN d[p].places, Reach(d, p, k) # {}
      PROVE  \E q \in DOMAIN F :
                /\ Heir(j, p, q) /\ k \in DOMAIN F[q].places
                /\ \/ Reach(F, q, k) = Reach(d, p, k)
                   \/ IsLink(At(F[q], k)) /\ Bears(d, F, NewHome(r), At(F[q], k))
  <2> DEFINE q == Moved(p, from, to)
  <2>1. /\ q \in DOMAIN F /\ k \in DOMAIN F[q].places /\ Heir(j, p, q)
        /\ \/ Reach(F, q, k) = Reach(d, p, k)
           \/ IsLink(At(F[q], k)) /\ Bears(d, F, NewHome(r), At(F[q], k))
    BY <1>2, <1>3, <1>4
  <2> HIDE DEF q
  <2>2. QED
    BY <2>1
<1>5. QED
  BY <1>1, <1>4 DEF Leads, F

LEMMA RenameBlockIdLeads ==
    ASSUME NEW d, AllProper(d), Distinct(d), NEW r, NEW j, NEW h \in DOMAIN d, NEW e,
           OnePut(j, h, e), NEW id, NEW new, NoId \notin {id, new},
           Renumbered(d, Result(d, j), h, id, new)
    PROVE  Leads(d, r, j)
<1> DEFINE F == Result(d, j)
<1>1. Distinct(F)
  BY RenumberedDistinct
<1>2. ASSUME NEW p \in DOMAIN d, NEW k \in DOMAIN d[p].places, Reach(d, p, k) # {}
      PROVE  p \in DOMAIN F /\ k \in DOMAIN F[p].places /\ Reach(F, p, k) = Reach(d, p, k)
  BY <1>2, RenumberedFollows
<1>3. \A p : Heir(j, p, p)
  BY DEF Heir
<1> HIDE DEF F
<1>4. QED
  BY <1>1, <1>2, <1>3 DEF Leads, F

LEMMA GatheredLeads ==
    ASSUME Tidy, NEW r \in Requests, NEW d, AllProper(d), Distinct(d), Gathered(d, r) # Refused
    PROVE  LET j == Gathered(d, r)
           IN  /\ Sensible(d, j)
               /\ Movable(d, j) /\ j.absent \cap DOMAIN d = {} => Leads(d, r, j)
<1> DEFINE j == Gathered(d, r)
<1>0. r.verb \in Verbs
  BY RefactorAssumption
<1>1. CASE r.verb = "rename"
  <2>1. j = Rename(d, r.path, r.to) /\ NewHome(r) = r.to
    BY <1>1 DEF Gathered, NewHome
  <2>2. Path(r.to)
    BY <1>1 DEF Tidy
  <2> HIDE DEF j
  <2>3. /\ Sensible(d, j) /\ OneMove(j, r.path, r.to)
        /\ Movable(d, j) => Renames(d, r.path, r.to) /\ Relabelled(d, Result(d, j), r.path, r.to)
    BY <2>1, <2>2, RenameFollows DEF j
  <2>4. QED
    BY <2>1, <2>3, MoveLeads DEF j
<1>2. CASE r.verb = "rename_type"
  <2> DEFINE to == [r.path EXCEPT !.stem = r.new]
  <2>1. j = RenameType(d, r.path, r.new) /\ NewHome(r) = to
    BY <1>2 DEF Gathered, NewHome
  <2> HIDE DEF j
  <2>3. /\ Sensible(d, j) /\ OneMove(j, r.path, to)
        /\ Movable(d, j) => Renames(d, r.path, to) /\ Relabelled(d, Result(d, j), r.path, to)
    BY <2>1, RenameTypeFollows DEF j
  <2> HIDE DEF to
  <2>4. QED
    BY <2>1, <2>3, MoveLeads DEF j
<1>3. CASE r.verb = "rename_block_id"
  <2>1. j = RenameBlockId(d, r.path, r.id, r.new) /\ j # Refused
    BY <1>3 DEF Gathered
  <2> HIDE DEF j
  <2>2. /\ Sensible(d, j) /\ r.path \in DOMAIN d /\ \E e : OnePut(j, r.path, e)
        /\ NoId \notin {r.id, r.new} /\ Renumbered(d, Result(d, j), r.path, r.id, r.new)
    BY <2>1, RenameBlockIdFollows
  <2>3. QED
    BY <2>2, RenameBlockIdLeads DEF j
<1>4. CASE r.verb = "promote"
  <2>1. /\ r.path \in DOMAIN d /\ r.key \in DOMAIN d[r.path].places
        /\ j = Promote(d, r.path, r.key, r.to) /\ j # Refused
    BY <1>4 DEF Gathered
  <2>2. Path(r.to)
    BY <1>4 DEF Tidy
  <2> HIDE DEF j
  <2>3. /\ Sensible(d, j) /\ j.absent = {r.to}
        /\ r.to \notin DOMAIN d =>
              /\ Split(d, Result(d, j), r.path, r.key, r.to)
              /\ \A p : Heir(j, p, p) /\ Heir(j, p, r.path) /\ Heir(j, p, r.to)
    BY <2>1, <2>2, PromoteSplits
  <2>4. r.to \notin DOMAIN d => Leads(d, r, j)
    BY <1>4, <2>3, PromoteLeads
  <2>5. QED
    BY <2>3, <2>4 DEF j
<1>5. CASE r.verb = "inline"
  <2>1. /\ r.path \in DOMAIN d /\ r.to \in DOMAIN d
        /\ j = Inline(d, r.path, r.to, r.key) /\ j # Refused
    BY <1>5 DEF Gathered
  <2>2. NoId \notin FreshIds
    BY DEF Tidy
  <2> HIDE DEF j
  <2>3. /\ Sensible(d, j)
        /\ \E g : Folded(d, Result(d, j), r.path, r.to, r.key, g)
        /\ \A p : Heir(j, p, p) /\ Heir(j, p, r.to)
    BY <2>1, <2>2, InlineFolds
  <2>4. Leads(d, r, j)
    BY <1>5, <2>3, InlineLeads
  <2>5. QED
    BY <2>3, <2>4 DEF j
<1>6. QED
  BY <1>0, <1>1, <1>2, <1>3, <1>4, <1>5 DEF Verbs

-----------------------------------------------------------------------------
(* The invariant.                                                          *)

FormInv == AllProper(disk) /\ AllProper(head) /\ AllProper(held)

\* What is committed, held and on disk are the same files, but for the verb
\* under way.
KinInv ==
    /\ Distinct(head) /\ Distinct(held)
    /\ IF pc = "rebuild" THEN Kindred(head, disk) ELSE Kindred(head, held)
    /\ pc \in {"idle", "check", "open"} => Kindred(disk, held)

\* What a verb does is what it planned, and comes to what it would have come to
\* on the files as they were when it began, but for what people wrote.
Pursues(plan) ==
    /\ ToCome(plan.last) /\ plan.last # <<>>
    /\ Sensible(held, plan)
    /\ Movable(held, plan) /\ plan.absent \cap DOMAIN held = {} => Leads(held, req, plan)
    /\ job.rewrite = plan.rewrite /\ job.absent = plan.absent
    /\ pc \in {"check", "open"} => job.last = plan.last
    /\ pc \in {"read", "write", "rebuild"} =>
          /\ plan.absent \cap DOMAIN held = {}
          /\ \/ job.last = plan.last /\ DOMAIN disk = DOMAIN held
             \/ Movable(held, plan)
          /\ GrownAll(Result(before, plan), Ending(Amended(disk, todo, job), job.last))

PlanInv ==
    pc # "idle" =>
        /\ Kindred(before, held) /\ \A p \in DOMAIN before \ strange : before[p] = held[p]
        /\ job.exempt \subseteq strange
        /\ \A i \in DOMAIN job.last : job.last[i].op = "put" => Proper(job.last[i].file)
        /\ \E plan : Pursues(plan)

\* The files grow: on disk until they are written, and what a rollback resets
\* them to.
GrowthInv ==
    pc # "idle" =>
        /\ pc \in {"check", "open"} => GrownAll(before, disk)
        /\ pc \in {"open", "read", "write"} =>
              \A p \in (DOMAIN before \cap job.touched) \ strange : Grown(before[p], head[p])
        /\ \A p : p \notin job.touched => /\ p \in DOMAIN before <=> p \in DOMAIN disk
                                          /\ p \in DOMAIN before => Grown(before[p], disk[p])
        /\ pc = "write" => Grown(held[cur], disk[cur])
        /\ pc = "rebuild" => job.last = <<>> /\ todo = {}

LinksInv == FormInv /\ KinInv /\ PlanInv /\ GrowthInv /\ LinksFollow

-----------------------------------------------------------------------------
(* Where a verb ends.                                                      *)

\* Files that have only grown lead where they led.
LEMMA QuietEnd ==
    ASSUME Kindred(before', disk'),
           \A p \in DOMAIN before' \ strange' : Grown(before'[p], disk'[p])
    PROVE  LinksFollow'
<1> SUFFICES ASSUME NEW p \in DOMAIN before' \ strange', NEW k \in DOMAIN before'[p].places
             PROVE  \E q \in DOMAIN disk' :
                      /\ k \in DOMAIN disk'[q].places
                      /\ \/ Reach(disk', q, k) = Reach(before', p, k)
                         \/ IsLink(At(disk'[q], k)) /\ At(disk'[q], k).pin
  BY DEF LinksFollow
<1>1. p \in DOMAIN disk'
  BY DEF Kindred
<1>2. /\ k \in DOMAIN disk'[p].places
      /\ \/ Reach(disk', p, k) = Reach(before', p, k)
         \/ IsLink(At(disk'[p], k)) /\ At(disk'[p], k).pin
  BY GrownReach
<1>3. QED
  BY <1>1, <1>2

LEMMA InitLinks == ASSUME Tidy, Init PROVE LinksInv
<1>1. PICK w \in Workspaces : disk = w.files
  BY DEF Init
<1>2. Distinct(disk) /\ AllProper(disk)
  BY <1>1 DEF Tidy, AllProper
<1>3. head = disk /\ held = disk /\ before = disk /\ pc = "idle"
  BY DEF Init
<1>4. FormInv
  BY <1>2, <1>3 DEF FormInv
<1>5. KinInv
  BY <1>2, <1>3, KindredLaws DEF KinInv
<1>6. LinksFollow
  BY <1>3 DEF LinksFollow
<1>7. QED
  BY <1>3, <1>4, <1>5, <1>6 DEF LinksInv, PlanInv, GrowthInv

LEMMA PlannedShape ==
    ASSUME NEW kb, NEW j, Planned(kb, j)
    PROVE  ToCome(j.last) /\ j.last # <<>>
<1>1. CASE MovesOne(j)
  <2>1. PICK p, q : j.last = <<Move(p, q)>>
    BY <1>1 DEF MovesOne
  <2>2. IsWrite(Move(p, q))
    BY DEF IsWrite, Move
  <2>3. QED
    BY <2>1, <2>2, Tails DEF ToCome
<1>2. CASE PutsOne(kb, j)
  <2>1. PICK h, e : j.last = <<Put(h, e)>>
    BY <1>2 DEF PutsOne
  <2>2. IsWrite(Put(h, e))
    BY DEF IsWrite, Put
  <2>3. QED
    BY <2>1, <2>2, Tails DEF ToCome
<1>3. CASE Splits(kb, j)
  <2>1. PICK h, to, c, e : j.last = <<Put(to, c), Put(h, e)>>
    BY <1>3 DEF Splits
  <2>2. Put(to, c).op = "put" /\ Put(h, e).op = "put"
    BY DEF Put
  <2>3. QED
    BY <2>1, <2>2, Tails DEF ToCome
<1>4. CASE Merges(kb, j)
  <2>1. PICK f, into, c : j.last = <<Put(into, c), Remove(f)>>
    BY <1>4 DEF Merges
  <2>2. Put(into, c).op = "put" /\ Remove(f).op = "remove"
    BY DEF Put, Remove
  <2>3. QED
    BY <2>1, <2>2, Tails DEF ToCome
<1>5. QED
  BY <1>1, <1>2, <1>3, <1>4 DEF Planned

-----------------------------------------------------------------------------
(* The steps.                                                              *)

LEMMA AskLinks ==
    ASSUME Tidy, Inv, LinksInv, NEW r \in Requests, Ask(r)
    PROVE  LinksInv'
<1> DEFINE j == Gathered(held, r)
           e == NotWritten(j)
<1> USE DEF LinksInv
<1>1. /\ pc = "idle" /\ before' = disk /\ req' = r
      /\ strange' = {p \in DOMAIN disk : ~Same(disk, held, p)}
      /\ UNCHANGED <<disk, head, held, roles, todo, cur, read, edits>>
  BY DEF Ask
<1>2. Kindred(disk, held) /\ Distinct(head) /\ Distinct(held) /\ Kindred(head, held)
  BY <1>1 DEF KinInv
<1>3. FormInv'
  BY <1>1 DEF FormInv, AllProper
<1>4. LinksFollow'
  BY <1>1, KindredLaws, GrownLaws, QuietEnd
<1>5. CASE UNCHANGED <<job, pc, exposed>>
  <2>1. KinInv' /\ PlanInv' /\ GrowthInv'
    BY <1>1, <1>2, <1>5 DEF KinInv, PlanInv, GrowthInv
  <2>2. QED
    BY <1>3, <1>4, <2>1
<1>6. CASE j # Refused /\ job' = [j EXCEPT !.exempt = e] /\ pc' = "check"
  <2>1. Planned(held, j)
    BY <1>6, GatheredPlans, RefactorAssumption DEF Inv, FilesInv
  <2>2. /\ Sensible(held, j)
        /\ Movable(held, j) /\ j.absent \cap DOMAIN held = {} => Leads(held, r, j)
    BY <1>2, <1>6, GatheredLeads DEF FormInv
  <2> HIDE DEF j
  <2>3. /\ job'.exempt = e /\ job'.absent = j.absent /\ job'.rewrite = j.rewrite
        /\ job'.last = j.last /\ job'.touched = j.touched
    BY <1>6, <2>1 DEF Planned, NoJob, Job
  <2>4. KinInv'
    BY <1>1, <1>2, <1>6 DEF KinInv
  <2>5. e \subseteq strange'
    <3> SUFFICES ASSUME NEW p \in e PROVE ~Same(disk, held, p) /\ p \in DOMAIN disk
      BY <1>1
    <3>1. /\ p \in DOMAIN j.spans /\ p \in DOMAIN disk
          /\ \A k \in j.spans[p] \cap DOMAIN disk[p].places :
                IsLink(At(disk[p], k)) /\ At(disk[p], k).pin
      BY DEF NotWritten
    <3>2. PICK k \in j.spans[p] \cap DOMAIN held[p].places :
             ~(IsLink(At(held[p], k)) /\ At(held[p], k).pin)
      BY <2>2, <3>1 DEF Sensible, Loose
    <3>3. QED
      BY <3>1, <3>2 DEF Same
  <2> HIDE DEF e
  <2>6. PlanInv'
    <3>1. Kindred(before', held')
      BY <1>1, <1>2
    <3>2. \A p \in DOMAIN before' \ strange' : before'[p] = held'[p]
      BY <1>1 DEF Same
    <3>3. \A i \in DOMAIN job'.last : job'.last[i].op = "put" => Proper(job'.last[i].file)
      BY <2>2, <2>3 DEF Sensible
    <3>4. PICK plan : plan = j
      OBVIOUS
    <3>5. /\ ToCome(plan.last) /\ plan.last # <<>> /\ Sensible(held, plan)
          /\ Movable(held, plan) /\ plan.absent \cap DOMAIN held = {} => Leads(held, r, plan)
      BY <2>1, <2>2, <3>4, PlannedShape
    <3>6. Pursues(plan)'
      BY <1>1, <1>6, <2>3, <3>4, <3>5 DEF Pursues
    <3>7. QED
      BY <2>3, <2>5, <3>1, <3>2, <3>3, <3>6 DEF PlanInv
  <2>7. GrowthInv'
    BY <1>1, <1>6, GrownLaws, GrownAllLaws DEF GrowthInv
  <2>8. QED
    BY <1>3, <1>4, <2>4, <2>6, <2>7
<1>7. QED
  BY <1>5, <1>6 DEF Ask

LEMMA CheckLinks == ASSUME Inv, LinksInv, Check PROVE LinksInv'
<1> USE DEF LinksInv
<1>1. /\ pc = "check"
      /\ UNCHANGED <<disk, head, held, roles, req, before, strange, edits, late, verbs>>
  BY DEF Check
<1>2. FormInv'
  BY <1>1 DEF FormInv, AllProper
<1>3. Kindred(disk, held) /\ Distinct(head) /\ Distinct(held) /\ Kindred(head, held)
  BY <1>1 DEF KinInv
<1>4. GrownAll(before, disk)
  BY <1>1 DEF GrowthInv
<1>5. LinksFollow'
  BY <1>1, <1>4, GrownAllLaws, QuietEnd DEF GrownAll
<1>6. CASE End("refused")
  BY <1>1, <1>2, <1>3, <1>5, <1>6 DEF End, KinInv, PlanInv, GrowthInv
<1>7. CASE Dirty = {} /\ pc' = "open" /\ UNCHANGED <<outcome, job, todo, cur, read>>
  <2>1. KinInv'
    BY <1>1, <1>3, <1>7 DEF KinInv
  <2>2. PlanInv'
    <3>1. PICK plan : Pursues(plan)
      BY <1>1 DEF PlanInv
    <3>2. Pursues(plan)'
      BY <1>1, <1>7, <3>1 DEF Pursues
    <3>3. QED
      BY <1>1, <1>7, <3>2 DEF PlanInv
  <2>3. ASSUME NEW p \in (DOMAIN before \cap job.touched) \ strange
        PROVE  Grown(before[p], head[p])
    <3>1. job.exempt \subseteq strange
      BY <1>1 DEF PlanInv
    <3>2. p \in DOMAIN disk /\ Grown(before[p], disk[p])
      BY <1>4 DEF GrownAll
    <3>3. Same(disk, head, p)
      BY <1>7, <3>1 DEF Dirty
    <3>4. QED
      BY <3>2, <3>3 DEF Same
  <2>4. GrowthInv'
    BY <1>1, <1>4, <1>7, <2>3 DEF GrowthInv
  <2>5. QED
    BY <1>2, <1>5, <2>1, <2>2, <2>4
<1>8. QED
  BY <1>6, <1>7 DEF Check

LEMMA RestoreLinks ==
    ASSUME Inv, LinksInv, pc \in {"open", "read", "write"}, Restore,
           UNCHANGED <<head, held, req, before, strange>>
    PROVE  LinksInv'
<1> USE DEF LinksInv
<1>1. disk' = Taking(disk, head, job.touched) /\ pc' = "idle"
  BY DEF Restore, End
<1>2. /\ Distinct(head) /\ Distinct(held) /\ Kindred(head, held) /\ Kindred(before, held)
  BY DEF KinInv, PlanInv
<1>3. /\ \A p \in (DOMAIN before \cap job.touched) \ strange : Grown(before[p], head[p])
      /\ \A p : p \notin job.touched => /\ p \in DOMAIN before <=> p \in DOMAIN disk
                                        /\ p \in DOMAIN before => Grown(before[p], disk[p])
  BY DEF GrowthInv
<1>4. ASSUME NEW p
      PROVE  /\ p \in DOMAIN disk' <=> p \in DOMAIN before
             /\ p \in DOMAIN before => Akin(before[p], disk'[p])
             /\ p \in DOMAIN before \ strange => Grown(before[p], disk'[p])
             /\ p \in DOMAIN disk' => Proper(disk'[p])
  <2>1. CASE p \in job.touched
    <3>1. /\ p \in DOMAIN disk' <=> p \in DOMAIN head
          /\ p \in DOMAIN head => disk'[p] = head[p]
      BY <1>1, <2>1, TakingPaths
    <3>2. p \in DOMAIN head <=> p \in DOMAIN before
      BY <1>2 DEF Kindred
    <3>3. p \in DOMAIN before => Akin(before[p], head[p])
      BY <1>2, KindredLaws DEF Kindred
    <3>4. QED
      BY <1>3, <2>1, <3>1, <3>2, <3>3 DEF FormInv, AllProper
  <2>2. CASE p \notin job.touched
    <3>1. /\ p \in DOMAIN disk' <=> p \in DOMAIN disk
          /\ p \in DOMAIN disk => disk'[p] = disk[p]
      BY <1>1, <2>2, TakingPaths
    <3>2. QED
      BY <1>3, <2>2, <3>1, GrownLaws DEF FormInv, AllProper
  <2>3. QED
    BY <2>1, <2>2
<1>5. DOMAIN disk' = DOMAIN before
  BY <1>4
<1>6. Kindred(before, disk')
  BY <1>4, <1>5 DEF Kindred
<1>7. Kindred(disk', held)
  BY <1>2, <1>6, KindredLaws
<1>8. FormInv'
  BY <1>4 DEF FormInv, AllProper
<1>9. KinInv'
  BY <1>1, <1>2, <1>7 DEF KinInv
<1>10. LinksFollow'
  BY <1>4, <1>6, QuietEnd
<1>11. QED
  BY <1>1, <1>8, <1>9, <1>10 DEF PlanInv, GrowthInv

LEMMA AmendedGrows ==
    ASSUME NEW a, NEW b, GrownAll(a, b), NEW ps, NEW j
    PROVE  GrownAll(Amended(a, ps, j), Amended(b, ps, j))
  BY AmendedPaths, GrownLaws DEF GrownAll

LEMMA OpenLinks == ASSUME Inv, LinksInv, Open PROVE LinksInv'
<1> USE DEF LinksInv
<1>1. /\ pc = "open"
      /\ UNCHANGED <<head, held, roles, req, before, strange, edits, verbs>>
  BY DEF Open
<1>2. CASE Restore
  BY <1>1, <1>2, RestoreLinks
<1>3. CASE /\ job.absent \cap DOMAIN disk = {}
           /\ pc' = "read" /\ todo' = DOMAIN job.rewrite
           /\ UNCHANGED <<disk, outcome, job, cur, late, exposed>>
  <2>1. Kindred(disk, held) /\ Distinct(head) /\ Distinct(held) /\ Kindred(head, held)
    BY <1>1 DEF KinInv
  <2>2. FormInv'
    BY <1>1, <1>3 DEF FormInv, AllProper
  <2>3. KinInv'
    BY <1>1, <1>3, <2>1 DEF KinInv
  <2>4. PlanInv'
    <3>1. PICK plan : Pursues(plan)
      BY <1>1 DEF PlanInv
    <3>2. /\ ToCome(plan.last) /\ job.rewrite = plan.rewrite /\ job.absent = plan.absent
          /\ job.last = plan.last
      BY <1>1, <3>1 DEF Pursues
    <3>3. DOMAIN disk = DOMAIN held
      BY <2>1 DEF Kindred
    <3>4. GrownAll(Result(before, plan), Ending(Amended(disk, DOMAIN plan.rewrite, plan), plan.last))
      <4>1. GrownAll(before, disk)
        BY <1>1 DEF GrowthInv
      <4>2. QED
        BY <3>2, <4>1, AmendedGrows, EndingGrows DEF Result
    <3>5. Amended(disk, DOMAIN plan.rewrite, plan) = Amended(disk', todo', job')
      BY <1>3, <3>2 DEF Amended
    <3>6. Pursues(plan)'
      BY <1>1, <1>3, <3>1, <3>2, <3>3, <3>4, <3>5 DEF Pursues
    <3>7. QED
      BY <1>1, <1>3, <3>6 DEF PlanInv
  <2>5. GrowthInv'
    BY <1>1, <1>3 DEF GrowthInv
  <2>6. LinksFollow'
    BY <1>3 DEF LinksFollow
  <2>7. QED
    BY <2>2, <2>3, <2>4, <2>5, <2>6
<1>4. QED
  BY <1>2, <1>3 DEF Open

LEMMA FailLinks == ASSUME Inv, LinksInv, Fail PROVE LinksInv'
  BY RestoreLinks DEF Fail

LEMMA ReadReferrerLinks ==
    ASSUME Inv, LinksInv, NEW p \in todo, ReadReferrer(p)
    PROVE  LinksInv'
<1> USE DEF LinksInv
<1>1. /\ pc = "read"
      /\ UNCHANGED <<head, held, roles, req, before, strange, edits, verbs>>
  BY DEF ReadReferrer
<1>2. CASE Restore
  BY <1>1, <1>2, RestoreLinks
<1>3. CASE AsHeld(p) /\ pc' = "write" /\ cur' = p /\ UNCHANGED <<disk, outcome, job, todo, late, exposed>>
  <2>1. FormInv'
    BY <1>1, <1>3 DEF FormInv, AllProper
  <2>2. KinInv'
    BY <1>1, <1>3 DEF KinInv
  <2>3. PlanInv'
    <3>1. PICK plan : Pursues(plan)
      BY <1>1 DEF PlanInv
    <3>2. Pursues(plan)'
      BY <1>1, <1>3, <3>1 DEF Pursues
    <3>3. QED
      BY <1>1, <1>3, <3>2 DEF PlanInv
  <2>4. GrowthInv'
    BY <1>1, <1>3, GrownLaws DEF GrowthInv, AsHeld
  <2>5. LinksFollow'
    BY <1>3 DEF LinksFollow
  <2>6. QED
    BY <2>1, <2>2, <2>3, <2>4, <2>5
<1>4. QED
  BY <1>2, <1>3 DEF ReadReferrer

LEMMA WriteReferrerLinks == ASSUME Inv, LinksInv, WriteReferrer PROVE LinksInv'
<1> USE DEF LinksInv
<1>1. /\ pc = "write" /\ pc' = "read" /\ todo' = todo \ {cur}
      /\ UNCHANGED <<head, held, roles, req, job, outcome, before, strange, edits, late, exposed,
                     verbs>>
  BY DEF WriteReferrer
<1>2. PICK plan : Pursues(plan)
  BY <1>1 DEF PlanInv
<1> DEFINE c == plan.rewrite[cur]
<1>3. /\ job.rewrite = plan.rewrite /\ Sensible(held, plan) /\ ToCome(plan.last)
      /\ GrownAll(Result(before, plan), Ending(Amended(disk, todo, job), job.last))
  BY <1>1, <1>2 DEF Pursues
<1>4. cur \in todo /\ cur \in DOMAIN disk /\ cur \in DOMAIN plan.rewrite /\ ToCome(job.last)
  BY <1>1, <1>3 DEF Inv, PhaseInv, InHandInv
<1>5. Proper(c)
  BY <1>3, <1>4 DEF Sensible, Reworded
<1>6. /\ DOMAIN disk' = DOMAIN disk
      /\ \A p \in DOMAIN disk \ {cur} : disk'[p] = disk[p]
      /\ \/ disk'[cur] = c
         \/ disk'[cur] = disk[cur] /\ c = held[cur]
  BY <1>3, <1>4 DEF WriteReferrer
<1>7. Grown(c, disk'[cur])
  <2>1. Grown(held[cur], disk[cur])
    BY <1>1 DEF GrowthInv
  <2>2. QED
    BY <1>6, <2>1, GrownLaws
<1>8. FormInv'
  BY <1>1, <1>5, <1>6 DEF FormInv, AllProper
<1>9. KinInv'
  BY <1>1 DEF KinInv
<1>10. GrownAll(Amended(disk, todo, job), Amended(disk', todo', job'))
  <2>1. ASSUME NEW p \in DOMAIN disk
        PROVE  Grown(Amended(disk, todo, job)[p], Amended(disk', todo', job')[p])
    <3>1. /\ Amended(disk, todo, job)[p] = IF p \in todo THEN job.rewrite[p] ELSE disk[p]
          /\ Amended(disk', todo', job')[p] = IF p \in todo' THEN job.rewrite[p] ELSE disk'[p]
      BY <1>1, <1>6, AmendedPaths
    <3>2. CASE p = cur
      BY <1>1, <1>3, <1>4, <1>7, <3>1, <3>2
    <3>3. CASE p # cur
      BY <1>1, <1>6, <3>1, <3>3, GrownLaws
    <3>4. QED
      BY <3>2, <3>3
  <2>2. DOMAIN Amended(disk, todo, job) = DOMAIN disk
    BY AmendedPaths
  <2>3. DOMAIN Amended(disk', todo', job') = DOMAIN disk
    BY <1>6, AmendedPaths
  <2>4. QED
    BY <2>1, <2>2, <2>3 DEF GrownAll
<1>11. PlanInv'
  <2>1. GrownAll(Result(before, plan), Ending(Amended(disk', todo', job'), job.last))
    BY <1>3, <1>4, <1>10, EndingGrows, GrownAllLaws
  <2>2. Pursues(plan)'
    BY <1>1, <1>2, <1>6, <2>1 DEF Pursues
  <2>3. QED
    BY <1>1, <2>2 DEF PlanInv
<1>12. GrowthInv'
  <2>1. cur \in job.touched
    BY <1>1, <1>3, <1>4 DEF Inv, PhaseInv, Referrers
  <2>2. QED
    BY <1>1, <1>6, <2>1 DEF GrowthInv
<1>13. LinksFollow'
  BY <1>1 DEF LinksFollow
<1>14. QED
  BY <1>8, <1>9, <1>11, <1>12, <1>13

\* When nothing is left to amend.
LEMMA AmendedNothing ==
    ASSUME NEW d, NEW j
    PROVE  GrownAll(Amended(d, {}, j), d) /\ GrownAll(d, Amended(d, {}, j))
  BY AmendedPaths, GrownLaws DEF GrownAll

LEMMA FinishLinks == ASSUME Inv, LinksInv, Finish PROVE LinksInv'
<1> USE DEF LinksInv
<1> DEFINE last == job.last
           w == last[1]
<1>1. /\ pc = "read" /\ todo = {} /\ last # <<>>
      /\ UNCHANGED <<head, held, roles, req, before, strange, edits, verbs>>
  BY DEF Finish
<1>2. CASE Restore
  BY <1>1, <1>2, RestoreLinks
<1>3. CASE /\ Possible(Head(last)) /\ disk' = Applied(Head(last))
           /\ job' = [job EXCEPT !.last = Tail(@)]
           /\ UNCHANGED <<pc, outcome, todo, cur, read, late, exposed>>
  <2>1. /\ ToCome(last) /\ DOMAIN job = DOMAIN NoJob
        /\ Taken(last) \subseteq job.touched
        /\ \A i \in DOMAIN last :
              last[i].op = "move" => last[i].from \in job.touched /\ last[i].to \in job.touched
    BY <1>1 DEF Inv, PhaseInv
  <2>2. /\ job'.last = Tail(last) /\ job'.touched = job.touched /\ job'.rewrite = job.rewrite
        /\ job'.absent = job.absent /\ job'.exempt = job.exempt
    BY <1>3, <2>1 DEF NoJob, Job
  <2>3. PICK plan : Pursues(plan)
    BY <1>1 DEF PlanInv
  <2>4. /\ GrownAll(Result(before, plan), Ending(Amended(disk, {}, job), last))
        /\ \/ last = plan.last /\ DOMAIN disk = DOMAIN held
           \/ Movable(held, plan)
    BY <1>1, <2>3 DEF Pursues
  <2> HIDE DEF last
  \* What is written, and what remains to be.
  <2>5. /\ Head(last) = w /\ IsWrite(w) /\ 1 \in DOMAIN last /\ ToCome(Tail(last))
        /\ \A d : Ending(d, last) = Ending(Wrote(d, w), Tail(last))
        /\ \A i \in DOMAIN Tail(last) : \E h \in DOMAIN last : Tail(last)[i] = last[h]
        /\ Takes(w) \subseteq Taken(last)
        /\ w.op = "move" => DOMAIN last = {1}
        /\ w.op # "move" => \A i \in DOMAIN last : last[i].op # "move"
    <3>1. CASE last = <<w>> /\ IsWrite(w)
      <4> HIDE DEF w
      <4>1. Tail(last) = <<>> /\ Head(last) = w /\ DOMAIN last = {1} /\ last[1] = w
        BY <3>1, Tails
      <4>2. Taken(last) = Takes(w) /\ DOMAIN <<>> = {}
        BY <3>1, TakenCases
      <4>3. \A d : Ending(d, last) = Wrote(d, w) /\ Ending(Wrote(d, w), <<>>) = Wrote(d, w)
        BY <3>1, EndingCases
      <4>4. QED
        BY <3>1, <4>1, <4>2, <4>3 DEF ToCome
    <3>2. CASE last = <<w, last[2]>> /\ w.op = "put" /\ last[2].op \in {"put", "remove"}
      <4> DEFINE v == last[2]
      <4>1. last = <<w, v>> /\ w.op = "put" /\ v.op \in {"put", "remove"}
        BY <3>2
      <4> HIDE DEF w, v
      <4>2. /\ Tail(last) = <<v>> /\ Head(last) = w /\ DOMAIN last = {1, 2}
            /\ last[1] = w /\ last[2] = v /\ <<v>>[1] = v /\ DOMAIN <<v>> = {1}
        BY <4>1, Tails
      <4>3. Taken(last) = Takes(w) \cup Takes(v)
        BY <4>1, TakenCases
      <4>4. \A d : Ending(d, last) = Wrote(Wrote(d, w), v)
        BY <4>1, EndingOfTwo
      <4>5. \A d : Ending(d, <<v>>) = Wrote(d, v)
        BY EndingCases
      <4>6. ToCome(<<v>>) /\ IsWrite(w)
        BY <4>1, <4>2 DEF ToCome, IsWrite
      <4>7. QED
        BY <4>1, <4>2, <4>3, <4>4, <4>5, <4>6
    <3>3. QED
      BY <1>1, <2>1, <3>1, <3>2 DEF ToCome, last
  <2> HIDE DEF w
  <2>6. disk' = Wrote(disk, w)
    BY <1>3, <2>5 DEF Applied, Possible, Wrote, IsWrite, last
  <2>7. \A i \in DOMAIN last : last[i].op = "put" => Proper(last[i].file)
    BY <1>1 DEF PlanInv, last
  <2>8. w = last[1]
    BY DEF w
  <2>9. FormInv'
    <3>1. ASSUME NEW p \in DOMAIN disk'
          PROVE  Proper(disk'[p])
      <4>1. \A q \in DOMAIN disk : Proper(disk[q])
        BY DEF FormInv, AllProper
      <4>2. w.op = "put" => Proper(w.file)
        BY <2>5, <2>7, <2>8
      <4>3. CASE w.op = "put"
        BY <2>6, <4>1, <4>2, <4>3 DEF Wrote, Over, Only
      <4>4. CASE w.op = "move"
        BY <2>6, <4>1, <4>4 DEF Wrote
      <4>5. CASE w.op = "remove"
        BY <2>6, <4>1, <4>5 DEF Wrote, Restrict
      <4>6. QED
        BY <2>5, <4>3, <4>4, <4>5 DEF IsWrite
    <3>2. QED
      BY <1>1, <3>1 DEF FormInv, AllProper
  <2>10. KinInv'
    BY <1>1, <1>3 DEF KinInv
  <2>11. GrownAll(Result(before, plan), Ending(Amended(disk', {}, job'), job'.last))
    <3>1. GrownAll(Ending(Amended(disk, {}, job), last), Ending(disk, last))
      BY <2>1, AmendedNothing, EndingGrows
    <3>2. GrownAll(Ending(disk', Tail(last)), Ending(Amended(disk', {}, job'), Tail(last)))
      BY <2>5, AmendedNothing, EndingGrows
    <3>3. Ending(disk, last) = Ending(disk', Tail(last))
      BY <2>5, <2>6
    <3>4. job'.last = Tail(last)
      BY <2>2 DEF last
    <3>5. QED
      BY <2>4, <3>1, <3>2, <3>3, <3>4, GrownAllLaws
  <2>12. Movable(held, plan)
    <3> SUFFICES ASSUME last = plan.last, DOMAIN disk = DOMAIN held PROVE Movable(held, plan)
      BY <2>4
    <3>1. CASE w.op = "move"
      <4>1. w.from \in DOMAIN held /\ w.to \notin DOMAIN held
        BY <1>3, <2>5, <3>1 DEF Possible, last
      <4>2. QED
        BY <2>5, <2>8, <3>1, <4>1 DEF Movable
    <3>2. CASE w.op # "move"
      BY <2>5, <3>2 DEF Movable
    <3>3. QED
      BY <3>1, <3>2
  <2>13. PlanInv'
    <3>1. Pursues(plan)'
      BY <1>1, <1>3, <2>2, <2>3, <2>11, <2>12 DEF Pursues
    <3>2. \A i \in DOMAIN job'.last : job'.last[i].op = "put" => Proper(job'.last[i].file)
      BY <2>2, <2>5, <2>7 DEF last
    <3>3. QED
      BY <1>1, <1>3, <2>2, <3>1, <3>2 DEF PlanInv
  <2>14. \A p : p \notin job.touched => /\ p \in DOMAIN disk' <=> p \in DOMAIN disk
                                        /\ p \in DOMAIN disk => disk'[p] = disk[p]
    <3>1. CASE w.op = "put"
      BY <2>1, <2>5, <2>6, <3>1 DEF Wrote, Over, Only, Takes, last
    <3>2. CASE w.op = "move"
      <4>1. w.from \in job.touched /\ w.to \in job.touched
        BY <2>1, <2>5, <2>8, <3>2 DEF last
      <4>2. QED
        BY <2>6, <3>2, <4>1 DEF Wrote
    <3>3. CASE w.op = "remove"
      BY <2>1, <2>5, <2>6, <3>3 DEF Wrote, Restrict, Takes, last
    <3>4. QED
      BY <2>5, <3>1, <3>2, <3>3 DEF IsWrite
  <2>15. GrowthInv'
    BY <1>1, <1>3, <2>2, <2>14 DEF GrowthInv
  <2>16. LinksFollow'
    BY <1>1, <1>3 DEF LinksFollow
  <2>17. QED
    BY <2>9, <2>10, <2>13, <2>15, <2>16
<1>4. QED
  BY <1>2, <1>3 DEF Finish

LEMMA CommitLinks == ASSUME Inv, LinksInv, Commit PROVE LinksInv'
<1> USE DEF LinksInv
<1>1. /\ pc = "read" /\ todo = {} /\ job.last = <<>> /\ pc' = "rebuild"
      /\ head' = Taking(head, disk, job.touched)
      /\ UNCHANGED <<disk, held, roles, req, job, todo, cur, outcome, read, before,
                     strange, edits, late, verbs>>
  BY DEF Commit
<1>2. PICK plan : Pursues(plan)
  BY <1>1 DEF PlanInv
<1>3. /\ ToCome(plan.last) /\ Movable(held, plan) /\ Leads(held, req, plan)
      /\ GrownAll(Result(before, plan), Ending(Amended(disk, todo, job), job.last))
  BY <1>1, <1>2 DEF Pursues
<1>4. /\ Kindred(head, held) /\ Kindred(before, held) /\ Distinct(held)
      /\ \A p : p \notin job.touched => /\ p \in DOMAIN before <=> p \in DOMAIN disk
                                        /\ p \in DOMAIN before => Grown(before[p], disk[p])
  BY <1>1 DEF KinInv, PlanInv, GrowthInv
<1>5. Distinct(disk)
  <2>1. Kindred(Result(before, plan), Result(held, plan))
    BY <1>3, <1>4, ResultKindred
  <2>2. Distinct(Result(held, plan))
    BY <1>3 DEF Leads
  <2>3. Ending(Amended(disk, todo, job), job.last) = Amended(disk, {}, job)
    BY <1>1, EndingCases
  <2>4. Kindred(Result(before, plan), disk)
    BY <1>3, <2>3, AmendedNothing, GrownAllLaws
  <2>5. QED
    BY <2>1, <2>2, <2>4, KindredLaws, KindredDistinct
<1>6. Kindred(head', disk)
  <2>1. ASSUME NEW p PROVE  /\ p \in DOMAIN head' <=> p \in DOMAIN disk
                            /\ p \in DOMAIN head' => Akin(head'[p], disk[p])
    <3>1. CASE p \in job.touched
      BY <1>1, <3>1, TakingPaths, AkinLaws
    <3>2. CASE p \notin job.touched
      <4>1. /\ p \in DOMAIN head' <=> p \in DOMAIN head
            /\ p \in DOMAIN head => head'[p] = head[p]
        BY <1>1, <3>2, TakingPaths
      <4>2. /\ p \in DOMAIN head <=> p \in DOMAIN before
            /\ p \in DOMAIN head => Akin(head[p], before[p])
        BY <1>4, AkinLaws DEF Kindred
      <4>3. QED
        BY <1>4, <3>2, <4>1, <4>2, AkinLaws, GrownLaws
    <3>3. QED
      BY <3>1, <3>2
  <2>2. DOMAIN head' = DOMAIN disk
    BY <2>1
  <2>3. QED
    BY <2>1, <2>2 DEF Kindred
<1>7. Distinct(head')
  BY <1>5, <1>6, KindredLaws, KindredDistinct
<1>8. FormInv'
  <2>1. ASSUME NEW p \in DOMAIN head' PROVE Proper(head'[p])
    BY <1>1, TakingPaths DEF FormInv, AllProper
  <2>2. QED
    BY <1>1, <2>1 DEF FormInv, AllProper
<1>9. KinInv'
  BY <1>1, <1>4, <1>6, <1>7 DEF KinInv
<1>10. PlanInv'
  <2>1. Pursues(plan)'
    BY <1>1, <1>2, <1>3 DEF Pursues
  <2>2. QED
    BY <1>1, <2>1 DEF PlanInv
<1>11. GrowthInv'
  BY <1>1 DEF GrowthInv
<1>12. LinksFollow'
  BY <1>1 DEF LinksFollow
<1>13. QED
  BY <1>8, <1>9, <1>10, <1>11, <1>12

\* What a verb is not held to is not, whether read off the files it began with
\* or those it held.
LEMMA SparedSame ==
    ASSUME NEW p \in DOMAIN before \ strange, NEW k, Kindred(before, held), before[p] = held[p],
           outcome' = "done", UNCHANGED <<req, before>>,
           ~LeftBehind(p, k)', ~ValueMoves(p, k)', ~FoldedAt(p, k)'
    PROVE  ~Spared(held, req, p, k)
<1>1. DOMAIN before = DOMAIN held
  BY DEF Kindred
<1>2. Found(before, p, At(before[p], k)) = Found(held, p, At(held[p], k))
  BY <1>1, FoundSame
<1>3. ~(/\ req.verb = "promote" /\ p = req.path
        /\ LET tree == Subtree(held[p], req.key)
               l    == At(held[p], k)
           IN  /\ k \in tree /\ IsLink(l)
               /\ l.name = Local /\ l.id \notin IdsOf(held[p], tree \cap Inlines(held[p])))
  BY DEF LeftBehind
<1>4. ~(/\ req.verb \in {"promote", "inline"} /\ Passing(held[p], k)
        /\ req.path \in Found(held, p, At(held[p], k)))
  BY <1>2 DEF ValueMoves
<1>5. ~(/\ req.verb = "inline" /\ p = req.to /\ k = req.key
        /\ IsLink(At(held[p], k)) /\ At(held[p], k).id # NoId)
  BY DEF FoldedAt
<1>6. QED
  BY <1>3, <1>4, <1>5 DEF Spared

LEMMA RebuildLinks == ASSUME Inv, LinksInv, Rebuild PROVE LinksInv'
<1> USE DEF LinksInv
<1>1. /\ pc = "rebuild" /\ pc' = "idle" /\ outcome' = "done"
      /\ held' = Taking(held, disk, job.touched)
      /\ UNCHANGED <<disk, head, roles, req, before, strange, edits, late, verbs>>
  BY DEF Rebuild, End
<1>2. PICK plan : Pursues(plan)
  BY <1>1 DEF PlanInv
<1>3. /\ Kindred(before, held) /\ \A p \in DOMAIN before \ strange : before[p] = held[p]
      /\ Kindred(head, disk) /\ Distinct(head)
      /\ job.last = <<>> /\ todo = {}
      /\ \A p : p \notin job.touched => /\ p \in DOMAIN before <=> p \in DOMAIN disk
                                        /\ p \in DOMAIN before => Grown(before[p], disk[p])
  BY <1>1 DEF KinInv, PlanInv, GrowthInv
<1>4. /\ ToCome(plan.last) /\ Movable(held, plan) /\ Leads(held, req, plan)
      /\ GrownAll(Result(before, plan), Ending(Amended(disk, todo, job), job.last))
  BY <1>1, <1>2, <1>3 DEF Pursues
<1> DEFINE F == Result(held, plan)
           B == Result(before, plan)
<1>5. GrownAll(B, disk)
  <2>1. Ending(Amended(disk, todo, job), job.last) = Amended(disk, {}, job)
    BY <1>3, EndingCases
  <2>2. QED
    BY <1>4, <2>1, AmendedNothing, GrownAllLaws
<1>6. Kindred(F, B)
  BY <1>3, <1>4, ResultKindred, KindredLaws
<1>7. Kindred(disk, held')
  <2>1. ASSUME NEW p PROVE  /\ p \in DOMAIN held' <=> p \in DOMAIN disk
                            /\ p \in DOMAIN disk => Akin(disk[p], held'[p])
    <3>1. CASE p \in job.touched
      BY <1>1, <3>1, TakingPaths, AkinLaws
    <3>2. CASE p \notin job.touched
      <4>1. /\ p \in DOMAIN held' <=> p \in DOMAIN held
            /\ p \in DOMAIN held => held'[p] = held[p]
        BY <1>1, <3>2, TakingPaths
      <4>2. /\ p \in DOMAIN held <=> p \in DOMAIN before
            /\ p \in DOMAIN before => Akin(before[p], held[p])
        BY <1>3 DEF Kindred
      <4>3. QED
        BY <1>3, <3>2, <4>1, <4>2, AkinLaws, GrownLaws
    <3>3. QED
      BY <3>1, <3>2
  <2>2. DOMAIN held' = DOMAIN disk
    BY <2>1
  <2>3. QED
    BY <2>1, <2>2 DEF Kindred
<1>8. FormInv'
  <2>1. ASSUME NEW p \in DOMAIN held' PROVE Proper(held'[p])
    BY <1>1, TakingPaths DEF FormInv, AllProper
  <2>2. QED
    BY <1>1, <2>1 DEF FormInv, AllProper
<1>9. KinInv'
  <2>1. Kindred(head, held')
    BY <1>3, <1>7, KindredLaws
  <2>2. Distinct(held')
    BY <1>3, <2>1, KindredDistinct
  <2>3. Kindred(disk', held') /\ Kindred(head', held')
    BY <1>1, <1>7, <2>1
  <2>4. QED
    BY <1>1, <1>3, <2>2, <2>3 DEF KinInv
<1> HIDE DEF F, B
<1>10. LinksFollow'
  <2> SUFFICES ASSUME NEW p \in DOMAIN before \ strange, NEW k \in DOMAIN before[p].places,
                      Reach(before, p, k) # {},
                      ~LeftBehind(p, k)', ~ValueMoves(p, k)', ~FoldedAt(p, k)'
               PROVE  \E q \in DOMAIN disk :
                        /\ k \in DOMAIN disk[q].places
                        /\ \/ Reach(disk, q, k) = Reach(before, p, k)
                           \/ /\ IsLink(At(disk[q], k))
                              /\ At(disk[q], k).pin \/ Crowded(At(disk[q], k))'
    BY <1>1 DEF LinksFollow
  <2>1. before[p] = held[p] /\ DOMAIN held = DOMAIN before /\ p \in DOMAIN held
    BY <1>3 DEF Kindred
  <2>2. Reach(held, p, k) = Reach(before, p, k)
    BY <1>3, <2>1, KindredReach
  <2>3. ~Spared(held, req, p, k)
    BY <1>1, <1>3, <2>1, SparedSame
  <2>4. PICK q \in DOMAIN F :
           /\ Heir(plan, p, q) /\ k \in DOMAIN F[q].places
           /\ \/ Reach(F, q, k) = Reach(held, p, k)
              \/ IsLink(At(F[q], k)) /\ Bears(held, F, NewHome(req), At(F[q], k))
    BY <1>4, <2>1, <2>2, <2>3 DEF Leads, F
  <2>5. F[q] = B[q]
    BY <1>4, <2>1, <2>4, ResultSame DEF F, B
  <2>6. Reach(B, q, k) = Reach(F, q, k)
    BY <1>6, <2>4, <2>5, KindredReach
  <2>7. DOMAIN B = DOMAIN F /\ DOMAIN disk = DOMAIN F /\ Grown(B[q], disk[q])
    BY <1>5, <1>6, <2>4 DEF GrownAll, Kindred
  <2>8. /\ k \in DOMAIN disk[q].places
        /\ \/ Reach(disk, q, k) = Reach(B, q, k)
           \/ IsLink(At(disk[q], k)) /\ At(disk[q], k).pin
        /\ IsLink(At(B[q], k)) =>
              IsLink(At(disk[q], k)) /\ At(disk[q], k).name = At(B[q], k).name
    BY <1>5, <2>4, <2>5, <2>7, GrownAllLaws, GrownReach
  <2>9. CASE Reach(F, q, k) = Reach(held, p, k)
    BY <2>2, <2>4, <2>6, <2>7, <2>8, <2>9
  <2>10. CASE IsLink(At(F[q], k)) /\ Bears(held, F, NewHome(req), At(F[q], k))
    <3>1. IsLink(At(disk[q], k)) /\ At(disk[q], k).name = At(F[q], k).name
      BY <2>5, <2>8, <2>10
    <3>2. Crowded(At(disk[q], k))'
      BY <1>1, <2>1, <2>7, <2>10, <3>1 DEF Crowded, Bears
    <3>3. QED
      BY <2>4, <2>7, <2>8, <3>1, <3>2
  <2>11. QED
    BY <2>4, <2>9, <2>10
<1>11. QED
  BY <1>1, <1>8, <1>9, <1>10 DEF PlanInv, GrowthInv

LEMMA WatchLinks == ASSUME Inv, LinksInv, NEW p, Watch(p) PROVE LinksInv'
<1> USE DEF LinksInv
<1>1. /\ pc = "idle" /\ held' = Taking(held, disk, {p})
      /\ UNCHANGED <<disk, head, roles, req, job, pc, todo, cur, outcome, read, before,
                     strange, edits, late, verbs>>
  BY DEF Watch
<1>2. Kindred(disk, held) /\ Distinct(head) /\ Kindred(head, held)
  BY <1>1 DEF KinInv
<1>3. Kindred(disk, held')
  <2>1. ASSUME NEW q PROVE  /\ q \in DOMAIN held' <=> q \in DOMAIN disk
                            /\ q \in DOMAIN disk => Akin(disk[q], held'[q])
    <3>1. CASE q = p
      BY <1>1, <3>1, TakingPaths, AkinLaws
    <3>2. CASE q # p
      BY <1>1, <1>2, <3>2, TakingPaths DEF Kindred
    <3>3. QED
      BY <3>1, <3>2
  <2>2. DOMAIN held' = DOMAIN disk
    BY <2>1
  <2>3. QED
    BY <2>1, <2>2 DEF Kindred
<1>4. Kindred(head, held')
  BY <1>2, <1>3, KindredLaws
<1>5. Distinct(held')
  BY <1>2, <1>4, KindredDistinct
<1>6. FormInv'
  <2>1. ASSUME NEW q \in DOMAIN held' PROVE Proper(held'[q])
    BY <1>1, TakingPaths DEF FormInv, AllProper
  <2>2. QED
    BY <1>1, <2>1 DEF FormInv, AllProper
<1>7. KinInv'
  <2>1. Kindred(disk', held') /\ Kindred(head', held')
    BY <1>1, <1>3, <1>4
  <2>2. QED
    BY <1>1, <1>2, <1>5, <2>1 DEF KinInv
<1>8. LinksFollow'
  <2>1. \A q, k : /\ LeftBehind(q, k)' <=> LeftBehind(q, k)
                  /\ ValueMoves(q, k)' <=> ValueMoves(q, k)
                  /\ FoldedAt(q, k)' <=> FoldedAt(q, k)
    BY <1>1 DEF LeftBehind, ValueMoves, FoldedAt
  <2>2. \A l : Crowded(l)' <=> Crowded(l)
    BY <1>1 DEF Crowded
  <2>3. QED
    BY <1>1, <2>1, <2>2 DEF LinksFollow
<1>9. QED
  BY <1>1, <1>6, <1>7, <1>8 DEF PlanInv, GrowthInv

\* Other things in the same places, and places people add.
LEMMA ProperGrows ==
    ASSUME NEW c, NEW e, Proper(c), Grown(c, e), DOMAIN e = DOMAIN c, e.body = c.body,
           \A k \in DOMAIN c.places :
              /\ DOMAIN e.places[k] = DOMAIN c.places[k] /\ e.places[k].in = c.places[k].in
              /\ DOMAIN At(e, k) = DOMAIN At(c, k)
              /\ IsLink(At(e, k)) /\ At(e, k).name = Local => At(e, k).repo = NoRepo,
           \A k \in DOMAIN e.places \ DOMAIN c.places :
              /\ DOMAIN e.places[k] = {"in", "slot", "holds"} /\ DOMAIN At(e, k) = LinkFields
              /\ At(e, k).name = Local => At(e, k).repo = NoRepo
              /\ k[1] = "e" => Jot(k, e.places[k]) /\ k[2] \in Entities(e)
    PROVE  Proper(e)
<1>1. /\ e.me = c.me /\ Records(e) = Records(c) /\ Entities(e) = Entities(c)
      /\ \A k \in Records(c) : At(e, k) = At(c, k)
      /\ \A k \in DOMAIN c.places : e.places[k].slot = c.places[k].slot
  BY DEF Grown, Akin, Later, Entities
<1>2. ASSUME NEW k \in DOMAIN e.places
      PROVE  /\ DOMAIN e.places[k] = {"in", "slot", "holds"}
             /\ DOMAIN At(e, k) \in {RecordFields, LinkFields, ClaimFields}
             /\ IsLink(At(e, k)) /\ At(e, k).name = Local => At(e, k).repo = NoRepo
             /\ k[1] = "e" => Jot(k, e.places[k]) /\ k[2] \in Entities(e)
  <2>1. CASE k \in DOMAIN c.places
    <3>1. /\ DOMAIN c.places[k] = {"in", "slot", "holds"}
          /\ DOMAIN At(c, k) \in {RecordFields, LinkFields, ClaimFields}
          /\ k[1] = "e" => Jot(k, c.places[k]) /\ k[2] \in Entities(c)
      BY <2>1 DEF Proper
    <3>2. IsLink(At(e, k)) <=> IsLink(At(c, k))
      BY <2>1 DEF IsLink
    <3>3. QED
      BY <1>1, <2>1, <3>1, <3>2 DEF Jot, At
  <2>2. CASE k \notin DOMAIN c.places
    BY <2>2
  <2>3. QED
    BY <2>1, <2>2
<1>3. \A k \in Records(e) :
          /\ At(e, k).me # e.me
          /\ e.places[k].slot = "prose" => e.body /\ e.places[k].in = e.me
          /\ \A j \in Records(e) \ {k} :
                At(e, j).me # At(e, k).me /\ (At(e, j).id = NoId \/ At(e, j).id # At(e, k).id)
  <2>1. \A k \in Records(c) : k \in DOMAIN c.places
    BY DEF Records
  <2>2. QED
    BY <1>1, <2>1 DEF Proper
<1>4. DOMAIN e = {"me", "body", "places"}
  BY DEF Proper
<1>5. QED
  BY <1>2, <1>3, <1>4 DEF Proper

\* A person adds a place to a file or pins a link in it.
LEMMA EditGrows ==
    ASSUME Tidy, AllProper(disk), NEW p \in DOMAIN disk, NEW k, NEW committed, Edit(p, k, committed)
    PROVE  /\ DOMAIN disk' = DOMAIN disk /\ \A q \in DOMAIN disk \ {p} : disk'[q] = disk[q]
           /\ Grown(disk[p], disk'[p]) /\ Proper(disk'[p])
<1> DEFINE c == disk[p]
           e == disk'[p]
           jot == <<"e", c.me>>
           place == [in |-> c.me, slot |-> "prose", holds |-> Jotted]
<1>1. Proper(c)
  BY DEF AllProper
<1>2. CASE /\ k = jot /\ k \notin DOMAIN c.places
           /\ disk' = [disk EXCEPT ![p].places = Over(Only(k, place), @)]
  <2>1. /\ DOMAIN disk' = DOMAIN disk /\ \A q \in DOMAIN disk \ {p} : disk'[q] = disk[q]
        /\ e = [c EXCEPT !.places = Over(Only(k, place), @)]
    BY <1>2
  <2>2. k[1] = "e" /\ k[2] = c.me
    BY <1>2
  <2> HIDE DEF c, e
  <2>3. /\ DOMAIN e = DOMAIN c /\ e.me = c.me /\ e.body = c.body
        /\ DOMAIN e.places = DOMAIN c.places \cup {k}
        /\ e.places[k] = place /\ \A j \in DOMAIN c.places : e.places[j] = c.places[j]
    BY <1>1, <1>2, <2>1 DEF Over, Only, Proper
  <2>4. /\ DOMAIN place = {"in", "slot", "holds"} /\ place.holds = Jotted
        /\ place.slot = "prose" /\ place.in = c.me
    OBVIOUS
  <2>5. /\ IsLink(Jotted) /\ ~IsRecord(Jotted) /\ DOMAIN Jotted = LinkFields
        /\ Jotted.name = Local => Jotted.repo = NoRepo
    BY RefactorAssumption DEF Tidy
  <2> HIDE DEF place, jot
  <2>6. At(e, k) = Jotted /\ \A j \in DOMAIN c.places : At(e, j) = At(c, j)
    BY <2>3, <2>4 DEF At
  <2>7. Records(e) = Records(c)
    BY <2>3, <2>5, <2>6 DEF Records
  <2>8. Keys(e) = Keys(c)
    BY <2>2, <2>3 DEF Keys
  <2>9. Grown(c, e)
    BY <2>3, <2>6, <2>7, <2>8 DEF Grown, Akin, Later, Records
  <2>10. Jot(k, e.places[k]) /\ k[2] \in Entities(e)
    BY <2>2, <2>3, <2>4, <2>5 DEF Jot, Entities
  <2>11. \A j \in DOMAIN c.places :
            IsLink(At(c, j)) /\ At(c, j).name = Local => At(c, j).repo = NoRepo
    BY <1>1 DEF Proper
  <2>12. \A j \in DOMAIN e.places \ DOMAIN c.places : j = k
    BY <2>3
  <2>13. Proper(e)
    BY <1>1, <2>3, <2>4, <2>5, <2>6, <2>9, <2>10, <2>11, <2>12, ProperGrows
  <2>14. QED
    BY <2>1, <2>9, <2>13 DEF c, e
<1>3. CASE /\ k \in DOMAIN c.places /\ IsLink(At(c, k)) /\ ~At(c, k).pin
           /\ disk' = [disk EXCEPT ![p].places[k].holds.pin = TRUE]
  <2>1. /\ DOMAIN disk' = DOMAIN disk /\ \A q \in DOMAIN disk \ {p} : disk'[q] = disk[q]
        /\ e = [c EXCEPT !.places[k].holds.pin = TRUE]
    BY <1>3
  <2> HIDE DEF c, e
  <2>2. /\ DOMAIN e = DOMAIN c /\ e.me = c.me /\ e.body = c.body /\ DOMAIN e.places = DOMAIN c.places
        /\ e.places[k] = [c.places[k] EXCEPT !.holds.pin = TRUE]
        /\ \A j \in DOMAIN c.places \ {k} : e.places[j] = c.places[j]
    BY <1>1, <1>3, <2>1 DEF Proper
  <2>3. /\ DOMAIN c.places[k] = {"in", "slot", "holds"}
        /\ DOMAIN At(c, k) = {"name", "repo", "id", "ref", "head", "pin"} /\ ~IsRecord(At(c, k))
    BY <1>1, <1>3, PlaceKinds
  <2>4. /\ DOMAIN e.places[k] = DOMAIN c.places[k] /\ e.places[k].in = c.places[k].in
        /\ e.places[k].slot = c.places[k].slot
        /\ At(e, k) = [At(c, k) EXCEPT !.pin = TRUE]
    BY <2>2, <2>3 DEF At
  <2>5. /\ DOMAIN At(e, k) = DOMAIN At(c, k) /\ At(e, k).name = At(c, k).name
        /\ At(e, k).repo = At(c, k).repo /\ At(e, k).pin
    BY <2>3, <2>4
  <2>6. IsLink(At(e, k)) /\ ~IsRecord(At(e, k))
    BY <1>3, <2>3, <2>5 DEF IsLink, IsRecord
  <2>7. \A j \in DOMAIN c.places \ {k} : At(e, j) = At(c, j)
    BY <2>2 DEF At
  <2>8. Records(e) = Records(c) /\ k \notin Records(c)
    BY <2>2, <2>3, <2>6, <2>7 DEF Records
  <2>9. \A j \in Records(c) : At(e, j) = At(c, j)
    BY <2>7, <2>8 DEF Records
  <2>10. Keys(e) = Keys(c)
    BY <2>2 DEF Keys
  <2>11. \A j \in DOMAIN c.places : Later(c.places[j], e.places[j])
    BY <1>3, <2>2, <2>4, <2>5, <2>6 DEF Later, At
  <2>12. Grown(c, e)
    BY <2>2, <2>8, <2>9, <2>10, <2>11 DEF Grown, Akin
  <2>13. \A j \in DOMAIN c.places :
            IsLink(At(c, j)) /\ At(c, j).name = Local => At(c, j).repo = NoRepo
    BY <1>1 DEF Proper
  <2>14. ASSUME NEW j \in DOMAIN c.places
         PROVE  /\ DOMAIN e.places[j] = DOMAIN c.places[j] /\ e.places[j].in = c.places[j].in
                /\ DOMAIN At(e, j) = DOMAIN At(c, j)
                /\ IsLink(At(e, j)) /\ At(e, j).name = Local => At(e, j).repo = NoRepo
    <3>1. CASE j = k
      BY <1>3, <2>4, <2>5, <2>13, <3>1
    <3>2. CASE j # k
      <4>1. j \in DOMAIN c.places \ {k}
        BY <3>2
      <4>2. e.places[j] = c.places[j] /\ At(e, j) = At(c, j)
        BY <2>2, <2>7, <4>1
      <4>3. QED
        BY <2>13, <4>2
    <3>3. QED
      BY <3>1, <3>2
  <2>15. Proper(e)
    BY <1>1, <2>2, <2>12, <2>14, ProperGrows
  <2>16. QED
    BY <2>1, <2>12, <2>15 DEF c, e
<1>4. QED
  BY <1>2, <1>3 DEF Edit

Crowds(a, d, r, l) ==
    \E f \in DOMAIN a \cap DOMAIN d :
        f # NewHome(r) /\ f.repo = NewHome(r).repo /\ f.stem = NewHome(r).stem /\ l.name.stem = f.stem

LEMMA EditLinks ==
    ASSUME Tidy, Inv, LinksInv, NEW p \in DOMAIN disk, NEW k, NEW committed, Edit(p, k, committed)
    PROVE  LinksInv'
<1> USE DEF LinksInv
<1>1. /\ DOMAIN disk' = DOMAIN disk /\ \A q \in DOMAIN disk \ {p} : disk'[q] = disk[q]
      /\ Grown(disk[p], disk'[p]) /\ Proper(disk'[p])
  BY EditGrows DEF FormInv
<1>2. UNCHANGED <<held, roles, req, job, pc, todo, cur, outcome, read, before, strange, verbs>>
  BY DEF Edit
<1>3. /\ DOMAIN head' = DOMAIN head /\ \A q \in DOMAIN head \ {p} : head'[q] = head[q]
      /\ \/ p \in DOMAIN head /\ head[p] = disk[p] /\ head'[p] = disk'[p]
         \/ head' = head
  BY DEF Edit, Same
<1>4. GrownAll(disk, disk') /\ GrownAll(head, head')
  BY <1>1, <1>3, GrownLaws DEF GrownAll
<1>5. Kindred(disk, disk') /\ Kindred(head, head')
  BY <1>4, GrownAllLaws
<1>6. \A q \in DOMAIN disk : Grown(disk[q], disk'[q])
  BY <1>4 DEF GrownAll
<1>7. \A q \in DOMAIN head : Grown(head[q], head'[q])
  BY <1>4 DEF GrownAll
<1>8. FormInv'
  BY <1>1, <1>2, <1>3 DEF FormInv, AllProper
<1>9. KinInv'
  <2>1. Distinct(head')
    BY <1>5, KindredDistinct DEF KinInv
  <2>2. /\ Kindred(head, disk) => Kindred(head', disk')
        /\ Kindred(head, held) => Kindred(head', held)
        /\ Kindred(disk, held) => Kindred(disk', held)
    BY <1>5, KindredLaws
  <2>3. QED
    BY <1>2, <2>1, <2>2 DEF KinInv
<1>10. PlanInv'
  <2> SUFFICES ASSUME pc # "idle" PROVE PlanInv'
    BY <1>2 DEF PlanInv
  <2>1. PICK plan : Pursues(plan)
    BY DEF PlanInv
  <2>2. pc \in {"read", "write", "rebuild"} =>
           GrownAll(Result(before, plan), Ending(Amended(disk', todo, job), job.last))
    <3> SUFFICES ASSUME pc \in {"read", "write", "rebuild"}
                 PROVE  GrownAll(Result(before, plan), Ending(Amended(disk', todo, job), job.last))
      OBVIOUS
    <3>1. GrownAll(Result(before, plan), Ending(Amended(disk, todo, job), job.last))
      BY <2>1 DEF Pursues
    <3>2. ToCome(job.last)
      BY DEF Inv, PhaseInv, GrowthInv, ToCome
    <3>3. GrownAll(Ending(Amended(disk, todo, job), job.last), Ending(Amended(disk', todo, job), job.last))
      BY <1>4, <3>2, AmendedGrows, EndingGrows
    <3>4. QED
      BY <3>1, <3>3, GrownAllLaws
  <2>3. Pursues(plan)'
    BY <1>1, <1>2, <2>1, <2>2 DEF Pursues
  <2>4. QED
    BY <1>2, <2>3 DEF PlanInv
<1>11. GrowthInv'
  <2> SUFFICES ASSUME pc # "idle" PROVE GrowthInv'
    BY <1>2 DEF GrowthInv
  <2>1. pc \in {"check", "open"} => GrownAll(before, disk')
    BY <1>4, GrownAllLaws DEF GrowthInv
  <2>2. pc \in {"open", "read", "write"} =>
           \A q \in (DOMAIN before \cap job.touched) \ strange : Grown(before[q], head'[q])
    <3> SUFFICES ASSUME pc \in {"open", "read", "write"},
                        NEW q \in (DOMAIN before \cap job.touched) \ strange
                 PROVE  Grown(before[q], head'[q])
      OBVIOUS
    <3>1. Grown(before[q], head[q])
      BY DEF GrowthInv
    <3>2. Kindred(head, held) /\ Kindred(before, held)
      BY DEF KinInv, PlanInv
    <3>3. q \in DOMAIN head
      BY <3>2 DEF Kindred
    <3>4. QED
      BY <1>7, <3>1, <3>3, GrownLaws
  <2>3. \A q : q \notin job.touched => /\ q \in DOMAIN before <=> q \in DOMAIN disk'
                                       /\ q \in DOMAIN before => Grown(before[q], disk'[q])
    BY <1>1, <1>6, GrownLaws DEF GrowthInv
  <2>4. pc = "write" => Grown(held[cur], disk'[cur])
    BY <1>6, GrownLaws DEF GrowthInv, Inv, InHandInv
  <2>5. pc = "rebuild" => job.last = <<>> /\ todo = {}
    BY DEF GrowthInv
  <2>6. QED
    BY <1>2, <2>1, <2>2, <2>3, <2>4, <2>5 DEF GrowthInv
<1>12. LinksFollow'
  <2>1. \A q, i : /\ LeftBehind(q, i)' <=> LeftBehind(q, i)
                  /\ ValueMoves(q, i)' <=> ValueMoves(q, i)
                  /\ FoldedAt(q, i)' <=> FoldedAt(q, i)
    BY <1>2 DEF LeftBehind, ValueMoves, FoldedAt
  <2>2. \A l : Crowded(l) => /\ outcome = "done"
                             /\ \A m : m.name = l.name => Crowds(before, disk', req, m)
    BY <1>1 DEF Crowded, Crowds
  <2> SUFFICES ASSUME pc = "idle",
                      NEW q \in DOMAIN before \ strange, NEW i \in DOMAIN before[q].places,
                      Reach(before, q, i) # {},
                      ~LeftBehind(q, i), ~ValueMoves(q, i), ~FoldedAt(q, i)
               PROVE  \E f \in DOMAIN disk' :
                        /\ i \in DOMAIN disk'[f].places
                        /\ \/ Reach(disk', f, i) = Reach(before, q, i)
                           \/ /\ IsLink(At(disk'[f], i))
                              /\ \/ At(disk'[f], i).pin
                                 \/ outcome = "done" /\ Crowds(before, disk', req, At(disk'[f], i))
    BY <1>2, <2>1 DEF LinksFollow, Crowded, Crowds
  <2>3. PICK f \in DOMAIN disk :
           /\ i \in DOMAIN disk[f].places
           /\ \/ Reach(disk, f, i) = Reach(before, q, i)
              \/ IsLink(At(disk[f], i)) /\ (At(disk[f], i).pin \/ Crowded(At(disk[f], i)))
    BY DEF LinksFollow
  <2>4. /\ i \in DOMAIN disk'[f].places
        /\ \/ Reach(disk', f, i) = Reach(disk, f, i)
           \/ IsLink(At(disk'[f], i)) /\ At(disk'[f], i).pin
        /\ IsLink(At(disk[f], i)) =>
              /\ IsLink(At(disk'[f], i)) /\ At(disk'[f], i).name = At(disk[f], i).name
              /\ At(disk[f], i).pin => At(disk'[f], i).pin
    BY <1>5, <1>6, <2>3, GrownReach
  <2>5. f \in DOMAIN disk'
    BY <1>1
  <2>6. QED
    BY <2>2, <2>3, <2>4, <2>5
<1>13. QED
  BY <1>8, <1>9, <1>10, <1>11, <1>12

LEMMA LinksSteps ==
    ASSUME Tidy, Inv, LinksInv, [Next]_vars
    PROVE  LinksInv'
<1>1. ASSUME NEW r \in Requests, Ask(r) PROVE LinksInv'
  BY <1>1, AskLinks
<1>2. ASSUME NEW p \in todo, ReadReferrer(p) PROVE LinksInv'
  BY <1>2, ReadReferrerLinks
<1>3. ASSUME NEW p \in DOMAIN disk, NEW k \in Penned, NEW committed \in BOOLEAN,
             Edit(p, k, committed)
      PROVE  LinksInv'
  BY <1>3, EditLinks
<1>4. ASSUME NEW p \in DOMAIN disk \cup DOMAIN held, Watch(p) PROVE LinksInv'
  BY <1>4, WatchLinks
<1>5. CASE Check
  BY <1>5, CheckLinks
<1>6. CASE Open
  BY <1>6, OpenLinks
<1>7. CASE WriteReferrer
  BY <1>7, WriteReferrerLinks
<1>8. CASE Finish
  BY <1>8, FinishLinks
<1>9. CASE Fail
  BY <1>9, FailLinks
<1>10. CASE Commit
  BY <1>10, CommitLinks
<1>11. CASE Rebuild
  BY <1>11, RebuildLinks
<1>12. CASE UNCHANGED vars
  <2>1. FormInv' /\ KinInv' /\ GrowthInv'
    BY <1>12 DEF vars, LinksInv, FormInv, AllProper, KinInv, GrowthInv
  <2>2. PlanInv'
    <3>1. CASE pc = "idle"
      BY <1>12, <3>1 DEF vars, PlanInv
    <3>2. CASE pc # "idle"
      <4>1. PICK plan : Pursues(plan)
        BY <3>2 DEF LinksInv, PlanInv
      <4>2. Pursues(plan)'
        BY <1>12, <4>1 DEF vars, Pursues
      <4>3. QED
        BY <1>12, <3>2, <4>2 DEF vars, LinksInv, PlanInv
    <3>3. QED
      BY <3>1, <3>2
  <2>3. LinksFollow'
    <3>1. \A q, i : /\ LeftBehind(q, i)' <=> LeftBehind(q, i)
                    /\ ValueMoves(q, i)' <=> ValueMoves(q, i)
                    /\ FoldedAt(q, i)' <=> FoldedAt(q, i)
      BY <1>12 DEF vars, LeftBehind, ValueMoves, FoldedAt
    <3>2. \A l : Crowded(l)' <=> Crowded(l)
      BY <1>12 DEF vars, Crowded
    <3>3. QED
      BY <1>12, <3>1, <3>2 DEF vars, LinksInv, LinksFollow
  <2>4. QED
    BY <2>1, <2>2, <2>3 DEF LinksInv
<1>13. QED
  BY <1>1, <1>2, <1>3, <1>4, <1>5, <1>6, <1>7, <1>8, <1>9, <1>10, <1>11, <1>12 DEF Next

\* After a verb, done, refused or rolled back, every reference leads to the file
\* or record it led to before, wherever the two now are, with the exceptions of
\* LinksFollow: rename, rename_type, promote, inline and rename_block_id rewrite
\* what the backlinks of the held state name, and refuse or roll back where the
\* bytes on disk are others (serve.rs, rename.rs, typerefs.rs).  The workspace
\* has no two records of one id in a file, no two types of one name in a repo,
\* and local links that name no repo (Tidy).
THEOREM ReferencesFollow ==
    ASSUME Tidy
    PROVE  Spec => []LinksFollow
<1>1. Init => Inv /\ LinksInv
  BY InitKeeps, InitLinks
<1>2. (Inv /\ LinksInv) /\ [Next]_vars => (Inv /\ LinksInv)'
  BY StepsKeep, LinksSteps
<1>3. Inv /\ LinksInv => LinksFollow
  BY DEF LinksInv
<1>4. QED
  BY <1>1, <1>2, <1>3, PTL DEF Spec
=============================================================================
