---------------------------- MODULE Incremental ----------------------------
(***************************************************************************)
(* The instance-only fast path of the knowledge base: a batch of changed   *)
(* files is spliced into the held knowledge base (recompute_dirty, then    *)
(* apply_recompute in incremental.rs) instead of being built from the      *)
(* whole catalog. incremental.rs opens with the promise this module is     *)
(* about: the spliced result is "byte-identical to a full build".          *)
(*                                                                         *)
(* The type graphs and the repos are fixed, as on the fast path. A parse   *)
(* keeps what other files can see of it: its kind, its claims, whether its *)
(* body carries the one block (or heading) that fragments address, and its *)
(* links. A file's diagnostics are abstracted to exactly what validating   *)
(* it READS of the rest of the knowledge base; two slices are equal iff    *)
(* the readings are. An inverted index is the relation it inverts (the     *)
(* code drops a bucket left empty, so no empty bucket tells them apart).   *)
(***************************************************************************)
EXTENDS Naturals, FiniteSets, Sequences

CONSTANTS Repos,        \* repo names
          Paths,        \* file paths
          File,         \* path -> [repo, dir, name, stem], spelled as on disk
          Lower,        \* a spelled name -> its lower-case form
          Dotted,       \* the names that carry an extension
          Alias,        \* a type-def's path -> the type name it is found by
          Assets,       \* paths whose content the build never reads
          TypeDefs,     \* paths of type definitions
          Ancestors,    \* type -> its closure, itself included
          Twins,        \* types a peer repo defines in sync with the own one
          Abortable,    \* repos whose type graph may have failed to build
          Contents,     \* path -> the contents it may have
          Unreadable,   \* whether a file may appear that cannot be read
          BatchLimit    \* how many files one batch of changes touches

ASSUME IncrementalAssumption ==
         /\ Assets \subseteq Paths /\ TypeDefs \subseteq Paths
         /\ DOMAIN Alias = TypeDefs
         /\ \A p \in Paths : File[p].repo \in Repos
         /\ \A p \in Paths : \A c \in Contents[p] : c.kind # "absent"
         /\ \A p \in Assets : \A c, e \in Contents[p] : c.kind = "asset" /\ c = e
         /\ IsFiniteSet(Paths)
         /\ Unreadable \in BOOLEAN /\ BatchLimit \in Nat

VARIABLES disk,     \* path -> its content, over the files there are
          kb,       \* the held knowledge base
          aborted   \* the repos without a type graph; no batch changes it

vars == <<disk, kb, aborted>>

-----------------------------------------------------------------------------
(* What of a parse other files see: au_core::RefData over the catalog.     *)

RepoOf(p) == File[p].repo
Typed(c) == c.kind = "instance"

\* The parse of p a referrer finds in a catalog, if it is a parsed instance.
ClaimsAt(cat, p) ==
  IF p \in DOMAIN cat /\ Typed(cat[p]) THEN <<cat[p].claims>> ELSE <<>>
BodyAt(cat, p) ==
  IF p \in DOMAIN cat /\ Typed(cat[p]) THEN cat[p].block ELSE "no body"

-----------------------------------------------------------------------------
(* Reference resolution, RepoIndex::resolve: the files of a repo's index   *)
(* that a link's target matches. None is "missing", several "ambiguous".   *)

Hits(index, r, l) ==
  LET files == {p \in index : RepoOf(p) = r}
      FirstOf(S, T) == IF S # {} THEN S ELSE T
      low == Lower[l.name]
  IN  IF l.dir # "none"
        THEN FirstOf({p \in files : File[p].dir = l.dir /\ File[p].name = l.name},
                     {p \in files : File[p].dir = l.dir /\ File[p].stem = l.name})
        ELSE FirstOf({p \in files : Lower[File[p].name] = low},
             FirstOf({p \in files : Lower[File[p].stem] = low},
                     {p \in files \cap TypeDefs : Alias[p] = low}))

\* The repo a link of source p names: its `::repo`, else p's own.
Toward(p, l) == IF l.repo = "own" THEN RepoOf(p) ELSE l.repo
HitsOf(index, p, l) == Hits(index, Toward(p, l), l)

\* Two files whose basenames differ only in case: a case collision.
Variants(p, q) == /\ RepoOf(p) = RepoOf(q)
                  /\ Lower[File[p].name] = Lower[File[q].name]
                  /\ File[p].name # File[q].name
Collisions(index) == {p \in index : \E q \in index : Variants(p, q)}

-----------------------------------------------------------------------------
(* The edges a source contributes to the backlink index, and the names it  *)
(* contributes to the referenced-name index.                               *)

\* walk_edges: a broken instance still has the links of its body.
LinksForming(c) ==
  IF c.kind \in {"instance", "broken", "note", "typedef"} THEN c.links ELSE {}

Sole(hits) == {t \in hits : hits = {t}}
Edges(index, p, c) ==
  UNION {{[source |-> p, target |-> t, slot |-> l.slot, frag |-> l.frag] :
            t \in Sole(HitsOf(index, p, l))} : l \in LinksForming(c)}

\* target_keys: the names by which a target string can match a file.
TargetKeys(l) ==
  IF l.dir = "none" THEN {<<"bare", Lower[l.name]>>}
  ELSE {<<"rel", l.dir, l.name>>}
       \cup IF l.name \in Dotted THEN {} ELSE {<<"stem", l.dir, l.name>>}

\* file_name_keys: the names a file is found under.
FileKeys(p) ==
  LET f == File[p]
  IN  {<<"bare", Lower[f.name]>>, <<"bare", Lower[f.stem]>>,
       <<"rel", f.dir, f.name>>, <<"stem", f.dir, f.stem>>}

\* source_name_keys: a broken instance is not among the sources.
Names(p, c) ==
  UNION {{[repo |-> Toward(p, l), key |-> k, source |-> p] : k \in TargetKeys(l)} :
            l \in IF c.kind \in {"instance", "note", "typedef"} THEN c.links ELSE {}}

\* instance_closure, as entries of the closure-membership index.
Memberships(p, c) ==
  IF Typed(c) /\ RepoOf(p) \notin aborted
    THEN {[repo |-> RepoOf(p), type |-> t, member |-> p] :
            t \in UNION {Ancestors[k.name] : k \in c.claims}}
    ELSE {}

-----------------------------------------------------------------------------
(* The fold of the peer types a repo's files claim, and what is read of    *)
(* the knowledge base when one file is validated.                          *)

Fold(cat) ==
  [r \in Repos |->
     UNION {{k \in cat[p].claims : k.repo # "own"} :
              p \in {q \in DOMAIN cat : Typed(cat[q]) /\ RepoOf(q) = r}}]

\* The served shape of p: each claim, and whose definition it resolves to. The
\* fold visits the imported seeds first, so a type a peer defines in sync is
\* attributed to the peer once any file of the repo imports it.
Shape(fold, p, c) ==
  {<<k, IF k.repo = "own" /\ \E s \in fold[RepoOf(p)] : s.name = k.name /\ k.name \in Twins
          THEN "peer" ELSE k.repo>> : k \in c.claims}
Resolved(fold, p, c) ==
  IF Typed(c) /\ RepoOf(p) \notin aborted THEN {Shape(fold, p, c)} ELSE {}

\* A link's target as validation reads it. A slot reads the claim of the file
\* it names, or with `^^` the block; a bare `^` and a `#` are anchors INTO the
\* file: its body is read as well, from a slot and from prose alike.
Fragment(cat, t, l) ==
  CASE l.frag = "none"     -> IF l.slot THEN <<ClaimsAt(cat, t)>> ELSE <<>>
    [] l.frag = "referent" -> <<BodyAt(cat, t)>>
    [] OTHER -> <<BodyAt(cat, t)>> \o IF l.slot THEN ClaimsAt(cat, t) ELSE <<>>

\* A `::repo` link is followed only from a typed slot, and not into a repo
\* whose types did not build; otherwise only its existence is checked.
Followed(p, l) == l.repo = "own" \/ (l.slot /\ Toward(p, l) \notin aborted)

Reading(cat, p, l) ==
  LET hits == HitsOf(DOMAIN cat, p, l)
  IN  [link |-> l, hits |-> hits,
       seen |-> IF Cardinality(hits) = 1 /\ Followed(p, l)
                  THEN Fragment(cat, CHOOSE t \in hits : TRUE, l) ELSE <<>>]

\* The links whose targets a slice of diagnostics is about: all of a validated
\* instance's, a type-def's docstring links, and the `::repo` links of an
\* instance or a note whether its repo aborted or not.
Checked(p, c) ==
  {l \in c.links : \/ c.kind = "instance" /\ RepoOf(p) \notin aborted
                   \/ c.kind \in {"instance", "note"} /\ l.repo # "own"
                   \/ c.kind = "typedef"}

Slice(cat, fold, p) ==
  [own |-> cat[p], shape |-> Resolved(fold, p, cat[p]),
   read |-> {Reading(cat, p, l) : l \in Checked(p, cat[p])}]

-----------------------------------------------------------------------------
(* The full build: every part from the whole catalog.                      *)

Over(cat, Of(_, _)) == UNION {Of(p, cat[p]) : p \in DOMAIN cat}

Build(cat) ==
  LET fold == Fold(cat)
      index == DOMAIN cat
  IN  [catalog    |-> cat,
       index      |-> index,
       collisions |-> Collisions(index),
       fold       |-> fold,
       resolved   |-> [p \in index |-> Resolved(fold, p, cat[p])],
       diags      |-> [p \in index |-> Slice(cat, fold, p)],
       backlinks  |-> UNION {Edges(index, p, cat[p]) : p \in index},
       names      |-> Over(cat, Names),
       members    |-> Over(cat, Memberships)]

-----------------------------------------------------------------------------
(* The splice of a dirty set d, reading the files as they are on disk.     *)

On(p) == p \in DOMAIN disk'
Held(p) == p \in DOMAIN kb.catalog

\* The dirty files that were read and parsed, and those that came or went.
Parsed(p) == p \notin Assets /\ On(p) /\ disk'[p].kind \notin {"unread", "large"}
Touched(d) == {p \in d : Parsed(p)}
Added(d) == {p \in d : ~Held(p) /\ On(p) /\ (Parsed(p) \/ p \in Assets)}
Deleted(d) == {p \in d : Held(p) /\ ~On(p)}

\* The catalog and the index as patched, which the whole splice reads.
PatchedIndex(d) == (kb.index \cup Added(d)) \ Deleted(d)
Patched(d) == [p \in PatchedIndex(d) |->
                 IF p \in d /\ (Parsed(p) \/ ~Held(p)) THEN disk'[p] ELSE kb.catalog[p]]

\* What a referrer sees of a changed file: the claim a whole-file slot reads,
\* and the block a fragment reads.
ClaimChanged(cat, p) == ClaimsAt(kb.catalog, p) # ClaimsAt(cat, p)
HeldBody(cat, p) ==
  IF p \in DOMAIN cat /\ cat[p].kind \in {"instance", "broken"}
    THEN cat[p].block ELSE "no body"
BlocksChanged(cat, p) == HeldBody(kb.catalog, p) # HeldBody(cat, p)

\* Mutant: every inbound slot is taken to read the claim of the whole file.
ReferrersOfClaims(d) ==
  LET cat == Patched(d)
  IN  {b.source : b \in {e \in kb.backlinks :
         /\ e.target \in Touched(d) /\ RepoOf(e.target) \notin aborted
         /\ e.slot /\ ClaimChanged(cat, e.target)}}

\* The inbound sources an edit re-validates: never along a link of prose.
Referrers(d) ==
  LET cat == Patched(d)
  IN  {b.source : b \in {e \in kb.backlinks :
         /\ e.target \in Touched(d) /\ RepoOf(e.target) \notin aborted
         /\ e.slot
         /\ IF e.frag \in {"block", "referent"} THEN BlocksChanged(cat, e.target)
                                                ELSE ClaimChanged(cat, e.target)}}

\* edge_flip_sources: whoever names a file that came or went.
FlipSources(d) ==
  LET found == UNION {{<<RepoOf(p), k>> : k \in FileKeys(p)} :
                         p \in Added(d) \cup Deleted(d)}
  IN  {n.source : n \in {m \in kb.names : <<m.repo, m.key>> \in found}}

\* Mutant: a note has no type, so it is not worth a second look.
TypedDependents(d) ==
  ((Referrers(d) \cup FlipSources(d)) \ (Touched(d) \cup Deleted(d)))
    \cap {p \in DOMAIN kb.catalog : Typed(kb.catalog[p])}

Dependents(d) ==
  ((Referrers(d) \cup FlipSources(d)) \ (Touched(d) \cup Deleted(d)))
    \cap DOMAIN kb.catalog

\* recompute_dirty gives up, and the caller builds in full.
Declines(d) ==
  \/ \E p \in d \ Assets : On(p) /\ disk'[p].kind = "large"
  \/ \E p \in d \ Assets : On(p) /\ disk'[p].kind = "unread" /\ Held(p)
  \/ \E p \in Added(d) \cup Deleted(d), q \in kb.index \cup Added(d) : Variants(p, q)
  \/ \E p \in Dependents(d) : kb.catalog[p].kind \notin {"instance", "note"}

\* classify_dirty: a type definition changes the graphs themselves.
NeedsFull(d) == d \cap TypeDefs # {}

\* apply_backlink_deltas for one source: its edges leave every target it had or
\* has, and its new ones enter.
EdgesIn(cat, p) == IF p \in DOMAIN cat THEN Edges(DOMAIN cat, p, cat[p]) ELSE {}
BacklinksAfter(d) ==
  LET cat   == Patched(d)
      moved == Touched(d) \cup Deleted(d) \cup Dependents(d)
      old   == UNION {EdgesIn(kb.catalog, p) : p \in moved}
      new   == UNION {EdgesIn(cat, p) : p \in moved}
      stale == {<<e.source, e.target>> : e \in old \cup new}
  IN  {b \in kb.backlinks : <<b.source, b.target>> \notin stale} \cup new

\* apply_refname_delta and apply_closure_deltas: the difference between what a
\* touched or deleted file contributed and what it now does.
Before(d, Of(_, _)) ==
  UNION {Of(p, kb.catalog[p]) : p \in (Touched(d) \cup Deleted(d)) \cap DOMAIN kb.catalog}
After(d, Of(_, _)) == UNION {Of(p, disk'[p]) : p \in Touched(d)}
Delta(held, d, Of(_, _)) == (held \ Before(d, Of)) \cup After(d, Of)
NamesAfter(d)   == Delta(kb.names, d, Names)
MembersAfter(d) == Delta(kb.members, d, Memberships)

\* recompute_dirty and apply_recompute.
Splice(d) ==
  LET cat == Patched(d)
      fold == Fold(cat)
      touched == Touched(d)
      sliced == touched \cup Dependents(d)
  IN  [catalog    |-> cat,
       index      |-> PatchedIndex(d),
       collisions |-> kb.collisions,
       fold       |-> fold,
       resolved   |-> [p \in DOMAIN cat |->
                         IF p \in touched THEN Resolved(fold, p, cat[p])
                         ELSE IF Held(p) THEN kb.resolved[p] ELSE {}],
       diags      |-> [p \in DOMAIN cat |->
                         IF p \in sliced THEN Slice(cat, fold, p)
                         ELSE IF Held(p) THEN kb.diags[p] ELSE Slice(cat, fold, p)],
       backlinks  |-> BacklinksAfter(d),
       names      |-> NamesAfter(d),
       members    |-> MembersAfter(d)]

-----------------------------------------------------------------------------

Absent == [kind |-> "absent"]

\* A batch of changes lands: each file of d is written anew or removed.
Batch(d) ==
  \E new \in [d -> UNION {Contents[p] : p \in d} \cup {Absent}] :
    /\ \A p \in d : /\ new[p] \in Contents[p] \cup {Absent}
                    /\ new[p].kind = "unread" => Unreadable \/ p \in DOMAIN disk
    /\ disk' = [p \in {q \in (DOMAIN disk) \cup d : q \in d => new[q] # Absent} |->
                  IF p \in d THEN new[p] ELSE disk[p]]

Batches == {d \in SUBSET Paths : Cardinality(d) \in 1..BatchLimit}

\* rebuild_resolved_from: the splice when it may be taken, else a full build.
Spliced == \E d \in Batches : /\ Batch(d)
                              /\ ~NeedsFull(d) /\ ~Declines(d)
                              /\ kb' = Splice(d)
                              /\ UNCHANGED aborted
Rebuilt == \E d \in Batches : /\ Batch(d)
                              /\ NeedsFull(d) \/ Declines(d)
                              /\ kb' = Build(disk')
                              /\ UNCHANGED aborted

\* However batches follow each other, every file's diagnostics and served shape
\* are those a full build would give it: recompute_dirty re-validates each file
\* whose diagnostics depend on one that changed, came or went.
DiagnosticsAgree == LET built == Build(disk) IN /\ kb.diags = built.diags
                                                /\ kb.resolved = built.resolved

\* So are the backlinks (no edge outlives the link or the file it came from,
\* and a link that a new file makes ambiguous, or a removal makes unique, is
\* unlinked or linked though its source did not change), the catalog, the path
\* index with its case collisions, the fold of the claimed peer types, the
\* referenced names the next splice finds its flips by, and the members of each
\* type's closure.
IndicesAgree ==
  LET built == Build(disk)
  IN  \A part \in {"backlinks", "catalog", "index", "collisions", "fold", "names", "members"} :
        kb[part] = built[part]

Init == /\ aborted \in SUBSET Abortable
        /\ disk = [p \in {} |-> {}]
        /\ kb = Build(disk)
Next == Spliced \/ Rebuilt
Spec == Init /\ [][Next]_vars
=============================================================================
