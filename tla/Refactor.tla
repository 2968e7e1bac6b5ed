------------------------------ MODULE Refactor ------------------------------
(* The verbs that move a file, a record, an id or a type and rewrite every *)
(* reference to it (serve.rs handle_mutation, rename.rs, promote.rs,       *)
(* inline.rs, typerefs.rs), beside people who edit the same files.  What   *)
(* is rewritten is found in the knowledge base held when the verb begins;  *)
(* what is written is checked against the disk file by file.  A file is    *)
(* reduced to the places in it that hold a reference or a record.          *)
EXTENDS Naturals, FiniteSets, Sequences, Functions

CONSTANTS Workspaces, \* [files, roles] to begin with
          Requests,   \* what clients ask for
          FreshIds,   \* block ids the engine generates
          Jotted,     \* the link people add to files
          Penned,     \* the places people write at
          MaxVerbs, MaxEdits

VARIABLES
    disk, head,   \* the files, in the working trees and as committed
    held,         \* the files as the knowledge base has them
    roles,        \* which repositories the engine may write, which are in git
    req, job,     \* the verb under way and what it is about to write
    pc, todo,     \* its phase; the referrers, then the writes, still to come
    cur, outcome,
    read,         \* files it has read and not yet written
    before, strange,  \* history: the files when it began, those it did not know
    edits, late,      \* history: what people wrote, and what of it too late
    exposed,          \* history: what of it a rollback of the verb takes away
    verbs

vars == <<disk, head, held, roles, req, job, pc, todo, cur, outcome, read,
          before, strange, edits, late, exposed, verbs>>

\* A path is [repo, dir, stem, ext]; a file [me, body, places], where `me` is
\* the entity it is.  A place [in, slot, holds] lies in an entity of the file
\* and holds a record [me, id], a link [name, repo, id, ref, head, pin] or the
\* claim of a type [type, repo].
IsRecord(x) == "me" \in DOMAIN x
IsLink(x)   == "name" \in DOMAIN x
IsClaim(x)  == "type" \in DOMAIN x
NoId   == ""
NoRepo == ""
Def(p) == p.ext = "type"

\* A place holds one thing, and has one name wherever a verb takes it.
WellFormed(c) ==
    /\ "places" \in DOMAIN c
    /\ \A k \in DOMAIN c.places :
          LET s == c.places[k]
          IN  "holds" \in DOMAIN s /\ (IsLink(s.holds) => ~IsRecord(s.holds) /\ "pin" \in DOMAIN s.holds)

Verbs == {"rename", "promote", "inline", "rename_block_id", "rename_type"}

ASSUME RefactorAssumption ==
    /\ \A w \in Workspaces : \A p \in DOMAIN w.files :
          /\ WellFormed(w.files[p])
          /\ \A q \in DOMAIN w.files \ {p} :
                DOMAIN w.files[p].places \cap DOMAIN w.files[q].places = {}
    /\ \A r \in Requests : r.verb \in Verbs
    /\ IsLink(Jotted) /\ ~IsRecord(Jotted) /\ "pin" \in DOMAIN Jotted

-----------------------------------------------------------------------------
(* Names.                                                                  *)

Local   == [dir |-> "", stem |-> "", ext |-> ""]
Full(p) == [dir |-> p.dir, stem |-> p.stem, ext |-> p.ext]
Base(p) == [dir |-> "", stem |-> p.stem, ext |-> p.ext]
Stem(p) == [dir |-> "", stem |-> p.stem, ext |-> ""]
DirStem(p) == [dir |-> p.dir, stem |-> p.stem, ext |-> ""]

\* RepoIndex::resolve: by path, else by basename, else by stem, else by the
\* name of a type.
Matches(d, repo, n) ==
    LET files == {p \in DOMAIN d : p.repo = repo}
        exact == {p \in files : n = Full(p)}
        base  == {p \in files : n = Base(p)}
        stem  == {p \in files : ~Def(p) /\ n \in {Stem(p), DirStem(p)}}
        alias == {p \in files : Def(p) /\ n = Stem(p)}
    IN  CASE n.dir # "" /\ exact # {} -> exact
          [] n.dir # "" /\ exact = {} -> stem
          [] n.dir = "" /\ base # {}  -> base
          [] n.dir = "" /\ base = {} /\ stem # {} -> stem
          [] OTHER -> alias

\* resolve_link: a pin is inert, the local form is the file it is in.
Home(p, x) == IF x.repo = NoRepo THEN p.repo ELSE x.repo
Found(d, p, l) ==
    IF l.pin THEN {} ELSE IF l.name = Local THEN {p}
    ELSE LET m == Matches(d, Home(p, l), l.name) IN IF \E f \in m : m = {f} THEN m ELSE {}

\* rewritten_target: the new name in the spelling of the old one.
RewrittenTarget(n, from, to) ==
    CASE n = Full(from) -> Full(to)
      [] n # Full(from) /\ from.dir # "" /\ ~Def(from) /\ n = DirStem(from) ->
            IF to.dir = "" THEN Stem(to) ELSE DirStem(to)
      [] n # Full(from) /\ n = Base(from) -> Base(to)
      [] OTHER -> Stem(to)

-----------------------------------------------------------------------------
(* The index of references and what a verb does to a file.                 *)

At(c, k)   == c.places[k].holds
Records(c) == {k \in DOMAIN c.places : IsRecord(At(c, k))}
Inlines(c) == {k \in Records(c) : c.places[k].slot # "prose"}
IdsOf(c, ks) == {At(c, k).id : k \in ks} \ {NoId}
HostBlockIds(c) == IdsOf(c, Records(c))

\* The entities that lie in m, at any depth: those in every set that holds m
\* and, with an entity, the records in it.
Within(c, m) ==
    LET rs  == Records(c)
        all == {m} \cup {At(c, j).me : j \in rs}
        Closed(es) == \A j \in rs : c.places[j].in \in es => At(c, j).me \in es
    IN  {e \in all : \A es \in SUBSET all : m \in es /\ Closed(es) => e \in es}
Subtree(c, k) ==
    LET es == Within(c, At(c, k).me) IN {k} \cup {j \in DOMAIN c.places : c.places[j].in \in es}

Links(d, p, f) == {k \in DOMAIN d[p].places : IsLink(At(d[p], k)) /\ f \in Found(d, p, At(d[p], k))}
Backlinks(d, f) == UNION {{<<p, k>> : k \in Links(d, p, f)} : p \in DOMAIN d}
Sources(bls)   == {b[1] : b \in bls}
KeysIn(bls, p) == {b[2] : b \in {c \in bls : c[1] = p}}

\* f, and g where f has nothing; x at k alone.
Over(f, g) == [k \in DOMAIN f \cup DOMAIN g |-> IF k \in DOMAIN f THEN f[k] ELSE g[k]]
Only(k, x) == [j \in {k} |-> x]

\* rewrite_refs: what the places of c hold instead.
Rewrite(c, new) ==
    [c EXCEPT !.places = [k \in DOMAIN @ |->
        IF k \in DOMAIN new THEN [@[k] EXCEPT !.holds = new[k]] ELSE @[k]]]

\* The referrers, each with the places in it to rewrite.
Spans(bls) == [p \in Sources(bls) |-> KeysIn(bls, p)]

\* A job: what must be as held when the write begins, what must not exist, the
\* referrers with their new content, the places by which a referrer may be
\* excused from the clean check, and the writes that end it.
Job(hosts, absent, rewrite, spans, last, touched) ==
    [hosts |-> hosts, absent |-> absent, rewrite |-> rewrite, spans |-> spans,
     last |-> last, touched |-> touched \cup DOMAIN rewrite, exempt |-> {}]
NoJob   == Job({}, {}, <<>>, <<>>, <<>>, {})
Refused == NoJob
Put(p, c)  == [op |-> "put", to |-> p, file |-> c]
Move(p, q) == [op |-> "move", from |-> p, to |-> q]
Remove(p)  == [op |-> "remove", from |-> p]

Writable(p) == p.repo \in roles.editable

-----------------------------------------------------------------------------
(* rename *)
RenamedLinks(kb, bls, p, from, to) ==
    [k \in KeysIn(bls, p) |->
        [At(kb[p], k) EXCEPT !.name = RewrittenTarget(@, from, to)]]

Rename(kb, from, to) ==
    LET bls == Backlinks(kb, from) IN
    IF Def(from) \/ Def(to) \/ from.repo # to.repo \/ ~Writable(from) THEN Refused
    ELSE Job({}, {}, [p \in Sources(bls) |-> Rewrite(kb[p], RenamedLinks(kb, bls, p, from, to))],
             Spans(bls), <<Move(from, to)>>, {from, to})

-----------------------------------------------------------------------------
(* promote: the record at place k of h becomes the file `to`. *)

\* Mutant of PromotedLink: nested ids collapse to the file as well.
CollapsedLink(l, own, to) == [l EXCEPT !.name = Stem(to), !.head = FALSE, !.id = NoId]

PromotedLink(l, own, to) ==
    [l EXCEPT !.name = Stem(to), !.head = FALSE, !.id = IF @ = own THEN NoId ELSE @]

WholeFile(to) == [name |-> Stem(to), repo |-> NoRepo, id |-> NoId, ref |-> FALSE,
                  head |-> FALSE, pin |-> FALSE]

Promote(kb, h, k, to) ==
    LET c     == kb[h]
        own   == At(c, k).id
        tree  == Subtree(c, k)
        ids   == IdsOf(c, tree \cap Inlines(c))
        bls   == {b \in Backlinks(kb, h) : At(kb[b[1]], b[2]).id \in ids}
        outer == {b \in bls : b[1] # h \/ b[2] \notin tree}
        new(p, ks) == [j \in ks |-> PromotedLink(At(kb[p], j), own, to)]
        moved == Rewrite(c, new(h, KeysIn(bls, h) \cap tree))
        host  == Rewrite(c, Over(new(h, KeysIn(outer, h)), Only(k, WholeFile(to))))
    IN
    IF \/ h \notin DOMAIN kb \/ Def(h) \/ h.repo # to.repo \/ Def(to) \/ ~Writable(h)
       \/ k \notin Inlines(c)
       \/ c.places[k].slot = "bare"
       \/ \E b \in outer : ~At(kb[b[1]], b[2]).ref /\ kb[b[1]].places[b[2]].slot # "prose"
    THEN Refused
    ELSE Job({h}, {to}, [p \in Sources(outer) \ {h} |-> Rewrite(kb[p], new(p, KeysIn(outer, p)))],
             Spans(outer),
             <<Put(to, [me |-> At(c, k).me, body |-> FALSE,
                        places |-> Restrict(moved.places, tree \ {k})]),
               Put(h, [host EXCEPT !.places = Restrict(@, (DOMAIN @ \ tree) \cup {k})])>>,
             {h, to})

-----------------------------------------------------------------------------
(* inline: the file f becomes the record at place k of `into`, which holds *)
(* a reference to it.                                                      *)

\* Fresh ids for the record and for every id of f that `into` has too; that
\* there are none left is a bound, FreshIds.
Renamings(kb, f, into) ==
    LET taken == HostBlockIds(kb[f]) \cup HostBlockIds(kb[into])
        both  == (HostBlockIds(kb[f]) \cap HostBlockIds(kb[into])) \cup {NoId}
    IN  {g \in [both -> FreshIds \ taken] : IsInjective(g)}
FreshFor(kb, f, into) == CHOOSE g \in Renamings(kb, f, into) : TRUE

\* map_bid: the id a reference to f has under its new home; what was the whole
\* file is now a record, and is its value.
Rehomed(l, fresh) ==
    [l EXCEPT !.id = IF @ \in DOMAIN fresh THEN fresh[@] ELSE @,
              !.ref = IF l.id = NoId THEN TRUE ELSE @, !.head = FALSE]

Inline(kb, f, into, k) ==
    LET bls   == Backlinks(kb, f)
        fresh == FreshFor(kb, f, into)
        cross == {b \in bls : b[1] \notin {f, into}}
        others == {b \in bls : b[1] # f /\ b # <<into, k>>}
        near(p) == [j \in KeysIn(bls, p) |->
                      [Rehomed(At(kb[p], j), fresh) EXCEPT !.name = Local, !.repo = NoRepo]]
        far(p)  == [j \in KeysIn(bls, p) |->
                      [Rehomed(At(kb[p], j), fresh) EXCEPT !.name = Stem(into)]]
        ids   == [j \in Records(kb[f]) |->
                      [At(kb[f], j) EXCEPT !.id = IF @ # NoId /\ @ \in DOMAIN fresh
                                                  THEN fresh[@] ELSE @]]
        rec   == Only(k, [me |-> kb[f].me, id |-> fresh[NoId]])
    IN
    IF \/ f = into \/ Def(f) \/ Def(into) \/ f.repo # into.repo \/ ~Writable(f) \/ {f, into} \ DOMAIN kb # {}
       \/ kb[f].body
       \/ Renamings(kb, f, into) = {}
       \/ <<into, k>> \notin bls
       \/ kb[into].places[k].slot # "amp"
       \/ \E b \in others : \/ kb[b[1]].places[b[2]].slot = "file"
                            \/ At(kb[b[1]], b[2]).head
    THEN Refused
    ELSE Job({into, f}, {}, [p \in Sources(cross) |-> Rewrite(kb[p], far(p))],
             Spans(cross),
             <<Put(into, [kb[into] EXCEPT !.places =
                   Over(Rewrite(kb[into], Over(rec, near(into))).places,
                        Rewrite(kb[f], Over(ids, near(f))).places)]),
               Remove(f)>>,
             {into, f})

-----------------------------------------------------------------------------
(* rename_block_id *)
RenameBlockId(kb, h, id, new) ==
    LET decl == {k \in Inlines(kb[h]) : At(kb[h], k).id = id}
        bls  == {b \in Backlinks(kb, h) : At(kb[b[1]], b[2]).id = id}
        to(p) == [k \in KeysIn(bls, p) |-> [At(kb[p], k) EXCEPT !.id = new]]
    IN
    IF \/ id = new \/ NoId \in {id, new} \/ h \notin DOMAIN kb \/ Def(h) \/ ~Writable(h)
       \/ decl = {} \/ new \in HostBlockIds(kb[h])
    THEN Refused
    ELSE Job({h}, {}, [p \in Sources(bls) \ {h} |-> Rewrite(kb[p], to(p))],
             Spans(bls),
             <<Put(h, Rewrite(kb[h], Over(to(h), [k \in decl |-> [At(kb[h], k) EXCEPT !.id = new]])))>>,
             {h})

-----------------------------------------------------------------------------
(* rename_type: the claims of the name and the links to the file.  A        *)
(* referrer that is no longer as held counts as one to write, and one that  *)
(* is has a link or a claim to rewrite: none is excused.                    *)
Claiming(kb, p, def) ==
    {k \in DOMAIN kb[p].places :
        LET x == At(kb[p], k) IN IsClaim(x) /\ x.type = def.stem /\ Home(p, x) = def.repo}

RenameType(kb, def, new) ==
    LET to  == [def EXCEPT !.stem = new]
        bls == Backlinks(kb, def)
        referrers == Sources(bls) \cup {p \in DOMAIN kb : Claiming(kb, p, def) # {}}
        claims(p) == [k \in Claiming(kb, p, def) |-> [At(kb[p], k) EXCEPT !.type = new]]
    IN
    IF \/ def \notin DOMAIN kb \/ ~Def(def) \/ ~Writable(def) \/ new = ""
       \/ \E p \in DOMAIN kb : Def(p) /\ p.repo = def.repo /\ p.stem = new
    THEN Refused
    ELSE Job({}, {}, [p \in referrers |-> Rewrite(kb[p], Over(claims(p), RenamedLinks(kb, bls, p, def, to)))],
             <<>>, <<Move(def, to)>>, {def, to})

Gathered(kb, r) ==
    CASE r.verb = "rename"  -> Rename(kb, r.path, r.to)
      [] r.verb = "promote" -> IF r.path \in DOMAIN kb /\ r.key \in DOMAIN kb[r.path].places
                               THEN IF IsRecord(At(kb[r.path], r.key))
                                    THEN Promote(kb, r.path, r.key, r.to) ELSE Refused
                               ELSE Refused
      [] r.verb = "inline"  -> IF {r.path, r.to} \subseteq DOMAIN kb
                               THEN Inline(kb, r.path, r.to, r.key) ELSE Refused
      [] r.verb = "rename_block_id" -> IF r.path \in DOMAIN kb
                               THEN RenameBlockId(kb, r.path, r.id, r.new) ELSE Refused
      [] r.verb = "rename_type" -> RenameType(kb, r.path, r.new)

-----------------------------------------------------------------------------
(* The steps of a verb.                                                    *)
NoPath == [repo |-> NoRepo, dir |-> "", stem |-> "", ext |-> ""]

Init ==
    /\ \E w \in Workspaces : disk = w.files /\ roles = w.roles
    /\ head = disk /\ held = disk /\ before = disk
    /\ req = [verb |-> "none"] /\ job = NoJob
    /\ pc = "idle" /\ todo = {} /\ cur = NoPath /\ outcome = "none" /\ read = {}
    /\ strange = {} /\ edits = {} /\ late = {} /\ exposed = {} /\ verbs = 0

Same(a, b, p) == /\ (p \in DOMAIN a) = (p \in DOMAIN b)
                 /\ p \in DOMAIN a => a[p] = b[p]
\* a with what b has at the paths ps.
Taking(a, b, ps) ==
    [p \in (DOMAIN a \ ps) \cup (DOMAIN b \cap ps) |-> IF p \in ps THEN b[p] ELSE a[p]]

\* referrers_not_written: every reference to rewrite is by now pinned to a commit.
NotWritten(j) ==
    {p \in DOMAIN j.spans \cap DOMAIN disk :
        \A k \in j.spans[p] \cap DOMAIN disk[p].places :
            IsLink(At(disk[p], k)) /\ At(disk[p], k).pin}

\* What people wrote and did not commit in files that will not be looked at.
Unchecked(ps) == {k \in edits : \E p \in ps : k \in DOMAIN disk[p].places /\ ~Same(disk, head, p)}

Ask(r) ==
    /\ pc = "idle" /\ verbs < MaxVerbs
    /\ verbs' = verbs + 1 /\ req' = r
    /\ before' = disk
    /\ strange' = {p \in DOMAIN disk : ~Same(disk, held, p)}
    /\ LET j == Gathered(held, r)
           e == NotWritten(j)
       IN  IF \/ j = Refused
              \/ \E p \in DOMAIN j.rewrite \ e : ~Writable(p)
              \/ \E p \in j.touched : p.repo \notin roles.tracked
           THEN outcome' = "refused" /\ UNCHANGED <<job, pc, exposed>>
           ELSE /\ job' = [j EXCEPT !.exempt = e]
                /\ pc' = "check" /\ outcome' = "none"
                /\ exposed' = Unchecked(e)
    /\ UNCHANGED <<disk, head, held, roles, todo, cur, read, edits, late>>

\* A verb ends: what it held in hand is dropped.
End(result) == /\ pc' = "idle" /\ outcome' = result
               /\ job' = NoJob /\ todo' = {} /\ cur' = NoPath /\ read' = {}
               /\ exposed' = {}

Dirty == {p \in job.touched \ job.exempt : ~Same(disk, head, p)}

Check ==
    /\ pc = "check"
    /\ IF Dirty # {} THEN End("refused")
       ELSE pc' = "open" /\ UNCHANGED <<outcome, job, todo, cur, read, exposed>>
    /\ UNCHANGED <<disk, head, held, roles, req, before, strange, edits, late, verbs>>

\* settle_saga on a failure: everything touched is put back as committed.
Restore ==
    /\ disk' = Taking(disk, head, job.touched)
    /\ late' = late \cup exposed
    /\ End("rolled_back")

AsHeld(p) == p \in DOMAIN held /\ p \in DOMAIN disk /\ disk[p] = held[p]

Open ==
    /\ pc = "open"
    /\ IF (\A p \in job.hosts : AsHeld(p)) /\ job.absent \cap DOMAIN disk = {}
       THEN /\ pc' = "read" /\ todo' = DOMAIN job.rewrite /\ read' = job.hosts
            /\ UNCHANGED <<disk, outcome, job, cur, late, exposed>>
       ELSE Restore
    /\ UNCHANGED <<head, held, roles, req, before, strange, edits, verbs>>

\* Mutant of ReadReferrer: the hash is not compared.
ReadReferrerUnchecked(p) ==
    /\ pc = "read" /\ p \in todo
    /\ IF p \in DOMAIN disk
       THEN /\ pc' = "write" /\ cur' = p /\ read' = read \cup {p}
            /\ UNCHANGED <<disk, outcome, job, todo, late, exposed>>
       ELSE Restore
    /\ UNCHANGED <<head, held, roles, req, before, strange, edits, verbs>>

\* read_referrer_checked
ReadReferrer(p) ==
    /\ pc = "read" /\ p \in todo
    /\ IF AsHeld(p)
       THEN /\ pc' = "write" /\ cur' = p /\ read' = read \cup {p}
            /\ UNCHANGED <<disk, outcome, job, todo, late, exposed>>
       ELSE Restore
    /\ UNCHANGED <<head, held, roles, req, before, strange, edits, verbs>>

WriteReferrer ==
    /\ pc = "write"
    /\ IF job.rewrite[cur] = held[cur] THEN UNCHANGED disk
       ELSE disk' = [disk EXCEPT ![cur] = job.rewrite[cur]]
    /\ pc' = "read" /\ todo' = todo \ {cur} /\ cur' = NoPath /\ read' = read \ {cur}
    /\ UNCHANGED <<head, held, roles, req, job, outcome, before, strange, edits, late,
                   exposed, verbs>>

\* The writes after the referrers'.
Possible(w) == w.op = "move" => w.from \in DOMAIN disk /\ w.to \notin DOMAIN disk
Applied(w) ==
    CASE w.op = "put"    -> Over(Only(w.to, w.file), disk)
      [] w.op = "move"   -> [p \in (DOMAIN disk \ {w.from}) \cup {w.to} |->
                                IF p = w.to THEN disk[w.from] ELSE disk[p]]
      [] w.op = "remove" -> Restrict(disk, DOMAIN disk \ {w.from})

Finish ==
    /\ pc = "read" /\ todo = {} /\ job.last # <<>>
    /\ IF Possible(Head(job.last))
       THEN /\ disk' = Applied(Head(job.last)) /\ job' = [job EXCEPT !.last = Tail(@)]
            /\ UNCHANGED <<pc, outcome, todo, cur, read, late, exposed>>
       ELSE Restore
    /\ UNCHANGED <<head, held, roles, req, before, strange, edits, verbs>>

\* A write or a commit fails.
Fail ==
    /\ pc \in {"read", "write"} /\ Restore
    /\ UNCHANGED <<head, held, roles, req, before, strange, edits, verbs>>

Commit ==
    /\ pc = "read" /\ todo = {} /\ job.last = <<>>
    /\ head' = Taking(head, disk, job.touched)
    /\ pc' = "rebuild"
    /\ UNCHANGED <<disk, held, roles, req, job, todo, cur, outcome, read, before,
                   strange, edits, late, exposed, verbs>>

Rebuild ==
    /\ pc = "rebuild"
    /\ held' = Taking(held, disk, job.touched)
    /\ End("done")
    /\ UNCHANGED <<disk, head, roles, req, before, strange, edits, late, verbs>>

-----------------------------------------------------------------------------
(* People, and the watcher.  What the watcher takes in during a verb makes *)
(* no difference to it: it is told once the verb has ended.                *)

\* A file that has been found clean or excused: a rollback resets it.
AtRisk(p) == \/ p \in job.exempt
             \/ p \in job.touched /\ pc \in {"open", "read", "write"}

\* A person adds a link to a file or pins one, and may commit the file.  It is
\* too late for the verb under way when the file has been read for writing, and
\* a rollback takes it away when it is not committed and the file is at risk.
Edit(p, k, committed) ==
    /\ p \in DOMAIN disk /\ Cardinality(edits) < MaxEdits
    /\ LET c == disk[p]
           jot == <<"e", c.me>>
       IN
       /\ \/ k = jot /\ k \notin DOMAIN c.places
             /\ disk' = [disk EXCEPT ![p].places =
                           Over(Only(k, [in |-> c.me, slot |-> "prose", holds |-> Jotted]), @)]
          \/ k \in DOMAIN c.places /\ IsLink(At(c, k)) /\ ~At(c, k).pin
             /\ disk' = [disk EXCEPT ![p].places[k].holds.pin = TRUE]
    /\ edits' = edits \cup {k}
    /\ IF committed THEN Same(disk, head, p) /\ head' = [head EXCEPT ![p] = disk'[p]]
       ELSE UNCHANGED head
    /\ late' = IF p \in read THEN late \cup {k} ELSE late
    /\ exposed' = IF ~committed /\ AtRisk(p) THEN exposed \cup {k} ELSE exposed
    /\ UNCHANGED <<held, roles, req, job, pc, todo, cur, outcome, read, before, strange, verbs>>

Watch(p) ==
    /\ pc = "idle" /\ ~Same(disk, held, p)
    /\ held' = Taking(held, disk, {p})
    /\ UNCHANGED <<disk, head, roles, req, job, pc, todo, cur, outcome, read, before,
                   strange, edits, late, exposed, verbs>>

Next ==
    \/ \E r \in Requests : Ask(r)
    \/ Check \/ Open \/ WriteReferrer \/ Finish \/ Fail \/ Commit \/ Rebuild
    \/ \E p \in todo : ReadReferrer(p)
    \/ \E p \in DOMAIN disk, k \in Penned, committed \in BOOLEAN : Edit(p, k, committed)
    \/ \E p \in DOMAIN disk \cup DOMAIN held : Watch(p)

Spec == Init /\ [][Next]_vars

-----------------------------------------------------------------------------
(* What must hold.                                                         *)

\* What the place k of p is or leads to: a file or a record, and for a
\* reference that fills a slot and names a record in passing, both; nothing,
\* when the record is not there.
Recorded(d, files) == UNION {{At(d[f], j) : j \in Records(d[f])} : f \in files}
Passing(c, k) == /\ IsLink(At(c, k)) /\ At(c, k).id # NoId
                 /\ ~At(c, k).ref /\ c.places[k].slot # "prose"
Reach(d, p, k) ==
    LET x     == At(d[p], k)
        files == IF IsLink(x) THEN Found(d, p, x)
                 ELSE {f \in DOMAIN d : Def(f) /\ f.repo = Home(p, x) /\ f.stem = x.type}
        whole == {d[f].me : f \in files}
        named == {r.me : r \in {r \in Recorded(d, files) : r.id = x.id}}
    IN  IF IsRecord(x) THEN {x.me}
        ELSE IF IsClaim(x) \/ x.id = NoId THEN whole
        ELSE IF Passing(d[p], k) /\ named # {} THEN named \cup whole ELSE named

\* Where references are led to by the verb r, under a stem others bear already.
NewHome(r) == CASE r.verb \in {"rename", "promote", "inline"} -> r.to
                [] r.verb = "rename_type" -> [r.path EXCEPT !.stem = r.new]
                [] OTHER -> NoPath
Crowded(l) ==
    outcome = "done" /\ \E f \in DOMAIN before \cap DOMAIN disk :
        /\ f # NewHome(req) /\ f.repo = NewHome(req).repo
        /\ f.stem = NewHome(req).stem /\ l.name.stem = f.stem

\* What the record leaves behind: promote follows the ids that travel with it.
LeftBehind(p, k) ==
    /\ req.verb = "promote" /\ outcome = "done" /\ p = req.path
    /\ LET tree == Subtree(before[p], req.key)
           l    == At(before[p], k)
       IN  /\ k \in tree /\ IsLink(l)
           /\ l.name = Local /\ l.id \notin IdsOf(before[p], tree \cap Inlines(before[p]))

\* The value of a reference that names a record in passing is the file.
ValueMoves(p, k) == /\ req.verb \in {"promote", "inline"} /\ outcome = "done"
                    /\ Passing(before[p], k)
                    /\ req.path \in Found(before, p, At(before[p], k))

\* The reference a file is folded in at, when it names a record: it is replaced
\* by the whole file.
FoldedAt(p, k) == /\ req.verb = "inline" /\ outcome = "done"
                  /\ p = req.to /\ k = req.key
                  /\ IsLink(At(before[p], k)) /\ At(before[p], k).id # NoId

\* After a verb, done, refused or rolled back, every reference in the files it
\* knew leads to the file or record it led to before, wherever the two now
\* are; but for names already borne, references a promoted record leaves
\* behind, values reached in passing, and a record folded with its file
\* (backlinks, the link rewrites of serve.rs, rename.rs, typerefs.rs).
LinksFollow ==
    pc = "idle" =>
        \A p \in DOMAIN before \ strange : \A k \in DOMAIN before[p].places :
            Reach(before, p, k) # {} /\ ~LeftBehind(p, k) /\ ~ValueMoves(p, k) /\ ~FoldedAt(p, k) =>
                \E q \in DOMAIN disk :
                    /\ k \in DOMAIN disk[q].places
                    /\ \/ Reach(disk, q, k) = Reach(before, p, k)
                       \/ IsLink(At(disk[q], k)) /\ (At(disk[q], k).pin \/ Crowded(At(disk[q], k)))

\* What people write into the files of a verb is kept, but for what came between
\* the read and the write of a file, and, if the verb is rolled back, for what
\* they had not committed in a file it had found clean before, or had excused from
\* being looked at: a rollback resets these with the others (the clean check and
\* the hash checks of apply_saga_with_moves and read_referrer_checked).
EditsKept ==
    pc = "idle" =>
        \A k \in edits \ late :
            \E p \in DOMAIN disk :
                /\ k \in DOMAIN disk[p].places
                /\ k[1] # "e" => At(disk[p], k).pin

-----------------------------------------------------------------------------
(* What the files are taken to be where LinksFollow is proved: an entity   *)
(* has one place, an id names one record of its file, a name one type of   *)
(* its repository, and the local form of a link names no repository.       *)
RecordFields == {"me", "id"}
LinkFields   == {"name", "repo", "id", "ref", "head", "pin"}
ClaimFields  == {"type", "repo"}

\* The file and the records in it.
Entities(c) == {c.me} \cup {At(c, k).me : k \in Records(c)}

\* The place that people add to an entity.
Jot(k, s) == /\ IsLink(s.holds) /\ s.slot = "prose" /\ s.in = k[2]

Proper(c) ==
    /\ DOMAIN c = {"me", "body", "places"}
    /\ \A k \in DOMAIN c.places :
          /\ DOMAIN c.places[k] = {"in", "slot", "holds"}
          /\ DOMAIN At(c, k) \in {RecordFields, LinkFields, ClaimFields}
          /\ IsLink(At(c, k)) /\ At(c, k).name = Local => At(c, k).repo = NoRepo
          /\ k[1] = "e" => Jot(k, c.places[k]) /\ k[2] \in Entities(c)
    /\ \A k \in Records(c) :
          /\ At(c, k).me # c.me
          /\ c.places[k].slot = "prose" => c.body /\ c.places[k].in = c.me
          /\ \A j \in Records(c) \ {k} :
                At(c, j).me # At(c, k).me /\ (At(c, j).id = NoId \/ At(c, j).id # At(c, k).id)

Path(p) == DOMAIN p = {"repo", "dir", "stem", "ext"} /\ p.stem # ""

Distinct(d) ==
    \A p \in DOMAIN d :
        /\ Path(p)
        /\ \A q \in DOMAIN d \ {p} :
              /\ Entities(d[p]) \cap Entities(d[q]) = {}
              /\ {k \in DOMAIN d[p].places : k[1] # "e"} \cap DOMAIN d[q].places = {}
              /\ ~(Def(p) /\ Def(q) /\ p.repo = q.repo /\ p.stem = q.stem)

Tidy ==
    /\ \A w \in Workspaces : Distinct(w.files) /\ \A p \in DOMAIN w.files : Proper(w.files[p])
    /\ \A r \in Requests : r.verb \in {"rename", "promote", "inline"} => Path(r.path) /\ Path(r.to)
    /\ DOMAIN Jotted = LinkFields /\ (Jotted.name = Local => Jotted.repo = NoRepo)
    /\ NoId \notin FreshIds
=============================================================================
