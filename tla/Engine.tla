------------------------------- MODULE Engine -------------------------------
(***************************************************************************)
(* The continuously held state of one engine (au-engine/src/engine.rs):    *)
(* the workspace on disk, the events of the file watcher, the knowledge    *)
(* base (kb) and the content fingerprint (fp) held for it, and the two     *)
(* threads that rebuild them, the watcher thread and the writer (the       *)
(* daemon's first build, then the mutation channel).                       *)
(*                                                                         *)
(* A knowledge base is abstracted to its catalog: what each path was       *)
(* recorded as.  A fingerprint has the same shape, because both are maps   *)
(* from a path to an optional content hash.  Every read of the disk is a   *)
(* step of its own, so an editor, git or another tool may change any file  *)
(* between two reads of one rebuild.                                       *)
(***************************************************************************)
EXTENDS Naturals, FiniteSets

CONSTANTS
    Files,        \* the paths a workspace may hold
    TypeDefs,     \* those that declare a type: wider than the splice
    Assets,       \* those the build never reads, known by presence only
    Dirs,         \* directories whose removal can be one single event
    Under,        \* Under[d]: the files below directory d
    Schema,       \* the `.arsumbris/.auignore` path
    Contents,     \* distinct readable contents of a file
    InitDisk,     \* what each file is when the engine starts
    InitIgnored,  \* the files the `.auignore` excludes at start
    WriteStates,  \* what an external writer may turn a file into
    MutateStates, \* what a mutation may turn a file into
    Threads,      \* {"watcher", "writer"}
    Reconcile,    \* ReconcilePolicy: TRUE for Idle, FALSE for Off
    MaxWrites,    \* bound on changes of the disk
    MaxTouches,   \* bound on events and requests with no change behind them
    MaxPasses,    \* MAX_PASSES of rebuild_locked
    MaxSettle,    \* MAX_SETTLE_PASSES of splice_until_settled
    CanReturn,    \* TRUE: a file may go back to a state it had before
    CanMutate,    \* TRUE: the mutation channel is used too
    Rescopes,     \* what the `.auignore` may come to exclude; {}: never rewritten
    CanRescan,    \* TRUE: the backend may report an overflow or an error
    CanFail,      \* TRUE: a walk or a build may fail (a file mid-rename)
    Drops         \* "none", "sibling" or "any": events lost in silence

Absent     == "absent"
Unreadable == "unreadable"   \* there, but a read fails
Oversize   == "oversize"     \* there, larger than the read cap
DiskStates == Contents \cup {Absent, Unreadable, Oversize}

NoEntry  == "noEntry"        \* no key in the map
Unread   == "unread"         \* a key with no hash (None)
SizeHash == "sizeHash"       \* the hash of an oversize file's length
Entries  == Contents \cup {NoEntry, Unread, SizeHash}
Whole    == "whole"          \* the hash of an oversize file's bytes
Paths    == Files \cup Dirs \cup {Schema}
Rescan   == "rescan"         \* a rescan flag or a notify error
NoThread == "none"

ASSUME ConstantsAssumption ==
    /\ TypeDefs \subseteq Files /\ Assets \subseteq Files
    /\ TypeDefs \cap Assets = {}
    /\ Files \cap Dirs = {} /\ Schema \notin Files \cup Dirs
    /\ Rescan \notin Paths
    /\ Under \in [Dirs -> SUBSET Files]
    /\ Contents \cap {Absent, Unreadable, Oversize, NoEntry, Unread,
                      SizeHash, Whole} = {}
    /\ InitDisk \in [Files -> DiskStates] /\ WriteStates \subseteq DiskStates
    /\ MutateStates \subseteq Contents \cup {Absent}
    /\ InitIgnored \subseteq Files
    /\ Threads = {"watcher", "writer"}
    /\ MaxWrites \in Nat /\ MaxTouches \in Nat
    /\ MaxPasses \in Nat \ {0} /\ MaxSettle \in Nat \ {0}
    /\ Rescopes \subseteq SUBSET Files
    /\ {Reconcile, CanReturn, CanMutate, CanRescan, CanFail}
         \subseteq BOOLEAN
    /\ Drops \in {"none", "sibling", "any"}

VARIABLES
    disk,      \* what each file is now
    ignored,   \* the files the `.auignore` on disk excludes
    inbox,     \* events raised and not yet received by watch_loop
    kb,        \* Held.kb, as its catalog; meaningful when version > 0
    fp,        \* Held.fingerprint
    version,   \* Held.version; 0 while Starting and Deriving
    tx,        \* the value last sent on version_tx
    lock,      \* rebuild_lock: the thread that holds it
    stage,     \* where each thread is
    full,      \* RebuildScope of each thread: TRUE for Full
    dirty,     \* the dirty set a thread works on
    base,      \* the version a thread took its snapshot of Held at
    snap,      \* rebuild_locked's `fp`, the fingerprint before the build
    todo,      \* files of the current walk not read yet
    acc,       \* what the current walk has read so far
    built,     \* the knowledge base a build produced, not yet swapped in
    passes,    \* passes of rebuild_locked begun
    settles,   \* passes of splice_until_settled done
    burst,     \* events watch_loop has accumulated
    armed,     \* watch_loop's pending_reconcile
    writes,    \* changes of the disk so far (bounded)
    touches,   \* spurious events and requests so far (bounded)
    seen,      \* history: every state a file has had
    quiet,     \* history: no change since a thread took the lock
    mutation   \* history: the writer's target and what it has been since

diskVars  == <<disk, ignored, inbox, writes, touches, seen>>
heldVars  == <<kb, fp, version>>
jobVars   == <<full, dirty, base, snap, todo, acc, built, passes, settles>>
watchVars == <<burst, armed>>
vars == <<disk, ignored, inbox, kb, fp, version, tx, lock, stage, full, dirty,
          base, snap, todo, acc, built, passes, settles, burst, armed, writes,
          touches, seen, quiet, mutation>>

Nothing    == [f \in Files |-> NoEntry]
NoMutation == [file |-> Schema, since |-> {}]

-----------------------------------------------------------------------------
(* What the build, the fingerprint and the gates see of a file.            *)

OnDisk == {f \in Files : disk[f] # Absent}

BuildReadsContent(f) == f \notin Assets

\* Mutant of FpOf: the read cap is forgotten.
FpOfUncapped(f, s) ==
    IF ~BuildReadsContent(f) \/ s \in {Absent, Unreadable} THEN Unread
    ELSE IF s = Oversize THEN Whole ELSE s

\* fingerprint: the value of a walked file; a read that fails leaves None.
FpOf(f, s) ==
    IF ~BuildReadsContent(f) \/ s \in {Absent, Unreadable} THEN Unread
    ELSE IF s = Oversize THEN SizeHash ELSE s

\* acquire_parse and its callers: the catalog entry of a walked file.
EntryOf(f, s) ==
    IF BuildReadsContent(f) /\ s \in Contents THEN s ELSE Unread

\* A whole fingerprint, and a whole catalog, of a disk that stands still.
Fingerprint == [f \in Files |-> IF disk[f] = Absent THEN NoEntry
                                ELSE FpOf(f, disk[f])]
View == [f \in Files |-> IF disk[f] = Absent \/ f \in ignored THEN NoEntry
                         ELSE EntryOf(f, disk[f])]

\* The fresh hash path_changed computes, None when the read fails.
FreshHash(s) ==
    IF s \in {Absent, Unreadable} THEN Unread
    ELSE IF s = Oversize THEN Whole ELSE s

RecordedContent(g, f) == IF g[f] = NoEntry THEN Unread ELSE g[f]

\* Mutants of PathChanged: no gate at all; a file that is gone counts as
\* unchanged; the schema path has no exception.
PathChangedAlways(p, g) == p \in Files \cup {Schema}
PathChangedUnlessGone(p, g) ==
    \/ p = Schema
    \/ p \in OnDisk /\ FreshHash(disk[p]) # RecordedContent(g, p)

\* path_changed: does the disk differ from what fingerprint g recorded for p?
PathChanged(p, g) ==
    \/ p = Schema
    \/ /\ p \in Files
       /\ IF BuildReadsContent(p)
          THEN FreshHash(disk[p]) # RecordedContent(g, p)
          ELSE (g[p] # NoEntry) # (disk[p] # Absent)

StillMoving(ps, g) == {p \in ps : PathChanged(p, g)}

FingerprintDiff(old, new) == {f \in Files : old[f] # new[f]}

\* Mutant of UpdatedFingerprint: the dirty paths are read from disk again.
UpdatedFingerprintReread(g, ps, catalog) ==
    [f \in Files |-> IF f \in ps THEN Fingerprint[f] ELSE g[f]]

UpdatedFingerprint(g, ps, catalog) ==
    [f \in Files |-> IF f \in ps THEN catalog[f] ELSE g[f]]

\* Mutant of ScopeFilterDirty: no path is filtered.
ScopeFilterNothing(ps) == ps

\* scope_filter_dirty: the schema path always survives.
ScopeFilterDirty(ps) == ps \ ignored

\* Mutant of ExpandRemovedDirectories: a directory stands for itself.
ExpandNothing(ps) == ps

\* expand_removed_directories: a path that is neither catalogued nor a file
\* stands for the catalogued files below it, or for itself.
Children(d) == {f \in Under[d] : kb[f] # NoEntry}
ExpandRemovedDirectories(ps) ==
    {p \in ps : p \notin Dirs \/ Children(p) = {}}
      \cup UNION {Children(d) : d \in ps \cap Dirs}

\* classify_dirty: anything wider than an instance or an asset.
NeedsFull(ps) == ps = {} \/ ps \cap (TypeDefs \cup {Schema}) # {}

\* Mutant of KnownHash: the dirty paths are trusted too.
KnownHashOfDirty(t, f) == IF full[t] THEN snap[t][f] ELSE fp[f]

\* The hashes a build may trust: the whole fingerprint in a full rebuild, the
\* held one without the dirty paths in a scoped one.
KnownHash(t, f) ==
    IF full[t] THEN snap[t][f] ELSE IF f \in dirty[t] THEN NoEntry ELSE fp[f]

-----------------------------------------------------------------------------
(* The outside world: editors, git and other tools change files; the       *)
(* notification backend delivers, delays, merges and loses events.         *)

MayBecome(f, s) == s # disk[f] /\ (CanReturn \/ s \notin seen[f])

\* The disk becomes newDisk and the events are raised for the watcher.
ChangeDisk(newDisk, events) ==
    /\ writes < MaxWrites
    /\ writes' = writes + 1
    /\ disk' = newDisk
    /\ inbox' = inbox \cup events
    /\ seen' = IF CanReturn THEN seen
               ELSE [f \in Files |-> seen[f] \cup {newDisk[f]}]
    /\ quiet' = [t \in Threads |-> FALSE]

Witness(m, newDisk) ==
    IF m.file \in Files
    THEN [file |-> m.file, since |-> m.since \cup {newDisk[m.file]}] ELSE m

ExternalWrite(f) ==
    \E s \in WriteStates :
        LET newDisk == [disk EXCEPT ![f] = s] IN
        /\ MayBecome(f, s)
        /\ ChangeDisk(newDisk, {f})
        /\ mutation' = Witness(mutation, newDisk)
        /\ UNCHANGED <<ignored, touches, heldVars, tx, lock, stage, jobVars, watchVars>>

\* Removing a directory may be reported as one event naming the directory.
RemoveDirectory(d) ==
    LET newDisk == [f \in Files |-> IF f \in Under[d] THEN Absent ELSE disk[f]] IN
    /\ Under[d] \cap OnDisk # {}
    /\ \A f \in Under[d] \cap OnDisk : MayBecome(f, Absent)
    /\ ChangeDisk(newDisk, {d})
    /\ mutation' = Witness(mutation, newDisk)
    /\ UNCHANGED <<ignored, touches, heldVars, tx, lock, stage, jobVars, watchVars>>

\* An editor rewrites the `.auignore`.
EditIgnores == \E new \in Rescopes :
    /\ WriteStates # {} /\ new # ignored
    /\ ignored' = new
    /\ ChangeDisk(disk, {Schema})
    /\ UNCHANGED <<touches, heldVars, tx, lock, stage, jobVars, watchVars, mutation>>

\* An identical write, a touch, an event for a file the build never reads.
Touch(f) ==
    /\ touches < MaxTouches /\ f \in OnDisk /\ f \notin inbox
    /\ touches' = touches + 1
    /\ inbox' = inbox \cup {f}
    /\ UNCHANGED <<disk, ignored, writes, seen, heldVars, tx, lock, stage, jobVars,
                   watchVars, quiet, mutation>>

\* The backend overflows or fails: the queued events become one rescan.
Overflow ==
    /\ CanRescan /\ inbox # {} /\ Rescan \notin inbox
    /\ inbox' = {Rescan}
    /\ UNCHANGED <<disk, ignored, writes, touches, seen, heldVars, tx, lock, stage,
                   jobVars, watchVars, quiet, mutation>>

\* The backend merges a rescan flag into a burst that still names its paths.
FlagRescan ==
    /\ CanRescan /\ inbox # {} /\ Rescan \notin inbox
    /\ touches < MaxTouches /\ touches' = touches + 1
    /\ inbox' = inbox \cup {Rescan}
    /\ UNCHANGED <<disk, ignored, writes, seen, heldVars, tx, lock, stage,
                   jobVars, watchVars, quiet, mutation>>

\* An event is lost in silence, with or without one still to be delivered.
LoseEvent(e) ==
    /\ \/ Drops = "any"
       \/ Drops = "sibling" /\ inbox # {e}
    /\ e \in inbox
    /\ inbox' = inbox \ {e}
    /\ UNCHANGED <<disk, ignored, writes, touches, seen, heldVars, tx, lock, stage,
                   jobVars, watchVars, quiet, mutation>>

Environment ==
    \/ \E f \in Files : ExternalWrite(f) \/ Touch(f)
    \/ \E d \in Dirs : RemoveDirectory(d)
    \/ EditIgnores \/ Overflow \/ FlagRescan
    \/ \E e \in inbox : LoseEvent(e)

-----------------------------------------------------------------------------
(* watch_loop, on the watcher thread.                                      *)

\* recv_timeout returns an event: the first of a burst or one more of it.
Receive(e) ==
    /\ stage["watcher"] \in {"wait", "burst"} /\ e \in inbox
    /\ inbox' = inbox \ {e}
    /\ burst' = burst \cup {e}
    /\ stage' = [stage EXCEPT !["watcher"] = "burst"]
    /\ UNCHANGED <<disk, ignored, writes, touches, seen, heldVars, tx, lock, jobVars,
                   armed, quiet, mutation>>

\* Mutants of Quiesce: a rescan is taken for an empty burst; only a rescan
\* arms the idle reconcile.
QuiesceNoRescan ==
    /\ stage["watcher"] = "burst"
    /\ full' = [full EXCEPT !["watcher"] = FALSE]
    /\ dirty' = [dirty EXCEPT !["watcher"] = burst \ {Rescan}]
    /\ burst' = {}
    /\ armed' = Reconcile
    /\ stage' = [stage EXCEPT !["watcher"] = "want"]
    /\ UNCHANGED <<diskVars, heldVars, tx, lock, base, snap, todo, acc, built, passes,
                   settles, quiet, mutation>>
QuiesceUnarmed ==
    /\ stage["watcher"] = "burst"
    /\ full' = [full EXCEPT !["watcher"] = Rescan \in burst]
    /\ dirty' = [dirty EXCEPT !["watcher"] =
                    IF Rescan \in burst THEN {} ELSE burst]
    /\ burst' = {}
    /\ armed' = (Reconcile /\ Rescan \in burst)
    /\ stage' = [stage EXCEPT !["watcher"] = "want"]
    /\ UNCHANGED <<diskVars, heldVars, tx, lock, base, snap, todo, acc, built, passes,
                   settles, quiet, mutation>>

\* QUIESCENCE passed with no event: one rebuild for the whole burst.
Quiesce ==
    /\ stage["watcher"] = "burst"
    /\ full' = [full EXCEPT !["watcher"] = Rescan \in burst]
    /\ dirty' = [dirty EXCEPT !["watcher"] =
                    IF Rescan \in burst THEN {} ELSE burst]
    /\ burst' = {}
    /\ armed' = Reconcile
    /\ stage' = [stage EXCEPT !["watcher"] = "want"]
    /\ UNCHANGED <<diskVars, heldVars, tx, lock, base, snap, todo, acc, built, passes,
                   settles, quiet, mutation>>

\* The idle window passed: a whole reconcile, when one is pending.
IdleReconcile ==
    /\ stage["watcher"] = "wait" /\ armed
    /\ armed' = FALSE
    /\ full' = [full EXCEPT !["watcher"] = TRUE]
    /\ stage' = [stage EXCEPT !["watcher"] = "want"]
    /\ UNCHANGED <<diskVars, heldVars, tx, lock, dirty,
                   base, snap, todo, acc, built, passes, settles, burst, quiet, mutation>>

-----------------------------------------------------------------------------
(* The writer: after the daemon's first build it serves mutations, one at  *)
(* a time (write_lock).  A mutation writes, then rebuilds exactly what it  *)
(* wrote, then answers.                                                    *)

WriterIdle == stage["writer"] = "idle" /\ version > 0 /\ CanMutate

MutateFile(f) ==
    \E s \in MutateStates :
        LET newDisk == [disk EXCEPT ![f] = s] IN
        /\ WriterIdle /\ MayBecome(f, s)
        /\ ChangeDisk(newDisk, {f})
        /\ mutation' = [file |-> f, since |-> {s}]
        /\ full' = [full EXCEPT !["writer"] = FALSE]
        /\ dirty' = [dirty EXCEPT !["writer"] = {f}]
        /\ stage' = [stage EXCEPT !["writer"] = "want"]
        /\ UNCHANGED <<ignored, touches, heldVars, tx, lock, base, snap, todo, acc,
                       built, passes, settles, watchVars>>

\* set_ignores: the one sanctioned write of the schema path.
SetIgnores == \E new \in Rescopes :
    /\ WriterIdle /\ new # ignored
    /\ ignored' = new
    /\ ChangeDisk(disk, {Schema})
    /\ full' = [full EXCEPT !["writer"] = FALSE]
    /\ dirty' = [dirty EXCEPT !["writer"] = {Schema}]
    /\ stage' = [stage EXCEPT !["writer"] = "want"]
    /\ UNCHANGED <<touches, heldVars, tx, lock, base, snap, todo, acc, built, passes,
                   settles, watchVars, mutation>>

\* register: the per-user registry moved, so the whole workspace is rebuilt.
Register ==
    /\ WriterIdle
    /\ touches < MaxTouches /\ touches' = touches + 1
    /\ full' = [full EXCEPT !["writer"] = TRUE]
    /\ stage' = [stage EXCEPT !["writer"] = "want"]
    /\ UNCHANGED <<disk, ignored, inbox, writes, seen, heldVars, tx, lock, dirty,
                   base, snap, todo, acc, built, passes, settles, watchVars, quiet, mutation>>

Respond ==
    /\ stage["writer"] = "respond"
    /\ mutation' = NoMutation
    /\ stage' = [stage EXCEPT !["writer"] = "idle"]
    /\ UNCHANGED <<diskVars, heldVars, tx, lock, jobVars, watchVars, quiet>>

-----------------------------------------------------------------------------
(* A rebuild.  The lock is held from Acquire to Release, so the snapshot   *)
(* of Held a thread works from is read in place.                           *)

Goto(t, s) == stage' = [stage EXCEPT ![t] = s]

\* Walk the files kept, to be read one by one.
Walk(t, files) ==
    /\ todo' = [todo EXCEPT ![t] = files]
    /\ acc' = [acc EXCEPT ![t] = Nothing]

\* Mutant of Acquire: a scoped rebuild does not wait for the rebuild lock.
AcquireUnlocked(t) ==
    /\ stage[t] = "want" /\ (full[t] => lock = NoThread)
    /\ lock' = t
    /\ quiet' = [quiet EXCEPT ![t] = TRUE]
    /\ passes' = [passes EXCEPT ![t] = 1]
    /\ IF full[t] THEN Walk(t, OnDisk) /\ Goto(t, "fingerprint")
       ELSE Goto(t, "filter") /\ UNCHANGED <<todo, acc>>
    /\ UNCHANGED <<diskVars, heldVars, tx, full, dirty, base, snap, built, settles,
                   watchVars, mutation>>

Acquire(t) ==
    /\ stage[t] = "want" /\ lock = NoThread
    /\ lock' = t
    /\ quiet' = [quiet EXCEPT ![t] = TRUE]
    /\ passes' = [passes EXCEPT ![t] = 1]
    /\ IF full[t] THEN Walk(t, OnDisk) /\ Goto(t, "fingerprint")
       ELSE Goto(t, "filter") /\ UNCHANGED <<todo, acc>>
    /\ UNCHANGED <<diskVars, heldVars, tx, full, dirty, base, snap, built, settles,
                   watchVars, mutation>>

Release(t) ==
    /\ stage[t] = "done"
    /\ lock' = NoThread
    /\ stage' = [stage EXCEPT ![t] = IF t = "watcher" THEN "wait" ELSE "respond"]
    /\ full' = [full EXCEPT ![t] = FALSE]
    /\ dirty' = [dirty EXCEPT ![t] = {}]
    /\ base' = [base EXCEPT ![t] = 0]
    /\ snap' = [snap EXCEPT ![t] = Nothing]
    /\ acc' = [acc EXCEPT ![t] = Nothing]
    /\ todo' = [todo EXCEPT ![t] = {}]
    /\ built' = [built EXCEPT ![t] = Nothing]
    /\ passes' = [passes EXCEPT ![t] = 0]
    /\ settles' = [settles EXCEPT ![t] = 0]
    /\ quiet' = [quiet EXCEPT ![t] = FALSE]
    /\ UNCHANGED <<diskVars, heldVars, tx, watchVars, mutation>>

\* One read of a fingerprint pass (the first one or the confirming one).
ReadForFingerprint(t, f) ==
    /\ stage[t] \in {"fingerprint", "confirm"} /\ f \in todo[t]
    /\ acc' = [acc EXCEPT ![t][f] = FpOf(f, disk[f])]
    /\ todo' = [todo EXCEPT ![t] = @ \ {f}]
    /\ UNCHANGED <<diskVars, heldVars, tx, lock, stage, full, dirty, base, snap, built,
                   passes, settles, watchVars, quiet, mutation>>

\* rebuild_locked after its first fingerprint: the no-op gate, then the diff,
\* scope-filtered and expanded, then the splice or the whole build.
Diff(t) ==
    LET fresh == acc[t]
        diff  == IF version = 0 THEN {}
                 ELSE ExpandRemovedDirectories(ScopeFilterDirty(FingerprintDiff(fp, fresh)))
    IN
    /\ stage[t] = "fingerprint" /\ todo[t] = {}
    /\ snap' = [snap EXCEPT ![t] = fresh]
    /\ base' = [base EXCEPT ![t] = version]
    /\ dirty' = [dirty EXCEPT ![t] = diff]
    /\ settles' = [settles EXCEPT ![t] = 0]
    /\ \/ /\ version > 0 /\ fp = fresh
          /\ Goto(t, "done") /\ UNCHANGED <<todo, acc>>
       \/ /\ ~(version > 0 /\ fp = fresh) /\ diff # {}
          /\ Goto(t, "splice") /\ UNCHANGED <<todo, acc>>
       \/ /\ ~(version > 0 /\ fp = fresh) /\ diff = {}
          /\ Walk(t, OnDisk \ ignored) /\ Goto(t, "build")
    /\ UNCHANGED <<diskVars, heldVars, tx, lock, full, built, passes, watchVars, quiet,
                   mutation>>

\* rebuild_paths_locked: filter and expand the incoming paths; with nothing
\* held yet, the whole rebuild.
Filter(t) ==
    LET kept == ExpandRemovedDirectories(ScopeFilterDirty(dirty[t])) IN
    /\ stage[t] = "filter"
    /\ base' = [base EXCEPT ![t] = version]
    /\ IF version = 0
       THEN /\ full' = [full EXCEPT ![t] = TRUE]
            /\ Walk(t, OnDisk) /\ Goto(t, "fingerprint")
            /\ UNCHANGED dirty
       ELSE /\ dirty' = [dirty EXCEPT ![t] = kept]
            /\ Goto(t, IF kept = {} THEN "done" ELSE "splice")
            /\ UNCHANGED <<full, todo, acc>>
    /\ UNCHANGED <<diskVars, heldVars, tx, lock, snap, built, passes, settles,
                   watchVars, quiet, mutation>>

\* What the splice's caller does when it declines: a full rebuild builds, a
\* scoped one asks its own no-op gate first.
Decline(t) ==
    IF full[t] THEN Walk(t, OnDisk \ ignored) /\ Goto(t, "build")
    ELSE Goto(t, "gate") /\ UNCHANGED <<todo, acc>>

\* try_incremental_fast_path up to the recompute.
TrySplice(t) ==
    /\ stage[t] = "splice"
    /\ base' = [base EXCEPT ![t] = version]
    /\ \/ /\ NeedsFull(dirty[t])
          /\ Decline(t) /\ UNCHANGED settles
       \/ /\ ~NeedsFull(dirty[t]) /\ StillMoving(dirty[t], fp) = {}
          /\ settles' = [settles EXCEPT ![t] = @ + 1]
          /\ Goto(t, IF full[t] THEN "settle" ELSE "done")
          /\ UNCHANGED <<todo, acc>>
       \/ /\ ~NeedsFull(dirty[t]) /\ StillMoving(dirty[t], fp) # {}
          /\ todo' = [todo EXCEPT ![t] = dirty[t] \cap Files]
          /\ acc' = [acc EXCEPT ![t] = kb]
          /\ Goto(t, "recompute") /\ UNCHANGED settles
    /\ UNCHANGED <<diskVars, heldVars, tx, lock, full, dirty, snap, built, passes,
                   watchVars, quiet, mutation>>

\* recompute_dirty reads one dirty path: an edit, an add, a delete or a
\* spurious wake, and a refusal for what only a build can catalog.
Refused(f, s) ==
    /\ BuildReadsContent(f)
    /\ s = Oversize \/ (s = Unreadable /\ kb[f] # NoEntry)

Spliced(f, s) ==
    IF s = Absent \/ (BuildReadsContent(f) /\ s = Unreadable /\ kb[f] = NoEntry)
    THEN NoEntry ELSE EntryOf(f, s)

ReadDirty(t, f) ==
    /\ stage[t] = "recompute" /\ f \in todo[t]
    /\ IF Refused(f, disk[f]) THEN Decline(t)
       ELSE /\ acc' = [acc EXCEPT ![t][f] = Spliced(f, disk[f])]
            /\ todo' = [todo EXCEPT ![t] = @ \ {f}]
            /\ UNCHANGED stage
    /\ UNCHANGED <<diskVars, heldVars, tx, lock, full, dirty, base, snap, built, passes,
                   settles, watchVars, quiet, mutation>>

\* A set of paths that moved may have a blast radius the splice does not
\* model (a case collision, a dependent of another shape).
RecomputeDeclines(t) ==
    /\ stage[t] = "recompute" /\ todo[t] = {}
    /\ \E f \in dirty[t] \cap Files : acc[t][f] # kb[f]
    /\ Decline(t)
    /\ UNCHANGED <<diskVars, heldVars, tx, lock, full, dirty, base, snap, built, passes,
                   settles, watchVars, quiet, mutation>>

Swap(newKb, newFp) == kb' = newKb /\ fp' = newFp /\ version' = version + 1

CommitSplice(t) ==
    /\ stage[t] = "recompute" /\ todo[t] = {}
    /\ Swap(acc[t], UpdatedFingerprint(fp, dirty[t], acc[t]))
    /\ settles' = [settles EXCEPT ![t] = @ + 1]
    /\ Goto(t, "send")
    /\ UNCHANGED <<diskVars, tx, lock, full, dirty, base, snap, todo, acc, built, passes,
                   watchVars, quiet, mutation>>

\* The confirm of splice_until_settled: what moved again is spliced again.
Settle(t) ==
    LET moving == StillMoving(dirty[t], fp) IN
    /\ stage[t] = "settle"
    /\ IF moving = {} \/ settles[t] = MaxSettle
       THEN Goto(t, "done") /\ UNCHANGED dirty
       ELSE Goto(t, "splice") /\ dirty' = [dirty EXCEPT ![t] = moving]
    /\ UNCHANGED <<diskVars, heldVars, tx, lock, full, base, snap, todo, acc, built,
                   passes, settles, watchVars, quiet, mutation>>

\* rebuild_paths_locked's no-op gate before the scoped build.
Gate(t) ==
    /\ stage[t] = "gate"
    /\ base' = [base EXCEPT ![t] = version]
    /\ IF StillMoving(dirty[t], fp) = {}
       THEN Goto(t, "done") /\ UNCHANGED <<todo, acc>>
       ELSE Walk(t, OnDisk \ ignored) /\ Goto(t, "build")
    /\ UNCHANGED <<diskVars, heldVars, tx, lock, full, dirty, snap, built, passes,
                   settles, watchVars, quiet, mutation>>

\* acquire_parse: reuse the held parse when the known hash is the held one,
\* else read; a walked file that is gone by now is a read error.
Acquired(t, f) ==
    IF version > 0 /\ KnownHash(t, f) \in Contents /\ kb[f] = KnownHash(t, f)
    THEN kb[f] ELSE EntryOf(f, disk[f])

ReadForBuild(t, f) ==
    /\ stage[t] = "build" /\ f \in todo[t]
    /\ acc' = [acc EXCEPT ![t][f] = Acquired(t, f)]
    /\ todo' = [todo EXCEPT ![t] = @ \ {f}]
    /\ UNCHANGED <<diskVars, heldVars, tx, lock, stage, full, dirty, base, snap, built,
                   passes, settles, watchVars, quiet, mutation>>

\* The next pass of rebuild_locked, or giving up after the last.
NextPass(t) ==
    IF passes[t] < MaxPasses
    THEN /\ passes' = [passes EXCEPT ![t] = @ + 1]
         /\ Walk(t, OnDisk) /\ Goto(t, "fingerprint")
    ELSE /\ passes' = [passes EXCEPT ![t] = MaxPasses + 1]
         /\ Goto(t, "done") /\ UNCHANGED <<todo, acc>>

\* A walk or build_reusing fails: a full rebuild retries, a scoped one
\* becomes full.
BuildFails(t) ==
    /\ CanFail /\ stage[t] \in {"fingerprint", "build", "confirm"}
    /\ IF full[t] THEN NextPass(t) /\ UNCHANGED full
       ELSE /\ full' = [full EXCEPT ![t] = TRUE]
            /\ passes' = [passes EXCEPT ![t] = 1]
            /\ Walk(t, OnDisk) /\ Goto(t, "fingerprint")
    /\ UNCHANGED <<diskVars, heldVars, tx, lock, dirty, base, snap, built, settles,
                   watchVars, quiet, mutation>>

\* A scoped build is committed as it is, without a confirming fingerprint.
CommitScoped(t) ==
    /\ stage[t] = "build" /\ todo[t] = {} /\ ~full[t]
    /\ Swap(acc[t], UpdatedFingerprint(fp, dirty[t], acc[t]))
    /\ Goto(t, "send")
    /\ UNCHANGED <<diskVars, tx, lock, jobVars, watchVars, quiet, mutation>>

\* A full build is confirmed by a second fingerprint first.
BeginConfirm(t) ==
    /\ stage[t] = "build" /\ todo[t] = {} /\ full[t]
    /\ built' = [built EXCEPT ![t] = acc[t]]
    /\ Walk(t, OnDisk) /\ Goto(t, "confirm")
    /\ UNCHANGED <<diskVars, heldVars, tx, lock, full, dirty, base, snap, passes,
                   settles, watchVars, quiet, mutation>>

CommitFull(t) ==
    /\ stage[t] = "confirm" /\ todo[t] = {} /\ acc[t] = snap[t]
    /\ Swap(built[t], snap[t])
    /\ settles' = [settles EXCEPT ![t] = 0]
    /\ Goto(t, "send")
    /\ UNCHANGED <<diskVars, tx, lock, full, dirty, base, snap, todo, acc, built, passes,
                   watchVars, quiet, mutation>>

Retry(t) ==
    /\ stage[t] = "confirm" /\ todo[t] = {} /\ acc[t] # snap[t]
    /\ NextPass(t)
    /\ UNCHANGED <<diskVars, heldVars, tx, lock, full, dirty, base, snap, built, settles,
                   watchVars, quiet, mutation>>

\* version_tx.send, after the state lock is dropped.
Send(t) ==
    /\ stage[t] = "send"
    /\ tx' = version
    /\ Goto(t, IF full[t] /\ settles[t] > 0 THEN "settle" ELSE "done")
    /\ UNCHANGED <<diskVars, heldVars, lock, jobVars, watchVars, quiet, mutation>>

Rebuild(t) ==
    \/ Acquire(t) \/ Release(t) \/ Diff(t) \/ Filter(t) \/ Gate(t)
    \/ TrySplice(t) \/ RecomputeDeclines(t) \/ CommitSplice(t) \/ Settle(t)
    \/ BuildFails(t) \/ CommitScoped(t) \/ BeginConfirm(t)
    \/ CommitFull(t) \/ Retry(t) \/ Send(t)
    \/ \E f \in Files : \/ ReadForFingerprint(t, f) \/ ReadDirty(t, f)
                         \/ ReadForBuild(t, f)

-----------------------------------------------------------------------------
(* The daemon watches first, then runs the first build, then serves.       *)

Init ==
    /\ disk = InitDisk /\ ignored = InitIgnored
    /\ inbox = {} /\ kb = Nothing /\ fp = Nothing /\ version = 0 /\ tx = 0
    /\ lock = NoThread
    /\ stage = [t \in Threads |-> IF t = "watcher" THEN "wait" ELSE "want"]
    /\ full = [t \in Threads |-> t = "writer"]
    /\ dirty = [t \in Threads |-> {}] /\ base = [t \in Threads |-> 0]
    /\ snap = [t \in Threads |-> Nothing] /\ todo = [t \in Threads |-> {}]
    /\ acc = [t \in Threads |-> Nothing] /\ built = [t \in Threads |-> Nothing]
    /\ passes = [t \in Threads |-> 0] /\ settles = [t \in Threads |-> 0]
    /\ burst = {} /\ armed = FALSE
    /\ writes = 0 /\ touches = 0 /\ seen = [f \in Files |-> {InitDisk[f]}]
    /\ quiet = [t \in Threads |-> FALSE] /\ mutation = NoMutation

Watcher == (\E e \in inbox : Receive(e)) \/ Quiesce \/ IdleReconcile \/ Rebuild("watcher")

Writer == Respond \/ Rebuild("writer")

NewRequest == (\E f \in Files : MutateFile(f)) \/ SetIgnores \/ Register

Next == Environment \/ Watcher \/ Writer \/ NewRequest

Spec == Init /\ [][Next]_vars

\* The threads run; nothing forces the outside world or a client to act.
FairSpec == Spec /\ WF_vars(Watcher) /\ WF_vars(Writer)

-----------------------------------------------------------------------------
(* Properties.                                                             *)

Stages == {"wait", "burst", "idle", "respond", "want", "fingerprint", "filter",
           "splice", "recompute", "settle", "gate", "build", "confirm", "send",
           "done"}
Catalogs == [Files -> Entries]

\* The type of every variable.
TypeOK ==
    /\ disk \in [Files -> DiskStates] /\ ignored \subseteq Files
    /\ inbox \subseteq Paths \cup {Rescan} /\ burst \subseteq Paths \cup {Rescan}
    /\ kb \in Catalogs /\ fp \in Catalogs
    /\ version \in Nat /\ tx \in Nat /\ lock \in Threads \cup {NoThread}
    /\ stage \in [Threads -> Stages] /\ full \in [Threads -> BOOLEAN]
    /\ dirty \in [Threads -> SUBSET Paths] /\ base \in [Threads -> Nat]
    /\ snap \in [Threads -> Catalogs] /\ acc \in [Threads -> Catalogs]
    /\ built \in [Threads -> Catalogs] /\ todo \in [Threads -> SUBSET Files]
    /\ passes \in [Threads -> Nat] /\ settles \in [Threads -> Nat]
    /\ armed \in BOOLEAN /\ writes \in Nat /\ touches \in Nat
    /\ seen \in [Files -> SUBSET DiskStates] /\ quiet \in [Threads -> BOOLEAN]
    /\ mutation \in [file : Paths, since : SUBSET DiskStates]

\* Every swap of the held state builds on the state it replaces: no rebuild
\* overwrites a version it did not see (engine.rs, rebuild_lock: two rebuilds
\* "can never both snapshot the same base and clobber each other's swap").
NoLostSwap ==
    [][version' # version =>
         \E t \in Threads : stage[t] \in {"recompute", "build", "confirm"}
                            /\ stage'[t] = "send" /\ base[t] = version]_vars

\* Subscribers are woken in order and for every version: a rebuild never
\* starts before the version of the one before it was broadcast.
BroadcastInOrder ==
    [][/\ tx' >= tx
       /\ version' # version => tx = version]_<<version, tx>>

\* Why: a thread at work on a rebuild holds the lock; what it is about to swap
\* was computed from the state still held; and every version but the one its
\* holder has just swapped in was broadcast.
Working == {"fingerprint", "filter", "splice", "recompute", "settle", "gate",
            "build", "confirm", "send", "done"}
Swapping == {"recompute", "build", "confirm"}
SerialRebuilds ==
    /\ \A t \in Threads : stage[t] \in Working => lock = t
    /\ \A t \in Threads : stage[t] \in Swapping => base[t] = version
    /\ tx <= version
    /\ (\A t \in Threads : stage[t] # "send") => tx = version

\* The one difference between the held state and the disk that the engine's
\* comparisons cannot see: an entry without content kept for a file that is
\* gone, or missing for a file that is there and cannot be read.
ContentBlind(f) == {kb[f], View[f]} = {NoEntry, Unread} /\ BuildReadsContent(f)

\* An entry without a hash vouches for nothing: a file that was gone when the
\* walk came to read it and one that could not be read leave the same (None),
\* though the build may have read a content in between.
Vouched(f) == Unread \notin {fp[f], Fingerprint[f]}

\* The no-op gate is sound: a path whose fingerprint entry is what a fresh
\* fingerprint would hold is held as a fresh build would hold it, unless the
\* entry has no hash.  This is what lets rebuild_locked return early.
GateSound ==
    version > 0 => \A f \in Files :
        Vouched(f) /\ fp[f] = Fingerprint[f] => kb[f] = View[f]

\* A full rebuild during which nothing changed, and that did not give up,
\* leaves the knowledge base a build of the disk would give, but for entries
\* without a hash.
Quietly(t) == stage[t] = "done" /\ full[t] /\ quiet[t] /\ passes[t] <= MaxPasses
QuietFullRebuildCatchesContent ==
    \A t \in Threads : Quietly(t) =>
        version > 0 /\ \A f \in Files : Vouched(f) => kb[f] = View[f]

\* The answer to a mutation is given from a knowledge base that holds the
\* mutated file as the mutation, or a change after it, left it; for a file
\* that was deleted, at most an entry without content is left.
Responding == stage["writer"] = "respond" /\ mutation.file \in Files \ ignored
Held(f, s) == IF s = Absent THEN NoEntry ELSE EntryOf(f, s)
MutationReflected ==
    Responding =>
        LET f == mutation.file IN
        \/ kb[f] \in {Held(f, s) : s \in mutation.since}
        \/ Absent \in mutation.since /\ kb[f] = Unread

\* A file the `.auignore` excludes never enters the knowledge base.
IgnoredStaysOut == \A f \in ignored : kb[f] = NoEntry

\* After the first build the version advances only for something observable: a
\* changed catalog or fingerprint, or a rewalk the schema path forces.
ForSomething ==
    version' # version =>
        \/ version = 0 \/ kb' # kb \/ fp' # fp
        \/ \E t \in Threads : stage[t] # stage'[t] /\ Schema \in dirty[t]
NoPhantomVersion == [][ForSomething]_vars

\* Once the outside world leaves the disk alone, the held state becomes and
\* stays what a build of that disk would give.
Current == version > 0 /\ kb = View
Converges == <>[]Current

\* With deletions, but for entries without content.
CurrentInContent ==
    version > 0 /\ \A f \in Files : kb[f] = View[f] \/ ContentBlind(f)

\* ReconcilePolicy::Off: "Correct when the mutation channel is the only
\* writer".  Then each answer is given from exactly what is on disk.
WriterLeavesCurrent == stage["writer"] \in {"respond", "idle"} => Current
=============================================================================
