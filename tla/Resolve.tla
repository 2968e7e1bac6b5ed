------------------------------- MODULE Resolve --------------------------------
(***************************************************************************)
(* The dependency solve (au-engine/src/pkgcache.rs and the resolve verb of *)
(* serve.rs): a walk over declared dependencies that fetches each into the *)
(* cache, one lock per editable repo and one for what the entry discovers, *)
(* written and then committed, and the offline way back from the locks to  *)
(* the mounted packages.  Editable repos are located; a local checkout of  *)
(* a dependency is not modelled.  People edit manifests and push commits,  *)
(* another engine uses the cache, and the daemon may die at any step.      *)
(***************************************************************************)
EXTENDS PackageCache, FiniteSets, Functions, SequencesExt

CONSTANTS
    Editable,     \* the entry and its `edit` members, by name
    Workspace,    \* the key of the workspace lock, which the entry holds
    Names,        \* names of dependencies
    Peers,        \* what each commit's repo.yaml declares
    Registry,     \* the package registry: a partial function of the names
    Declarations, \* what an editable repo may declare
    Discovers,    \* what the entry may discover, by name
    Self,         \* the engine that resolves
    MaxEdits      \* bound on edits of the manifests

Locks == Editable \cup {Workspace}

ASSUME ResolveAssumption ==
    /\ Workspace \notin Editable /\ Self \in Processes
    /\ MaxEdits \in Nat

\* A dependency as a repo.yaml has it: bare, or with something to fetch.
IsSpec(sp) ==
    /\ sp.name \in Names \cup Editable
    /\ sp.remote # None /\ sp.ref # None => <<sp.remote, sp.ref>> \in Sources

ASSUME PackagesAssumption ==
    /\ IsFiniteSet(Names \cup Editable)
    /\ \A c \in Shas : \A sp \in Peers[c] : IsSpec(sp)
    /\ \A m \in Editable : \A ds \in Declarations[m] : \A sp \in ds : IsSpec(sp)
    /\ \A names \in Discovers : names \subseteq Names \cup Editable
    /\ \A n \in DOMAIN Registry :
          <<Registry[n].remote, Registry[n].ref>> \in Sources

VARIABLES
    declared,  \* the dependencies in each editable repo's repo.yaml
    discover,  \* the `discover` list of the workspace
    lock,      \* each lock file on disk; None when there is none
    head,      \* the same at HEAD
    mounted,   \* the packages the held knowledge base was built over
    pc,        \* where the resolve is
    work,      \* worklist: specs to resolve
    enqueued,  \* every spec that was ever in it
    walked,    \* commits whose peers were walked
    consumed,  \* names with the role of a discovered member
    registry,  \* "unread", "loaded" or "failed"
    spec,      \* the one being resolved
    results,   \* one resolution per spec
    edges,     \* what each fetched name declares
    plan,      \* the locks to write
    written,   \* locks written by this resolve
    commits,   \* locks it has still to commit
    clean,     \* history: what happened since the last resolve that went well
    edits      \* edits so far

diskVars    == <<declared, discover, lock, head>>
walkVars    == <<work, enqueued, walked, consumed, registry, spec, results, edges>>
writeVars   == <<plan, written, commits>>
resolveVars == <<pc, walkVars, writeVars>>
vars == <<tip, faults, cacheVars, diskVars, mounted, resolveVars, clean, edits>>

-----------------------------------------------------------------------------
(* Specs, pins and conflicts.                                              *)

Bare(n) == [name |-> n, remote |-> None, ref |-> None, path |-> None]

\* is_safe_subpath: every path but the one that leaves the snapshot.
Safe(path) == path # "escape"

\* resolve_source: as declared, or by name from the registry; no record when
\* the registry does not know the name.
Sourced(sp) ==
    IF sp.remote # None /\ sp.ref # None
    THEN {[remote |-> sp.remote, ref |-> sp.ref, path |-> sp.path]}
    ELSE IF sp.name \in DOMAIN Registry THEN {Registry[sp.name]} ELSE {}

\* A pin: a name, the package it stands for and the commit.
Package(pin) == <<pin.remote, pin.path>>

\* One package at two commits.
VersionConflicts(pins) ==
    {x.name : x \in {y \in pins : \E z \in pins :
        Package(y) = Package(z) /\ y.sha # z.sha}}

\* One name for two packages.
IdentityConflicts(pins) ==
    {x.name : x \in {y \in pins : \E z \in pins :
        y.name = z.name /\ Package(y) # Package(z)}}

\* Mutant of Conflicts: a name at two remotes is not noticed.
VersionsOnly(pins) == VersionConflicts(pins)

Conflicts(pins) == VersionConflicts(pins) \cup IdentityConflicts(pins)

\* What a set of names leads to.
Reach(from, Succ(_)) ==
    LET R[i \in 0..Cardinality(Names \cup Editable)] ==
            IF i = 0 THEN from
            ELSE R[i - 1] \cup UNION {Succ(n) : n \in R[i - 1]}
    IN  R[Cardinality(Names \cup Editable)]

NamesOf(specs) == {sp.name : sp \in specs}

\* locate_locked_dependencies: the union of the locks less its conflicts, from
\* the cache; an editable repo is where it is, the others may be missing.
LockedPins(locks) == UNION {IF lk = None THEN {} ELSE lk : lk \in locks}

Located(locks, cached) ==
    LET pins    == LockedPins(locks)
        skipped == Conflicts(pins) \cup Editable
    IN  {pin \in pins :
            /\ pin.name \notin skipped
            /\ pin.sha \in cached /\ Safe(pin.path)}

Cached == {c \in Shas : Lookup(c)}
Reopened == Located(Range(lock), Cached)

-----------------------------------------------------------------------------
(* The walk.                                                               *)

Init ==
    /\ CacheInit
    /\ declared = [m \in Editable |-> {}] /\ discover = {}
    /\ lock = [l \in Locks |-> None] /\ head = lock
    /\ mounted = {} /\ pc = "idle"
    /\ work = {} /\ enqueued = {} /\ walked = {} /\ consumed = {}
    /\ registry = "unread"
    /\ spec = None /\ results = {} /\ edges = <<>>
    /\ plan = <<>> /\ written = {} /\ commits = {}
    /\ clean = TRUE
    /\ edits = 0

\* Its direct dependencies, each editable repo's raw ones among them; an
\* explicit source wins over a bare `discover`.
Direct == {sp \in UNION Range(declared) : sp.name \notin Editable}
Consumed == discover \ (NamesOf(Direct) \cup Editable)
Seeds == Direct \cup {Bare(n) : n \in Consumed}

Start ==
    /\ pc = "idle" /\ pc' = "walk"
    /\ work' = Seeds /\ enqueued' = Seeds /\ consumed' = Consumed
    /\ clean' = TRUE
    /\ UNCHANGED <<tip, faults, cacheVars, diskVars, mounted, walked, registry,
                   spec, results, edges, writeVars, edits>>

\* What a resolve holds goes with it.
Forget ==
    /\ work' = {} /\ enqueued' = {} /\ consumed' = {} /\ walked' = {}
    /\ registry' = "unread" /\ spec' = None /\ results' = {} /\ edges' = <<>>
    /\ plan' = <<>> /\ written' = {} /\ commits' = {}

Resolution(sp, src, sha) ==
    [name |-> sp.name, remote |-> src.remote, path |-> src.path, sha |-> sha]

Unresolved(sp) ==
    [name |-> sp.name, remote |-> None, path |-> None, sha |-> None]

Pins(res) == {r \in res : r.sha # None}

\* The registry is loaded at most once, when a bare spec first asks for it.
LoadRegistry ==
    /\ pc = "walk" /\ registry = "unread"
    /\ \E sp \in work : sp.remote = None \/ sp.ref = None
    /\ \/ registry' = "loaded" /\ UNCHANGED faults
       \/ registry' = "failed" /\ Spend
    /\ UNCHANGED <<tip, cacheVars, diskVars, mounted, pc, work, enqueued, walked,
                   consumed, spec, results, edges, writeVars, clean, edits>>

\* The order of the specs is of no account: any fixed one.
Take ==
    LET sp      == CHOOSE sp \in work : TRUE
        bare    == sp.remote = None \/ sp.ref = None
        sources == IF bare /\ registry = "failed" THEN {} ELSE Sourced(sp)
    IN  /\ pc = "walk" /\ work # {}
        /\ bare => registry # "unread"
        /\ work' = work \ {sp}
        /\ IF sources = {}
           THEN /\ results' = results \cup {Unresolved(sp)}
                /\ UNCHANGED <<pc, spec, cacheVars>>
           ELSE \E src \in sources :
                /\ spec' = [sp |-> sp, src |-> src]
                /\ Ensure(Self, <<src.remote, src.ref>>)
                /\ pc' = "ensure" /\ UNCHANGED results
        /\ UNCHANGED <<tip, faults, diskVars, mounted, enqueued, walked, consumed,
                       registry, edges, writeVars, clean, edits>>

\* Mutant of NewSpecs: peers are walked however often they come up.
Unwalked(sha) == {p \in Peers[sha] : p.name \notin Editable}

\* The peers a fetched commit adds: once per commit and once per spec, and an
\* editable repo shadows its name.
NewSpecs(sha) ==
    IF sha \in walked THEN {}
    ELSE {p \in Peers[sha] : p.name \notin Editable} \ enqueued

Ensured ==
    LET sha == IF stage[Self] = "done" THEN got[Self] ELSE None
        ok  == sha # None /\ Safe(spec.src.path)
    IN  /\ pc = "ensure" /\ stage[Self] \in {"done", "failed"}
        /\ results' = results \cup {Resolution(spec.sp, spec.src, sha)}
        /\ IF ok
           THEN /\ edges' = [n \in DOMAIN edges \cup {spec.sp.name} |->
                    IF n = spec.sp.name THEN NamesOf(Peers[sha]) ELSE edges[n]]
                /\ work' = work \cup NewSpecs(sha)
                /\ enqueued' = enqueued \cup NewSpecs(sha)
                /\ walked' = walked \cup {sha}
           ELSE UNCHANGED <<edges, work, enqueued, walked>>
        /\ spec' = None /\ pc' = "walk" /\ Clean(Self)
        /\ UNCHANGED <<tip, faults, diskVars, mounted, consumed, registry,
                       writeVars, clean, edits>>

-----------------------------------------------------------------------------
(* The locks.                                                              *)

\* lock_from_resolutions: what resolved, but for conflicts and escaping paths.
FullLock ==
    LET pins     == Pins(results)
        excluded == Conflicts(pins) \cup {r.name : r \in {x \in pins : ~Safe(x.path)}}
    IN  {r \in pins : r.name \notin excluded}

\* Mutant of Leads: an editable repo is a dead end.
LeadsFetched(pinned, n) ==
    IF n \in pinned \cap DOMAIN edges THEN edges[n] ELSE {}

\* What a name leads to: the dependencies of a pinned package, or those of an
\* editable repo, which is never pinned itself.
Leads(pinned, n) ==
    CASE n \in pinned \cap DOMAIN edges -> edges[n]
      [] n \in Editable \ pinned        -> NamesOf(declared[n])
      [] OTHER                          -> {}

\* partition_repo_locks and partition_workspace_lock.
Partition ==
    LET full    == FullLock
        pinned  == NamesOf(full)
        Succ(n) == Leads(pinned, n)
        From(names) == LET reached == Reach(names, Succ)
                       IN  {r \in full : r.name \in reached}
    IN  [l \in Locks |->
            From(IF l = Workspace THEN consumed ELSE NamesOf(declared[l]))]

AllFetched == \A r \in results : r.sha # None

\* Mutant of ToWrite: an empty lock is not worth writing.
NonEmpty(locks) == {l \in Locks : locks[l] # {}}

\* An empty lock is written only over one that is there.
ToWrite(locks) == {l \in Locks : locks[l] # {} \/ lock[l] # None}

Plan == LET locks == Partition IN Restrict(locks, ToWrite(locks))

\* With a fetch that failed the locks stay as they are.
Decide ==
    /\ pc = "walk" /\ work = {}
    /\ IF AllFetched
       THEN /\ plan' = Plan
            /\ pc' = "write" /\ UNCHANGED clean
       ELSE /\ pc' = "answer" /\ clean' = FALSE /\ UNCHANGED plan
    /\ UNCHANGED <<tip, faults, cacheVars, diskVars, mounted, walkVars, written,
                   commits, edits>>

\* Each write is atomic; one that fails ends the resolve before any commit.
Write(l) ==
    /\ pc = "write" /\ l \in DOMAIN plan \ written
    /\ \/ /\ lock' = [lock EXCEPT ![l] = plan[l]]
          /\ written' = written \cup {l}
          /\ UNCHANGED <<pc, faults, clean>>
       \/ Spend /\ pc' = "answer" /\ clean' = FALSE /\ UNCHANGED <<lock, written>>
    /\ UNCHANGED <<tip, cacheVars, declared, discover, head, mounted, walkVars,
                   plan, commits, edits>>

\* Mutant of WrittenAll: the commits do not wait for the last write.
WrittenSome ==
    /\ pc = "write" /\ (written # {} \/ DOMAIN plan = {})
    /\ pc' = "commit" /\ commits' = written
    /\ UNCHANGED <<tip, faults, cacheVars, diskVars, mounted, walkVars, plan,
                   written, clean, edits>>

WrittenAll ==
    /\ pc = "write" /\ DOMAIN plan \subseteq written
    /\ pc' = "commit" /\ commits' = written
    /\ UNCHANGED <<tip, faults, cacheVars, diskVars, mounted, walkVars, plan,
                   written, clean, edits>>

\* Nothing to commit when the lock matches HEAD; a commit that fails is
\* reported and the others go on.
Commit(l) ==
    /\ pc = "commit" /\ l \in commits
    /\ commits' = commits \ {l}
    /\ \/ head' = [head EXCEPT ![l] = lock[l]] /\ UNCHANGED <<faults, clean>>
       \/ head[l] # lock[l] /\ Spend /\ clean' = FALSE /\ UNCHANGED head
    /\ UNCHANGED <<tip, cacheVars, declared, discover, lock, mounted, pc,
                   walkVars, plan, written, edits>>

\* rebuild_paths over what was written.
Rebuild ==
    /\ pc = "commit" /\ commits = {}
    /\ mounted' = IF written # {} THEN Reopened ELSE mounted
    /\ pc' = "answer"
    /\ UNCHANGED <<tip, faults, cacheVars, diskVars, walkVars, writeVars, clean,
                   edits>>

Answer ==
    /\ pc = "answer" /\ pc' = "idle" /\ Forget
    /\ UNCHANGED <<tip, faults, cacheVars, diskVars, mounted, clean, edits>>

ResolveStep ==
    \/ LoadRegistry \/ Take \/ Ensured
    \/ Decide \/ (\E l \in Locks : Write(l)) \/ WrittenAll
    \/ (\E l \in Locks : Commit(l)) \/ Rebuild \/ Answer

-----------------------------------------------------------------------------
(* Everything else.                                                        *)

\* A person edits a repo.yaml or the workspace's `discover` list.
Edit ==
    /\ edits < MaxEdits /\ edits' = edits + 1 /\ clean' = FALSE
    /\ \/ /\ \E m \in Editable : \E ds \in Declarations[m] :
                declared' = [declared EXCEPT ![m] = ds]
          /\ UNCHANGED discover
       \/ discover' \in Discovers /\ UNCHANGED declared
    /\ UNCHANGED <<tip, faults, cacheVars, lock, head, mounted, resolveVars>>

\* A source comes to lead to another commit.
Push(s) ==
    /\ Spend
    /\ \E c \in Tips[s] \ {tip[s]} : tip' = [tip EXCEPT ![s] = c]
    /\ UNCHANGED <<cacheVars, diskVars, mounted, resolveVars, clean, edits>>

\* Someone clears the cache of a snapshot.
Evict(c) ==
    /\ Lookup(c) /\ Spend /\ clean' = FALSE
    /\ snap' = [snap EXCEPT ![c] = "absent"]
    /\ UNCHANGED <<tip, scratch, stage, wanted, got, diskVars, mounted,
                   resolveVars, edits>>

\* Another engine on the device, through the same cache.
OtherEnsure(p, s) ==
    /\ stage[p] = "off" /\ Spend /\ Ensure(p, s)
    /\ UNCHANGED <<tip, diskVars, mounted, resolveVars, clean, edits>>

OtherStep(p) ==
    /\ \/ EnsureStep(p)
       \/ stage[p] \in {"done", "failed"} /\ Clean(p) /\ UNCHANGED <<tip, faults>>
    /\ UNCHANGED <<diskVars, mounted, resolveVars, clean, edits>>

\* The daemon dies and another opens the entry, offline.
Crash ==
    /\ pc # "idle" /\ Spend /\ clean' = FALSE
    /\ pc' = "idle" /\ Clean(Self) /\ Forget
    /\ mounted' = Reopened
    /\ UNCHANGED <<tip, diskVars, edits>>

SelfEnsure == EnsureStep(Self)
    /\ UNCHANGED <<diskVars, mounted, resolveVars, clean, edits>>

Others == Processes \ {Self}

Next ==
    \/ Start \/ ResolveStep \/ SelfEnsure
    \/ Edit \/ Crash
    \/ \E s \in Sources : Push(s)
    \/ \E c \in Shas : Evict(c)
    \/ \E p \in Others : OtherStep(p) \/ \E s \in Sources : OtherEnsure(p, s)

Spec == Init /\ [][Next]_vars

\* A resolve goes on until it answers; nothing else has to happen.
FairSpec == Spec /\ WF_vars(ResolveStep \/ SelfEnsure)

-----------------------------------------------------------------------------
(* Properties.                                                             *)

TypeOK ==
    /\ CacheTypeOK
    /\ DOMAIN lock = Locks /\ DOMAIN head = Locks
    /\ \A l \in Locks : lock[l] = None => head[l] = None
    /\ pc \in {"idle", "walk", "ensure", "write", "commit", "answer"}
    /\ work \subseteq enqueued /\ walked \subseteq Shas
    /\ registry \in {"unread", "loaded", "failed"}
    /\ DOMAIN plan \subseteq Locks /\ written \subseteq DOMAIN plan
    /\ commits \subseteq written /\ clean \in BOOLEAN

\* A snapshot that is in the cache is whole, whoever else fetches the same
\* commit and wherever a process dies: no half-fetched package is mounted.
SnapshotsWhole == \A c \in Shas : snap[c] # "partial"

\* What is mounted never holds two packages under one name, nor one package at
\* two commits, even when a crash between two lock writes, or an edit since,
\* has left the locks at odds.
NoTwoOfOne == \A x, y \in mounted :
    /\ x.name = y.name => x = y
    /\ Package(x) = Package(y) => x.sha = y.sha

\* What an editable repo, or the workspace, needs: the reference for its lock.
\* The least set of names that holds its own and, with a name, those its
\* commit or its editable repo declares; conflicted names lead nowhere.
Needs(names) ==
    LET all == Names \cup Editable
        two == Conflicts(Pins(results))
        ok  == {r \in Pins(results) : Safe(r.path) /\ r.name \notin two}
        closed(N) ==
            /\ names \subseteq N
            /\ \A r \in ok : r.name \in N => NamesOf(Peers[r.sha]) \subseteq N
            /\ \A m \in Editable \cap N : NamesOf(declared[m]) \subseteq N
        least == {n \in all : \A N \in SUBSET all : closed(N) => n \in N}
    IN  {r \in ok : r.name \in least /\ r.name \notin Editable}

Succeeded == pc = "answer" /\ clean

\* A resolve in which nothing failed leaves each editable repo a lock that it
\* can be opened with alone: all its dependencies need, through the packages
\* and the editable repos behind them, and nothing it no longer needs.
LocksSelfSufficient ==
    Succeeded => \A m \in Editable :
        /\ LockedPins({lock[m]}) = Needs(NamesOf(declared[m]))
        /\ Located({lock[m]}, Cached) = Needs(NamesOf(declared[m]))

\* The rebuild after it, and every offline reopening, mounts what the solve
\* found: a dependency that was dropped is no longer mounted.
ResolvedIsMounted ==
    Succeeded => /\ mounted = Reopened
                 /\ mounted = Needs(discover
                        \cup UNION {NamesOf(ds) : ds \in Range(declared)})

\* A lock write that fails is followed by no commit: HEAD moves in no repo
\* unless every lock of the solve was written.
CommitsWholeSolve == [][head' # head => DOMAIN plan = written]_head

\* A resolve ends, though packages depend on each other in a circle.
ResolveEnds == pc = "walk" ~> pc = "idle"
=============================================================================
