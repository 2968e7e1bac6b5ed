----------------------------- MODULE PackageCache -----------------------------
(***************************************************************************)
(* The device's package cache (au-engine/src/pkgcache.rs, PackageCache): a *)
(* snapshot per commit, fetched and extracted into a scratch directory of  *)
(* the process and renamed into place.  Every engine on the device shares  *)
(* the cache and nothing locks it.                                         *)
(***************************************************************************)
EXTENDS Naturals

CONSTANTS
    Processes, \* engines that use the cache
    Sources,   \* what may be fetched: a remote and a ref
    Shas,      \* commits
    Tips,      \* the commits a source may lead to
    MaxFaults, \* bound on what may happen around an engine and go wrong in it
    None       \* nothing

ASSUME CacheAssumption ==
    /\ Tips \in [Sources -> SUBSET Shas] /\ MaxFaults \in Nat
    /\ \A s \in Sources : Tips[s] # {}

VARIABLES
    tip,     \* the commit each source leads to
    snap,    \* each commit's directory in the cache
    scratch, \* the tree in each process's scratch directory
    stage,   \* where each process is in `ensure`
    wanted,  \* the source it was asked for
    got,     \* the commit it has fetched
    faults   \* spent so far

cacheVars == <<snap, scratch, stage, wanted, got>>

Trees == {"absent", "partial", "whole"}

CacheInit ==
    /\ tip \in [Sources -> Shas] /\ \A s \in Sources : tip[s] \in Tips[s]
    /\ snap = [c \in Shas |-> "absent"]
    /\ scratch = [p \in Processes |-> "absent"]
    /\ stage = [p \in Processes |-> "off"]
    /\ wanted = [p \in Processes |-> None] /\ got = [p \in Processes |-> None]
    /\ faults = 0

At(p, st) == stage' = [stage EXCEPT ![p] = st]
Spend == faults < MaxFaults /\ faults' = faults + 1

\* PackageCache::lookup: is the directory there?
Lookup(c) == snap[c] # "absent"

\* ensure: a scratch directory of its own, so that two never collide.
Ensure(p, s) ==
    /\ At(p, "fetch")
    /\ wanted' = [wanted EXCEPT ![p] = s] /\ got' = [got EXCEPT ![p] = None]
    /\ UNCHANGED <<snap, scratch>>

\* The ref leads to a commit; a snapshot that is there is the same tree.
Fetch(p) ==
    /\ stage[p] = "fetch"
    /\ \/ /\ got' = [got EXCEPT ![p] = tip[wanted[p]]]
          /\ IF Lookup(tip[wanted[p]])
             THEN At(p, "done") /\ UNCHANGED scratch
             ELSE /\ At(p, "extract")
                  /\ scratch' = [scratch EXCEPT ![p] = "partial"]
          /\ UNCHANGED faults
       \/ Spend /\ At(p, "failed") /\ UNCHANGED <<got, scratch>>
    /\ UNCHANGED <<tip, snap, wanted>>

\* Mutant of Extract: the tree is extracted in place.
ExtractInPlace(p) ==
    /\ stage[p] = "extract"
    /\ \/ /\ At(p, "publish") /\ scratch' = [scratch EXCEPT ![p] = "whole"]
          /\ snap' = [snap EXCEPT ![got[p]] = "partial"] /\ UNCHANGED faults
       \/ Spend /\ At(p, "failed") /\ UNCHANGED <<scratch, snap>>
    /\ UNCHANGED <<tip, wanted, got>>

Extract(p) ==
    /\ stage[p] = "extract"
    /\ \/ /\ At(p, "publish") /\ scratch' = [scratch EXCEPT ![p] = "whole"]
          /\ UNCHANGED faults
       \/ Spend /\ At(p, "failed") /\ UNCHANGED scratch
    /\ UNCHANGED <<tip, snap, wanted, got>>

\* The rename: over a directory it faults, which only tells that another
\* process was first.
Publish(p) ==
    /\ stage[p] = "publish"
    /\ \/ /\ IF Lookup(got[p]) THEN UNCHANGED <<snap, scratch>>
             ELSE /\ snap' = [snap EXCEPT ![got[p]] = scratch[p]]
                  /\ scratch' = [scratch EXCEPT ![p] = "absent"]
          /\ At(p, "done") /\ UNCHANGED faults
       \/ /\ ~Lookup(got[p])
          /\ Spend /\ At(p, "failed") /\ UNCHANGED <<snap, scratch>>
    /\ UNCHANGED <<tip, wanted, got>>

\* The scratch directory goes with the call, however it ended.
Clean(p) ==
    /\ scratch' = [scratch EXCEPT ![p] = "absent"]
    /\ stage' = [stage EXCEPT ![p] = "off"]
    /\ wanted' = [wanted EXCEPT ![p] = None] /\ got' = [got EXCEPT ![p] = None]
    /\ UNCHANGED snap

EnsureStep(p) == Fetch(p) \/ Extract(p) \/ Publish(p)

CacheTypeOK ==
    /\ tip \in [Sources -> Shas] /\ snap \in [Shas -> Trees]
    /\ scratch \in [Processes -> Trees]
    /\ stage \in [Processes ->
            {"off", "fetch", "extract", "publish", "done", "failed"}]
    /\ wanted \in [Processes -> Sources \cup {None}]
    /\ got \in [Processes -> Shas \cup {None}] /\ faults \in 0..MaxFaults
=============================================================================
