---------------------------- MODULE ResolveProofs -----------------------------
(***************************************************************************)
(* Proofs about the dependency solve and the package cache under it, for   *)
(* any number of engines, sources, commits, repos and faults.  A solve     *)
(* crosses three stores that nothing locks together (the cache, the lock   *)
(* files and HEAD), and the first theorems say what holds of each wherever *)
(* an engine stops: no snapshot is in the cache half-fetched, HEAD moves   *)
(* only after the last lock is written, and what is mounted holds one      *)
(* package under a name.  The last two say what a solve that went well     *)
(* leaves: locks that hold exactly what is needed, and that mounted.       *)
(***************************************************************************)
EXTENDS Resolve, FiniteSetTheorems, WellFoundedInduction, TLAPS

-----------------------------------------------------------------------------
(* The cache.                                                              *)

Stages == {"off", "fetch", "extract", "publish", "done", "failed"}

\* What a process is about to rename into place has been extracted to the end:
\* the scratch directory is its own, and no other step touches it.
CacheInv ==
    /\ snap \in [Shas -> Trees]
    /\ scratch \in [Processes -> Trees]
    /\ stage \in [Processes -> Stages]
    /\ \A p \in Processes : stage[p] = "publish" => scratch[p] = "whole"
    /\ SnapshotsWhole

USE DEF Stages, Trees, Lookup, At

\* A call that starts asks for a commit and has nothing in scratch to publish.
LEMMA EnsureKeepsCache ==
    ASSUME CacheInv, NEW p \in Processes, NEW s, Ensure(p, s)
    PROVE  CacheInv'
BY DEF CacheInv, Ensure, SnapshotsWhole

LEMMA CleanKeepsCache ==
    ASSUME CacheInv, NEW p \in Processes, Clean(p)
    PROVE  CacheInv'
BY DEF CacheInv, Clean, SnapshotsWhole

\* Only the rename puts a tree in the cache, and the tree it puts is whole.
LEMMA EnsureStepKeepsCache ==
    ASSUME CacheInv, NEW p \in Processes, EnsureStep(p)
    PROVE  CacheInv'
<1>1. CASE Fetch(p)
  BY <1>1 DEF CacheInv, Fetch, SnapshotsWhole
<1>2. CASE Extract(p)
  BY <1>2 DEF CacheInv, Extract, SnapshotsWhole
<1>3. CASE Publish(p)
  BY <1>3 DEF CacheInv, Publish, SnapshotsWhole
<1>4. QED
  BY <1>1, <1>2, <1>3 DEF EnsureStep

LEMMA SameCache ==
    ASSUME CacheInv, UNCHANGED cacheVars
    PROVE  CacheInv'
BY DEF CacheInv, cacheVars, SnapshotsWhole

LEMMA ResolveStepKeepsCache ==
    ASSUME CacheInv, ResolveStep
    PROVE  CacheInv'
<1> Self \in Processes
  BY ResolveAssumption
<1>1. CASE Take
  <2>1. UNCHANGED cacheVars \/ \E s : Ensure(Self, s)
    BY <1>1 DEF Take
  <2>2. QED
    BY <2>1, EnsureKeepsCache, SameCache
<1>2. CASE Ensured
  BY <1>2, CleanKeepsCache DEF Ensured
<1>3. CASE LoadRegistry \/ Decide \/ WrittenAll \/ Rebuild \/ Answer
  BY <1>3, SameCache
  DEF LoadRegistry, Decide, WrittenAll, Rebuild, Answer
<1>4. CASE \E l \in Locks : Write(l) \/ Commit(l)
  BY <1>4, SameCache DEF Write, Commit
<1>5. QED
  BY <1>1, <1>2, <1>3, <1>4 DEF ResolveStep

LEMMA NextKeepsCache ==
    ASSUME CacheInv, [Next]_vars
    PROVE  CacheInv'
<1> Self \in Processes
  BY ResolveAssumption
<1>1. CASE ResolveStep
  BY <1>1, ResolveStepKeepsCache
<1>2. CASE SelfEnsure
  BY <1>2, EnsureStepKeepsCache DEF SelfEnsure
<1>3. CASE Crash
  BY <1>3, CleanKeepsCache DEF Crash
<1>4. CASE Start \/ Edit \/ UNCHANGED vars
  BY <1>4, SameCache DEF Start, Edit, resolveVars, vars
<1>5. CASE \E s \in Sources : Push(s)
  BY <1>5, SameCache DEF Push
<1>6. CASE \E c \in Shas : Evict(c)
  BY <1>6 DEF Evict, CacheInv, SnapshotsWhole
<1>7. CASE \E p \in Others : OtherStep(p)
  BY <1>7, EnsureStepKeepsCache, CleanKeepsCache DEF OtherStep, Others
<1>8. CASE \E p \in Others, s \in Sources : OtherEnsure(p, s)
  BY <1>8, EnsureKeepsCache DEF OtherEnsure, Others
<1>9. QED
  BY <1>1, <1>2, <1>3, <1>4, <1>5, <1>6, <1>7, <1>8 DEF Next

LEMMA InitCache == Init => CacheInv
BY DEF Init, CacheInit, CacheInv, SnapshotsWhole

\* However many engines fetch the same commit at once, and wherever one of
\* them fails or dies, a snapshot that is in the cache is a whole tree
\* (PackageCache::ensure: scratch directory, then rename).
THEOREM CacheHoldsWholeTrees == Spec => []SnapshotsWhole
<1>1. CacheInv => SnapshotsWhole
  BY DEF CacheInv
<1>2. QED
  BY <1>1, InitCache, NextKeepsCache, PTL DEF Spec

-----------------------------------------------------------------------------
(* The commits.                                                            *)

\* What a resolve has written is of its own plan, and nothing is written
\* before there is one; it commits once nothing of the plan is missing.
WriteInv ==
    /\ pc \in {"idle", "walk", "ensure"} => written = {}
    /\ written \subseteq DOMAIN plan
    /\ pc = "commit" => DOMAIN plan = written

LEMMA InitWrites == Init => WriteInv
BY DEF Init, WriteInv

LEMMA SameWrites ==
    ASSUME WriteInv, UNCHANGED writeVars, UNCHANGED pc
    PROVE  WriteInv'
BY DEF WriteInv, writeVars

LEMMA ResolveStepKeepsWrites ==
    ASSUME WriteInv, ResolveStep
    PROVE  WriteInv'
<1>1. CASE LoadRegistry
  BY <1>1, SameWrites DEF LoadRegistry
<1>2. CASE Take
  BY <1>2 DEF Take, WriteInv, writeVars
<1>3. CASE Ensured
  BY <1>3 DEF Ensured, WriteInv, writeVars
<1>4. CASE Decide
  BY <1>4 DEF Decide, WriteInv
<1>5. ASSUME NEW l \in Locks, Write(l)
      PROVE  WriteInv'
  BY <1>5 DEF Write, WriteInv
<1>6. CASE WrittenAll
  BY <1>6 DEF WrittenAll, WriteInv
<1>7. ASSUME NEW l \in Locks, Commit(l)
      PROVE  WriteInv'
  BY <1>7 DEF Commit, WriteInv
<1>8. CASE Rebuild
  BY <1>8 DEF Rebuild, WriteInv, writeVars
<1>9. CASE Answer
  BY <1>9 DEF Answer, Forget, WriteInv
<1>10. QED
  BY <1>1, <1>2, <1>3, <1>4, <1>5, <1>6, <1>7, <1>8, <1>9 DEF ResolveStep

LEMMA NextKeepsWrites ==
    ASSUME WriteInv, [Next]_vars
    PROVE  WriteInv'
<1>1. CASE ResolveStep
  BY <1>1, ResolveStepKeepsWrites
<1>2. CASE Start
  BY <1>2 DEF Start, WriteInv, writeVars
<1>3. CASE Crash
  BY <1>3 DEF Crash, Forget, WriteInv
<1>4. CASE SelfEnsure \/ Edit \/ UNCHANGED vars
  BY <1>4, SameWrites DEF SelfEnsure, Edit, resolveVars, vars
<1>5. CASE \/ \E s \in Sources : Push(s)
           \/ \E c \in Shas : Evict(c)
           \/ \E p \in Others : OtherStep(p) \/ \E s \in Sources : OtherEnsure(p, s)
  BY <1>5, SameWrites DEF Push, Evict, OtherStep, OtherEnsure, resolveVars
<1>6. QED
  BY <1>1, <1>2, <1>3, <1>4, <1>5 DEF Next

\* No step but a commit moves a HEAD.
LEMMA OnlyCommitsMoveHead ==
    ASSUME [Next]_vars, head' # head
    PROVE  pc = "commit"
<1>1. CASE ResolveStep
  BY <1>1 DEF ResolveStep, LoadRegistry, Take, Ensured, Decide, Write, WrittenAll,
              Commit, Rebuild, Answer, diskVars
<1>2. CASE Start \/ SelfEnsure \/ Edit \/ Crash \/ UNCHANGED vars
  BY <1>2 DEF Start, SelfEnsure, Edit, Crash, diskVars, vars
<1>3. CASE \/ \E s \in Sources : Push(s)
           \/ \E c \in Shas : Evict(c)
           \/ \E p \in Others : OtherStep(p) \/ \E s \in Sources : OtherEnsure(p, s)
  BY <1>3 DEF Push, Evict, OtherStep, OtherEnsure, diskVars
<1>4. QED
  BY <1>1, <1>2, <1>3 DEF Next

\* HEAD moves in no repo unless every lock of the solve was written, whichever
\* write fails and wherever the daemon dies (resolve: the writes are all made
\* before the first commit).
THEOREM CommitsComeLast == Spec => CommitsWholeSolve
<1>1. WriteInv /\ [Next]_vars => [head' # head => DOMAIN plan = written]_head
  BY OnlyCommitsMoveHead DEF WriteInv
<1>2. Spec => []WriteInv
  BY InitWrites, NextKeepsWrites, PTL DEF Spec
<1>3. QED
  BY <1>1, <1>2, PTL DEF Spec, CommitsWholeSolve

-----------------------------------------------------------------------------
(* What is mounted.                                                        *)

\* A resolution is told by its name, its package and its commit.
IsPin(r) == r = [name |-> r.name, remote |-> r.remote,
                 path |-> r.path, sha |-> r.sha]

ArePins(set) == \A r \in set : IsPin(r)

OnePackageEach(set) == \A x, y \in set :
    /\ x.name = y.name => x = y
    /\ Package(x) = Package(y) => x.sha = y.sha

\* Leaving out every name that is in a conflict leaves one package a name and
\* one commit a package, whatever the locks say.
LEMMA LocatedApart ==
    ASSUME NEW locks, NEW cached,
           \A lk \in locks : lk # None => ArePins(lk)
    PROVE  OnePackageEach(Located(locks, cached))
<1> DEFINE pins == LockedPins(locks)
           found == Located(locks, cached)
<1>1. ArePins(pins)
  BY DEF LockedPins, ArePins
<1>2. \A x \in found : x \in pins /\ x.name \notin Conflicts(pins)
  BY DEF Located
<1> HIDE DEF pins, found
<1>3. ASSUME NEW x \in found, NEW y \in found
      PROVE  /\ x.name = y.name => x = y
             /\ Package(x) = Package(y) => x.sha = y.sha
  <2>1. Package(x) = Package(y) => x.sha = y.sha
    BY <1>2, <1>3 DEF Conflicts, VersionConflicts
  <2>2. x.name = y.name => Package(x) = Package(y)
    BY <1>2, <1>3 DEF Conflicts, IdentityConflicts
  <2>3. Package(x) = Package(y) => x.remote = y.remote /\ x.path = y.path
    BY DEF Package
  <2>4. IsPin(x) /\ IsPin(y)
    BY <1>1, <1>2 DEF ArePins
  <2>5. QED
    BY <2>1, <2>2, <2>3, <2>4 DEF IsPin
<1>4. QED
  BY <1>3 DEF OnePackageEach, found

\* A lock of the plan holds only what the walk resolved.
LEMMA PartOfResults == \A l \in Locks : Partition[l] \subseteq results
BY DEF Partition, FullLock, Pins

LEMMA PlanOfResults ==
    /\ DOMAIN Plan \subseteq Locks
    /\ \A l \in DOMAIN Plan : Plan[l] \subseteq results
BY PartOfResults DEF Plan, Restrict, ToWrite

\* The pins of the walk reach the disk through the plan, and the locks reach
\* what is mounted through a reopening, possibly after a crash between two of
\* them has left them of different solves.
PinInv ==
    /\ ArePins(results)
    /\ \A l \in DOMAIN plan : ArePins(plan[l])
    /\ \A l \in DOMAIN lock : lock[l] # None => ArePins(lock[l])
    /\ NoTwoOfOne

LEMMA ReopenedApart ==
    ASSUME \A l \in DOMAIN lock : lock[l] # None => ArePins(lock[l])
    PROVE  OnePackageEach(Reopened)
BY LocatedApart DEF Reopened, Range

LEMMA InitPins == Init => PinInv
BY DEF Init, PinInv, ArePins, NoTwoOfOne

LEMMA SamePins ==
    ASSUME PinInv, UNCHANGED <<results, plan, lock, mounted>>
    PROVE  PinInv'
BY DEF PinInv, NoTwoOfOne, ArePins

LEMMA ForgetKeepsPins ==
    ASSUME PinInv, Forget, UNCHANGED lock,
           mounted' \in {mounted, Reopened}
    PROVE  PinInv'
<1>1. OnePackageEach(Reopened)
  BY ReopenedApart DEF PinInv
<1>2. OnePackageEach(mounted)
  BY DEF PinInv, NoTwoOfOne, OnePackageEach
<1>3. NoTwoOfOne'
  BY <1>1, <1>2 DEF NoTwoOfOne, OnePackageEach
<1>4. QED
  BY <1>3 DEF PinInv, Forget, ArePins

LEMMA ResolveStepKeepsPins ==
    ASSUME PinInv, ResolveStep
    PROVE  PinInv'
<1>1. CASE LoadRegistry \/ WrittenAll
  BY <1>1, SamePins DEF LoadRegistry, WrittenAll, diskVars, walkVars, writeVars
<1>2. CASE Take
  <2> DEFINE one == CHOOSE sp \in work : TRUE
  <2>1. results' = results \/ results' = results \cup {Unresolved(one)}
    BY <1>2 DEF Take
  <2>2. UNCHANGED <<plan, lock, mounted>>
    BY <1>2 DEF Take, diskVars, writeVars
  <2> HIDE DEF one
  <2>3. IsPin(Unresolved(one))
    BY DEF IsPin, Unresolved
  <2>4. ArePins(results')
    BY <2>1, <2>3 DEF PinInv, ArePins
  <2>5. QED
    BY <2>2, <2>4 DEF PinInv, NoTwoOfOne
<1>3. CASE Ensured
  <2>1. ArePins(results')
    BY <1>3 DEF Ensured, PinInv, ArePins, IsPin, Resolution
  <2>2. UNCHANGED <<plan, lock, mounted>>
    BY <1>3 DEF Ensured, diskVars, writeVars
  <2>3. QED
    BY <2>1, <2>2 DEF PinInv, NoTwoOfOne
<1>4. CASE Decide
  <2>1. UNCHANGED <<results, lock, mounted>> /\ plan' \in {plan, Plan}
    BY <1>4 DEF Decide, walkVars, diskVars
  <2>2. \A l \in DOMAIN plan' : ArePins(plan'[l])
    BY <2>1, PlanOfResults DEF PinInv, ArePins
  <2>3. QED
    BY <2>1, <2>2 DEF PinInv, NoTwoOfOne
<1>5. ASSUME NEW l \in Locks, Write(l)
      PROVE  PinInv'
  <2>1. UNCHANGED <<results, plan, mounted>>
    BY <1>5 DEF Write, walkVars
  <2>2. lock' = lock \/ (lock' = [lock EXCEPT ![l] = plan[l]] /\ l \in DOMAIN plan)
    BY <1>5 DEF Write
  <2>3. \A k \in DOMAIN lock' : lock'[k] # None => ArePins(lock'[k])
    BY <2>2 DEF PinInv
  <2>4. QED
    BY <2>1, <2>3 DEF PinInv, NoTwoOfOne
<1>6. ASSUME NEW l \in Locks, Commit(l)
      PROVE  PinInv'
  BY <1>6, SamePins DEF Commit, walkVars
<1>7. CASE Rebuild
  <2>1. UNCHANGED <<results, plan, lock>> /\ mounted' \in {mounted, Reopened}
    BY <1>7 DEF Rebuild, walkVars, diskVars, writeVars
  <2>2. OnePackageEach(Reopened)
    BY ReopenedApart DEF PinInv
  <2>3. NoTwoOfOne'
    BY <2>1, <2>2 DEF PinInv, NoTwoOfOne, OnePackageEach
  <2>4. QED
    BY <2>1, <2>3 DEF PinInv
<1>8. CASE Answer
  BY <1>8, ForgetKeepsPins DEF Answer, diskVars
<1>9. QED
  BY <1>1, <1>2, <1>3, <1>4, <1>5, <1>6, <1>7, <1>8 DEF ResolveStep

LEMMA NextKeepsPins ==
    ASSUME PinInv, [Next]_vars
    PROVE  PinInv'
<1>1. CASE ResolveStep
  BY <1>1, ResolveStepKeepsPins
<1>2. CASE Crash
  BY <1>2, ForgetKeepsPins DEF Crash, diskVars
<1>3. CASE Start \/ SelfEnsure \/ Edit \/ UNCHANGED vars
  BY <1>3, SamePins DEF Start, SelfEnsure, Edit, diskVars, resolveVars, walkVars,
                        writeVars, vars
<1>4. CASE \/ \E s \in Sources : Push(s)
           \/ \E c \in Shas : Evict(c)
           \/ \E p \in Others : OtherStep(p) \/ \E s \in Sources : OtherEnsure(p, s)
  BY <1>4, SamePins DEF Push, Evict, OtherStep, OtherEnsure, diskVars, resolveVars,
                        walkVars, writeVars
<1>5. QED
  BY <1>1, <1>2, <1>3, <1>4 DEF Next

\* What is mounted never holds two packages under one name, nor one package at
\* two commits, though the locks it is read from may be of different solves
\* (locate_locked_dependencies leaves out every name in a conflict).
THEOREM MountedOnce == Spec => []NoTwoOfOne
<1>1. PinInv => NoTwoOfOne
  BY DEF PinInv
<1>2. QED
  BY <1>1, InitPins, NextKeepsPins, PTL DEF Spec

-----------------------------------------------------------------------------
(* How far a name leads.  Induction here is over a set of naturals, and the *)
(* rounds of Reach are bounded by the number of names.                     *)

\* Induction over the naturals with a set for the predicate.
LEMMA SetInduction ==
    ASSUME NEW S, 0 \in S, \A n \in Nat : n \in S => n + 1 \in S
    PROVE  \A n \in Nat : n \in S
<1> DEFINE R == {p \in Nat \X Nat : p[1] < p[2]}
           T == {n \in Nat : n \notin S}
<1>1. IsWellFoundedOn(R, Nat)
  BY NatLessThanWellFounded DEF OpToRel
<1>2. SUFFICES ASSUME T # {} PROVE FALSE
  OBVIOUS
<1>3. PICK x \in T : \A y \in T : <<y, x>> \notin R
  <2> HIDE DEF R
  <2>1. QED
    BY <1>1, <1>2, WFMin
<1>4. x \in Nat /\ x # 0
  OBVIOUS
<1>5. x - 1 \in Nat /\ <<x - 1, x>> \in R
  BY <1>4
<1>6. x - 1 \in S
  BY <1>3, <1>5
<1>7. QED
  BY <1>4, <1>5, <1>6

All == Names \cup Editable

\* One round of the walk over what a name leads to.
Onward(pinned, N) == N \cup UNION {Leads(pinned, n) : n \in N}

Rounds(R, n, from, pinned) ==
    R = [i \in 0..n |-> IF i = 0 THEN from ELSE Onward(pinned, R[i - 1])]

Reached(from, pinned) == Reach(from, LAMBDA n : Leads(pinned, n))

Closed(pinned, N) == \A n \in N : Leads(pinned, n) \subseteq N

LEMMA RoundsExist ==
    ASSUME NEW from, NEW pinned
    PROVE  \A n \in Nat : \E R : Rounds(R, n, from, pinned)
<1> DEFINE S == {n \in Nat : \E R : Rounds(R, n, from, pinned)}
<1>1. 0 \in S
  <2>1. Rounds([i \in 0..0 |-> from], 0, from, pinned)
    BY DEF Rounds
  <2>2. QED
    BY <2>1
<1>2. ASSUME NEW n \in Nat, n \in S
      PROVE  n + 1 \in S
  <2>1. PICK R : Rounds(R, n, from, pinned)
    BY <1>2
  <2> DEFINE Q == [i \in 0..(n + 1) |->
                      IF i = n + 1 THEN Onward(pinned, R[n]) ELSE R[i]]
  <2>2. Rounds(Q, n + 1, from, pinned)
    <3>1. ASSUME NEW i \in 0..(n + 1)
          PROVE  Q[i] = IF i = 0 THEN from ELSE Onward(pinned, Q[i - 1])
      <4>1. CASE i = n + 1
        <5>1. i - 1 = n /\ n \in 0..(n + 1) /\ n # n + 1 /\ i # 0
          BY <4>1
        <5>2. QED
          BY <4>1, <5>1
      <4>2. CASE i # n + 1
        <5>1. i \in 0..n /\ (i # 0 => i - 1 \in 0..n)
          BY <4>2
        <5>2. R[i] = IF i = 0 THEN from ELSE Onward(pinned, R[i - 1])
          BY <2>1, <5>1 DEF Rounds
        <5>3. i # 0 => Q[i - 1] = R[i - 1]
          BY <5>1
        <5>4. QED
          BY <4>2, <5>2, <5>3
      <4>3. QED
        BY <4>1, <4>2
    <3> HIDE DEF Q
    <3>2. QED
      BY <3>1 DEF Rounds, Q
  <2>3. QED
    BY <2>2
<1> HIDE DEF S
<1>3. \A n \in Nat : n \in S
  BY <1>1, <1>2, SetInduction
<1>4. QED
  BY <1>3 DEF S

LEMMA ReachedByRounds ==
    ASSUME NEW from, NEW pinned, Cardinality(All) \in Nat
    PROVE  \E R : /\ Rounds(R, Cardinality(All), from, pinned)
                  /\ Reached(from, pinned) = R[Cardinality(All)]
<1> DEFINE Q == CHOOSE R : Rounds(R, Cardinality(All), from, pinned)
<1>1. Rounds(Q, Cardinality(All), from, pinned)
  BY RoundsExist
<1>2. Reached(from, pinned) = Q[Cardinality(All)]
  BY DEF Reached, Reach, Rounds, Onward, All
<1>3. QED
  BY <1>1, <1>2

\* N is the least set of names that holds those of `from` and is closed.
Least(N, from, pinned) ==
    /\ from \subseteq N /\ N \subseteq All /\ Closed(pinned, N)
    /\ \A M : from \subseteq M /\ Closed(pinned, M) => N \subseteq M

\* As many rounds as there are names reach everything there is to reach: each
\* round adds a name or adds none for good.
LEMMA RoundsClose ==
    ASSUME IsFiniteSet(All), NEW from \in SUBSET All, NEW pinned,
           \A n \in All : Leads(pinned, n) \subseteq All,
           NEW R, Rounds(R, Cardinality(All), from, pinned)
    PROVE  Least(R[Cardinality(All)], from, pinned)
<1> DEFINE c == Cardinality(All)
           Good(i) == /\ from \subseteq R[i] /\ R[i] \subseteq All
                      /\ \A M : from \subseteq M /\ Closed(pinned, M) => R[i] \subseteq M
                      /\ Closed(pinned, R[i]) \/ Cardinality(R[i]) >= i
           S == {i \in Nat : i <= c => Good(i)}
<1>0. c \in Nat
  BY FS_CardinalityType
<1>1. R[0] = from
  BY <1>0 DEF Rounds
<1>2. ASSUME NEW i \in Nat, i + 1 <= c
      PROVE  R[i + 1] = Onward(pinned, R[i])
  BY <1>0, <1>2 DEF Rounds
<1>3. 0 \in S
  <2>1. Cardinality(from) \in Nat
    BY FS_Subset, FS_CardinalityType
  <2>2. QED
    BY <1>1, <2>1
<1>4. ASSUME NEW i \in Nat, i \in S
      PROVE  i + 1 \in S
  <2>1. SUFFICES ASSUME i + 1 <= c PROVE Good(i + 1)
    OBVIOUS
  <2>2. Good(i)
    BY <2>1, <1>0, <1>4
  <2>3. R[i + 1] = Onward(pinned, R[i])
    BY <1>2, <2>1
  <2>4. from \subseteq R[i + 1] /\ R[i] \subseteq R[i + 1] /\ R[i + 1] \subseteq All
    BY <2>2, <2>3 DEF Onward
  <2>5. ASSUME NEW M, from \subseteq M, Closed(pinned, M)
        PROVE  R[i + 1] \subseteq M
    BY <2>2, <2>3, <2>5 DEF Onward, Closed
  <2>6. CASE Closed(pinned, R[i])
    <3>1. R[i + 1] = R[i]
      BY <2>3, <2>6 DEF Onward, Closed
    <3>2. QED
      BY <3>1, <2>4, <2>5, <2>6
  <2>7. CASE ~Closed(pinned, R[i])
    <3>1. R[i + 1] # R[i]
      BY <2>3, <2>7 DEF Onward, Closed
    <3>2. /\ IsFiniteSet(R[i + 1]) /\ Cardinality(R[i + 1]) \in Nat
          /\ Cardinality(R[i]) \in Nat
      BY <2>4, FS_Subset, FS_CardinalityType
    <3>3. Cardinality(R[i]) < Cardinality(R[i + 1])
      BY <2>4, <3>1, <3>2, FS_Subset
    <3>4. Cardinality(R[i + 1]) >= i + 1
      BY <2>2, <2>7, <3>2, <3>3
    <3>5. QED
      BY <3>4, <2>4, <2>5
  <2>8. QED
    BY <2>6, <2>7
<1>5. Good(c)
  <2> HIDE DEF S, Good
  <2>1. \A i \in Nat : i \in S
    BY <1>3, <1>4, SetInduction
  <2>2. c <= c
    BY <1>0
  <2>3. QED
    BY <2>1, <2>2, <1>0 DEF S
<1>6. Closed(pinned, R[c])
  <2>1. CASE Cardinality(R[c]) >= c
    <3>1. R[c] \in SUBSET All
      BY <1>5
    <3>2. /\ IsFiniteSet(R[c]) /\ Cardinality(R[c]) <= c
          /\ c = Cardinality(R[c]) => All = R[c]
      BY <3>1, FS_Subset
    <3>3. Cardinality(R[c]) \in Nat
      BY <3>2, FS_CardinalityType
    <3>4. R[c] = All
      <4> HIDE DEF c
      <4>1. QED
        BY <1>0, <2>1, <3>2, <3>3
    <3>5. QED
      BY <3>4 DEF Closed
  <2>2. QED
    BY <1>5, <2>1
<1>7. QED
  BY <1>5, <1>6 DEF Least

\* What a set of names leads to is the least set that holds them and is closed.
LEMMA ReachedIsLeast ==
    ASSUME IsFiniteSet(All), NEW from \in SUBSET All, NEW pinned,
           \A n \in All : Leads(pinned, n) \subseteq All
    PROVE  Least(Reached(from, pinned), from, pinned)
<1>1. Cardinality(All) \in Nat
  BY FS_CardinalityType
<1>2. PICK R : /\ Rounds(R, Cardinality(All), from, pinned)
               /\ Reached(from, pinned) = R[Cardinality(All)]
  BY <1>1, ReachedByRounds
<1>3. QED
  BY <1>2, RoundsClose

-----------------------------------------------------------------------------
(* What the walk knows, and what a set of names needs of it.               *)

\* What the walk knows of the names it has fetched: an edge per package it may
\* enter, as one of the commits fetched under that name declares them.
WalkInv ==
    /\ \A r \in results : r.name \in All \ Editable /\ r.sha \in Shas \cup {None}
    /\ \A n \in DOMAIN edges : edges[n] \subseteq All
    /\ \A r \in Pins(results) : Safe(r.path) =>
          /\ r.name \in DOMAIN edges
          /\ \E q \in Pins(results) :
                q.name = r.name /\ edges[r.name] = NamesOf(Peers[q.sha])

\* What the editable repos and the workspace declare, and how far a name leads.
NamesInv ==
    /\ DOMAIN declared = Editable
    /\ \A m \in Editable : \A sp \in declared[m] : IsSpec(sp)
    /\ discover \subseteq All /\ consumed \subseteq All

\* Under one name the walk pins one commit, unless the name is in a conflict.
LEMMA OneCommitEach ==
    ASSUME NEW r \in Pins(results), NEW q \in Pins(results), q.name = r.name,
           r.name \notin Conflicts(Pins(results))
    PROVE  q.path = r.path /\ q.sha = r.sha
<1>1. Package(q) = Package(r)
  BY DEF Conflicts, IdentityConflicts
<1>2. q.sha = r.sha
  BY <1>1 DEF Conflicts, VersionConflicts
<1>3. QED
  BY <1>1, <1>2 DEF Package

LEMMA FullIsUnconflicted ==
    FullLock = {r \in Pins(results) :
                  Safe(r.path) /\ r.name \notin Conflicts(Pins(results))}
<1>1. ASSUME NEW r \in Pins(results), r.name \notin Conflicts(Pins(results)), Safe(r.path),
             NEW q \in Pins(results), q.name = r.name
      PROVE  Safe(q.path)
  BY <1>1, OneCommitEach
<1>2. QED
  BY <1>1 DEF FullLock

LEMMA FullNames ==
    ASSUME WalkInv
    PROVE  \A r \in FullLock : r.name \in All \ Editable
BY DEF WalkInv, FullLock, Pins

\* A pinned package leads to what its commit declares.
LEMMA PinnedLeads ==
    ASSUME WalkInv, NEW r \in FullLock
    PROVE  Leads(NamesOf(FullLock), r.name) = NamesOf(Peers[r.sha])
<1>1. /\ r \in Pins(results) /\ Safe(r.path)
      /\ r.name \notin Conflicts(Pins(results))
  BY FullIsUnconflicted
<1>2. r.name \in NamesOf(FullLock)
  BY DEF NamesOf
<1>3. PICK q \in Pins(results) :
        q.name = r.name /\ edges[r.name] = NamesOf(Peers[q.sha])
  BY <1>1 DEF WalkInv
<1>4. q.sha = r.sha
  BY <1>1, <1>3, OneCommitEach
<1>5. r.name \in DOMAIN edges
  BY <1>1 DEF WalkInv
<1>6. Leads(NamesOf(FullLock), r.name) = edges[r.name]
  BY <1>2, <1>5 DEF Leads
<1>7. QED
  BY <1>3, <1>4, <1>6

LEMMA EditableLeads ==
    ASSUME WalkInv, NEW m \in Editable
    PROVE  Leads(NamesOf(FullLock), m) = NamesOf(declared[m])
BY FullNames DEF Leads, NamesOf

LEMMA DeadEnds ==
    ASSUME NEW n, n \notin NamesOf(FullLock), n \notin Editable
    PROVE  Leads(NamesOf(FullLock), n) = {}
BY DEF Leads

LEMMA LeadsIntoAll ==
    ASSUME WalkInv, NamesInv
    PROVE  \A n \in All : Leads(NamesOf(FullLock), n) \subseteq All
<1>1. ASSUME NEW n \in NamesOf(FullLock)
      PROVE  Leads(NamesOf(FullLock), n) \subseteq All
  <2>1. PICK r \in FullLock : r.name = n
    BY DEF NamesOf
  <2>2. Leads(NamesOf(FullLock), n) = NamesOf(Peers[r.sha])
    BY <2>1, PinnedLeads
  <2>3. r.sha \in Shas
    BY FullIsUnconflicted DEF WalkInv, Pins
  <2>4. QED
    BY <2>2, <2>3, PackagesAssumption DEF NamesOf, IsSpec, All
<1>2. ASSUME NEW n \in Editable
      PROVE  Leads(NamesOf(FullLock), n) \subseteq All
  <2>1. Leads(NamesOf(FullLock), n) = NamesOf(declared[n])
    BY EditableLeads
  <2>2. QED
    BY <2>1 DEF NamesInv, NamesOf, IsSpec, All
<1>3. QED
  BY <1>1, <1>2, DeadEnds

\* The closure the reference asks for is the closure the partition walks.
LEMMA SameClosure ==
    ASSUME WalkInv, NEW N \in SUBSET All
    PROVE  Closed(NamesOf(FullLock), N) <=>
             /\ \A r \in FullLock : r.name \in N => NamesOf(Peers[r.sha]) \subseteq N
             /\ \A m \in Editable \cap N : NamesOf(declared[m]) \subseteq N
<1>1. ASSUME Closed(NamesOf(FullLock), N)
      PROVE  /\ \A r \in FullLock : r.name \in N => NamesOf(Peers[r.sha]) \subseteq N
             /\ \A m \in Editable \cap N : NamesOf(declared[m]) \subseteq N
  BY <1>1, PinnedLeads, EditableLeads DEF Closed
<1>2. ASSUME \A r \in FullLock : r.name \in N => NamesOf(Peers[r.sha]) \subseteq N,
             \A m \in Editable \cap N : NamesOf(declared[m]) \subseteq N,
             NEW n \in N
      PROVE  Leads(NamesOf(FullLock), n) \subseteq N
  <2>1. CASE n \in NamesOf(FullLock)
    <3>1. PICK r \in FullLock : r.name = n
      BY <2>1 DEF NamesOf
    <3>2. QED
      BY <3>1, <1>2, PinnedLeads
  <2>2. CASE n \in Editable
    BY <2>2, <1>2, EditableLeads
  <2>3. CASE n \notin NamesOf(FullLock) /\ n \notin Editable
    BY <2>3, DeadEnds
  <2>4. QED
    BY <2>1, <2>2, <2>3
<1>3. QED
  BY <1>1, <1>2 DEF Closed

Part(names) == {r \in FullLock : r.name \in Reached(names, NamesOf(FullLock))}

LEMMA PartsOfPartition ==
    Partition = [l \in Locks |->
        Part(IF l = Workspace THEN consumed ELSE NamesOf(declared[l]))]
BY DEF Partition, Part, Reached, Reach

LEMMA NamesReached ==
    ASSUME WalkInv, NamesInv, NEW names \in SUBSET All
    PROVE  Least(Reached(names, NamesOf(FullLock)), names, NamesOf(FullLock))
BY LeadsIntoAll, ReachedIsLeast, PackagesAssumption DEF All

\* The part of the solve under a set of names is what those names need.
LEMMA PartIsNeeds ==
    ASSUME WalkInv, NamesInv, NEW names \in SUBSET All
    PROVE  Part(names) = Needs(names)
<1> DEFINE pinned == NamesOf(FullLock)
           closed(N) ==
             /\ names \subseteq N
             /\ \A r \in FullLock : r.name \in N => NamesOf(Peers[r.sha]) \subseteq N
             /\ \A m \in Editable \cap N : NamesOf(declared[m]) \subseteq N
           least == {n \in All : \A N \in SUBSET All : closed(N) => n \in N}
           found == Reached(names, pinned)
<1>1. Least(found, names, pinned)
  BY NamesReached
<1>2. \A N \in SUBSET All : closed(N) <=> names \subseteq N /\ Closed(pinned, N)
  BY SameClosure
<1>3. least = found
  <2>1. found \in SUBSET All /\ closed(found)
    BY <1>1, <1>2 DEF Least
  <2>2. \A N \in SUBSET All : closed(N) => found \subseteq N
    BY <1>1, <1>2 DEF Least
  <2> HIDE DEF closed, found
  <2>3. QED
    BY <2>1, <2>2
<1>4. Needs(names) = {r \in FullLock : r.name \in least /\ r.name \notin Editable}
  BY FullIsUnconflicted DEF Needs, All
<1>5. QED
  BY <1>3, <1>4, FullNames DEF Part

-----------------------------------------------------------------------------
(* The walk, step by step.                                                 *)

LEMMA PartitionStays ==
    ASSUME UNCHANGED <<results, edges, consumed, declared>>
    PROVE  Partition' = Partition
BY DEF Partition, FullLock, Leads, Reach

\* A fetch under way is of a source, and one that is over has a commit.
FetchInv ==
    /\ tip \in [Sources -> Shas]
    /\ wanted \in [Processes -> Sources \cup {None}]
    /\ got \in [Processes -> Shas \cup {None}]
    /\ \A p \in Processes :
          /\ stage[p] = "fetch" => wanted[p] \in Sources
          /\ stage[p] \in {"extract", "publish", "done"} => got[p] \in Shas

LEMMA InitFetch == Init => FetchInv
BY DEF Init, CacheInit, FetchInv

LEMMA SameFetch ==
    ASSUME FetchInv, UNCHANGED <<tip, cacheVars>>
    PROVE  FetchInv'
BY DEF FetchInv, cacheVars

LEMMA EnsureKeepsFetch ==
    ASSUME CacheInv, FetchInv, NEW p \in Processes, NEW s \in Sources, Ensure(p, s),
           UNCHANGED tip
    PROVE  FetchInv'
BY DEF FetchInv, CacheInv, Ensure

LEMMA CleanKeepsFetch ==
    ASSUME CacheInv, FetchInv, NEW p \in Processes, Clean(p), UNCHANGED tip
    PROVE  FetchInv'
BY DEF FetchInv, CacheInv, Clean

LEMMA EnsureStepKeepsFetch ==
    ASSUME CacheInv, FetchInv, NEW p \in Processes, EnsureStep(p)
    PROVE  FetchInv'
<1>1. CASE Fetch(p)
  BY <1>1 DEF FetchInv, CacheInv, Fetch
<1>2. CASE Extract(p)
  BY <1>2 DEF FetchInv, CacheInv, Extract
<1>3. CASE Publish(p)
  BY <1>3 DEF FetchInv, CacheInv, Publish
<1>4. QED
  BY <1>1, <1>2, <1>3 DEF EnsureStep

\* What the walk works on comes from a repo.yaml, a peer's repo.yaml or the
\* list of the workspace, and is not editable.
WorkInv ==
    /\ \A sp \in work : IsSpec(sp) /\ sp.name \notin Editable
    /\ pc = "ensure" => spec.sp.name \in All \ Editable
    /\ pc = "idle" => results = {}

LEMMA SourcesAreKnown ==
    ASSUME NEW sp, IsSpec(sp), NEW src \in Sourced(sp)
    PROVE  <<src.remote, src.ref>> \in Sources
BY PackagesAssumption DEF IsSpec, Sourced

LEMMA TakenIsSpec ==
    ASSUME WorkInv, work # {}
    PROVE  LET sp == CHOOSE sp \in work : TRUE
           IN  IsSpec(sp) /\ sp.name \in All \ Editable
BY DEF WorkInv, IsSpec, All

LEMMA TakeKeepsFetch ==
    ASSUME CacheInv, FetchInv, WorkInv, Take
    PROVE  FetchInv'
<1> Self \in Processes
  BY ResolveAssumption
<1> DEFINE sp == CHOOSE sp \in work : TRUE
<1>1. IsSpec(sp)
  BY TakenIsSpec DEF Take
<1>2. UNCHANGED cacheVars \/ \E src \in Sourced(sp) : Ensure(Self, <<src.remote, src.ref>>)
  BY DEF Take
<1>3. UNCHANGED tip
  BY DEF Take
<1> HIDE DEF sp
<1>4. CASE UNCHANGED cacheVars
  BY <1>3, <1>4, SameFetch
<1>5. ASSUME NEW src \in Sourced(sp), Ensure(Self, <<src.remote, src.ref>>)
      PROVE  FetchInv'
  BY <1>1, <1>3, <1>5, SourcesAreKnown, EnsureKeepsFetch
<1>6. QED
  BY <1>2, <1>4, <1>5

LEMMA NextKeepsFetch ==
    ASSUME CacheInv, FetchInv, WorkInv, [Next]_vars
    PROVE  FetchInv'
<1> Self \in Processes
  BY ResolveAssumption
<1>1. CASE Take
  BY <1>1, TakeKeepsFetch
<1>2. CASE Ensured
  BY <1>2, CleanKeepsFetch DEF Ensured
<1>3. CASE LoadRegistry \/ Decide \/ WrittenAll \/ Rebuild \/ Answer
  BY <1>3, SameFetch DEF LoadRegistry, Decide, WrittenAll, Rebuild, Answer
<1>4. CASE \E l \in Locks : Write(l) \/ Commit(l)
  BY <1>4, SameFetch DEF Write, Commit
<1>5. CASE SelfEnsure
  BY <1>5, EnsureStepKeepsFetch DEF SelfEnsure
<1>6. CASE Crash
  BY <1>6, CleanKeepsFetch DEF Crash
<1>7. CASE Start \/ Edit \/ UNCHANGED vars
  BY <1>7, SameFetch DEF Start, Edit, resolveVars, vars
<1>8. CASE \E s \in Sources : Push(s)
  <2> PICK s \in Sources : Push(s)
    BY <1>8
  <2>1. PICK c \in Tips[s] : tip' = [tip EXCEPT ![s] = c]
    BY DEF Push
  <2>2. c \in Shas
    BY CacheAssumption
  <2>3. UNCHANGED cacheVars /\ tip' \in [Sources -> Shas]
    BY <2>1, <2>2 DEF Push, FetchInv
  <2>4. QED
    BY <2>3 DEF FetchInv, cacheVars
<1>9. CASE \E c \in Shas : Evict(c)
  BY <1>9 DEF Evict, FetchInv
<1>10. CASE \E p \in Others : OtherStep(p)
  BY <1>10, EnsureStepKeepsFetch, CleanKeepsFetch DEF OtherStep, Others
<1>11. CASE \E p \in Others, s \in Sources : OtherEnsure(p, s)
  BY <1>11, EnsureKeepsFetch DEF OtherEnsure, Others
<1>12. QED
  BY <1>1, <1>2, <1>3, <1>4, <1>5, <1>6, <1>7, <1>8, <1>9, <1>10, <1>11
     DEF Next, ResolveStep

LEMMA InitNames == Init => NamesInv /\ WorkInv /\ WalkInv
BY DEF Init, NamesInv, WorkInv, WalkInv, Pins

LEMMA ConsumedNames ==
    ASSUME NamesInv
    PROVE  Consumed \subseteq All
BY DEF NamesInv, Consumed

LEMMA SeedsAreSpecs ==
    ASSUME NamesInv
    PROVE  \A sp \in Seeds : IsSpec(sp) /\ sp.name \notin Editable
<1>1. ASSUME NEW sp \in Direct
      PROVE  IsSpec(sp) /\ sp.name \notin Editable
  <2>1. PICK m \in Editable : sp \in declared[m]
    BY DEF Direct, Range, NamesInv
  <2>2. QED
    BY <2>1 DEF Direct, NamesInv
<1>2. ASSUME NEW n \in Consumed
      PROVE  IsSpec(Bare(n)) /\ Bare(n).name \notin Editable
  BY ConsumedNames DEF Consumed, Bare, IsSpec, All
<1>3. QED
  BY <1>1, <1>2 DEF Seeds

LEMMA PeersAreSpecs ==
    ASSUME NEW sha \in Shas
    PROVE  /\ \A sp \in NewSpecs(sha) : IsSpec(sp) /\ sp.name \notin Editable
           /\ NamesOf(Peers[sha]) \subseteq All
BY PackagesAssumption DEF NewSpecs, IsSpec, NamesOf, All

LEMMA SameWalk ==
    ASSUME NamesInv, WorkInv, WalkInv,
           UNCHANGED <<declared, discover, consumed, work, results, edges>>,
           pc' \in {"ensure", "idle"} => UNCHANGED <<pc, spec>>
    PROVE  NamesInv' /\ WorkInv' /\ WalkInv'
BY DEF NamesInv, WorkInv, WalkInv, Pins

LEMMA EnsuredKeepsWalk ==
    ASSUME FetchInv, NamesInv, WorkInv, WalkInv, Ensured
    PROVE  NamesInv' /\ WorkInv' /\ WalkInv'
<1> Self \in Processes
  BY ResolveAssumption
<1> DEFINE sha == IF stage[Self] = "done" THEN got[Self] ELSE None
           new == Resolution(spec.sp, spec.src, sha)
<1>1. sha \in Shas \cup {None}
  BY DEF FetchInv
<1>2. /\ results' = results \cup {new} /\ pc' = "walk"
      /\ UNCHANGED <<declared, discover, consumed>>
  BY DEF Ensured, diskVars
<1>3. new.name \in All \ Editable /\ new.sha = sha /\ new.name = spec.sp.name
      /\ new.path = spec.src.path
  BY DEF WorkInv, Ensured, Resolution
<1>4. NamesInv'
  BY <1>2 DEF NamesInv
<1>5. CASE sha # None /\ Safe(spec.src.path)
  <2>1. /\ edges' = [n \in DOMAIN edges \cup {spec.sp.name} |->
                      IF n = spec.sp.name THEN NamesOf(Peers[sha]) ELSE edges[n]]
        /\ work' = work \cup NewSpecs(sha)
    BY <1>5 DEF Ensured
  <2>2. sha \in Shas
    BY <1>1, <1>5
  <2> HIDE DEF sha, new
  <2>3. WorkInv'
    BY <1>2, <2>1, <2>2, PeersAreSpecs DEF WorkInv
  <2>4. Pins(results') = Pins(results) \cup {new}
    BY <1>2, <1>3, <1>5 DEF Pins
  <2>5. ASSUME NEW r \in Pins(results'), Safe(r.path)
        PROVE  /\ r.name \in DOMAIN edges'
               /\ \E q \in Pins(results') :
                    q.name = r.name /\ edges'[r.name] = NamesOf(Peers[q.sha])
    <3>1. CASE r.name = new.name
      <4>1. edges'[r.name] = NamesOf(Peers[new.sha]) /\ r.name \in DOMAIN edges'
        BY <1>3, <2>1, <3>1
      <4>2. QED
        BY <2>4, <3>1, <4>1
    <3>2. CASE r.name # new.name
      <4>1. r \in Pins(results)
        BY <2>4, <3>2
      <4>2. PICK q \in Pins(results) :
                q.name = r.name /\ edges[r.name] = NamesOf(Peers[q.sha])
        BY <2>5, <4>1 DEF WalkInv
      <4>3. r.name \in DOMAIN edges /\ edges'[r.name] = edges[r.name]
        BY <1>3, <2>1, <2>5, <3>2, <4>1 DEF WalkInv
      <4>4. QED
        BY <2>1, <2>4, <4>2, <4>3
    <3>3. QED
      BY <3>1, <3>2
  <2>6. \A n \in DOMAIN edges' : edges'[n] \subseteq All
    BY <2>1, <2>2, PeersAreSpecs DEF WalkInv
  <2>7. \A r \in results' : r.name \in All \ Editable /\ r.sha \in Shas \cup {None}
    BY <1>1, <1>2, <1>3 DEF WalkInv
  <2>8. WalkInv'
    BY <2>5, <2>6, <2>7 DEF WalkInv
  <2>9. QED
    BY <1>4, <2>3, <2>8
<1>6. CASE ~(sha # None /\ Safe(spec.src.path))
  <2>1. UNCHANGED <<edges, work>>
    BY <1>6 DEF Ensured
  <2>2. \A r \in Pins(results') : Safe(r.path) => r \in Pins(results)
    BY <1>2, <1>3, <1>6 DEF Pins
  <2>3. \A r \in Pins(results) : r \in Pins(results')
    BY <1>2 DEF Pins
  <2> HIDE DEF sha, new
  <2>4. \A r \in results' : r.name \in All \ Editable /\ r.sha \in Shas \cup {None}
    BY <1>1, <1>2, <1>3 DEF WalkInv
  <2>5. WalkInv'
    BY <2>1, <2>2, <2>3, <2>4 DEF WalkInv
  <2>6. WorkInv'
    BY <1>2, <2>1 DEF WorkInv
  <2>7. QED
    BY <1>4, <2>5, <2>6
<1>7. QED
  BY <1>5, <1>6

LEMMA TakeKeepsWalk ==
    ASSUME NamesInv, WorkInv, WalkInv, Take
    PROVE  NamesInv' /\ WorkInv' /\ WalkInv'
<1> DEFINE sp == CHOOSE sp \in work : TRUE
           bare == sp.remote = None \/ sp.ref = None
           sources == IF bare /\ registry = "failed" THEN {} ELSE Sourced(sp)
<1>1. IsSpec(sp) /\ sp.name \in All \ Editable
  BY TakenIsSpec DEF Take
<1>2. /\ work' \subseteq work /\ UNCHANGED <<declared, discover, consumed, edges>>
      /\ pc = "walk"
  BY DEF Take, diskVars
<1>3. NamesInv'
  BY <1>2 DEF NamesInv
<1>4. CASE sources = {}
  <2>1. results' = results \cup {Unresolved(sp)} /\ pc' = pc
    BY <1>4 DEF Take
  <2> HIDE DEF sp
  <2>2. Unresolved(sp).name = sp.name /\ Unresolved(sp).sha = None
    BY DEF Unresolved
  <2>3. Pins(results') = Pins(results)
    BY <2>1, <2>2 DEF Pins
  <2>4. WalkInv'
    BY <1>1, <1>2, <2>1, <2>2, <2>3 DEF WalkInv
  <2>5. WorkInv'
    BY <1>2, <2>1 DEF WorkInv
  <2>6. QED
    BY <1>3, <2>4, <2>5
<1>5. CASE sources # {}
  <2>1. pc' = "ensure" /\ UNCHANGED results /\ \E src \in sources : spec' = [sp |-> sp, src |-> src]
    BY <1>5 DEF Take
  <2> HIDE DEF sp, sources
  <2>2. spec'.sp.name \in All \ Editable
    BY <1>1, <2>1
  <2>3. WorkInv'
    BY <1>2, <2>1, <2>2 DEF WorkInv
  <2>4. WalkInv'
    BY <1>2, <2>1 DEF WalkInv, Pins
  <2>5. QED
    BY <1>3, <2>3, <2>4
<1>6. QED
  BY <1>4, <1>5

LEMMA ForgetKeepsWalk ==
    ASSUME NamesInv, Forget, UNCHANGED <<declared, discover>>, pc' = "idle"
    PROVE  NamesInv' /\ WorkInv' /\ WalkInv'
BY DEF NamesInv, Forget, WorkInv, WalkInv, Pins

LEMMA EditKeepsWalk ==
    ASSUME NamesInv, WorkInv, WalkInv, Edit
    PROVE  NamesInv' /\ WorkInv' /\ WalkInv'
<1>1. UNCHANGED <<consumed, work, results, edges, pc, spec>>
  BY DEF Edit, resolveVars, walkVars
<1>2. NamesInv'
  <2>1. ASSUME NEW m \in Editable, NEW ds \in Declarations[m],
               declared' = [declared EXCEPT ![m] = ds], UNCHANGED discover
        PROVE  NamesInv'
    <3>1. \A sp \in ds : IsSpec(sp)
      BY PackagesAssumption
    <3>2. QED
      BY <1>1, <2>1, <3>1 DEF NamesInv
  <2>2. ASSUME discover' \in Discovers, UNCHANGED declared
        PROVE  NamesInv'
    BY <1>1, <2>2, PackagesAssumption DEF NamesInv, All
  <2>3. QED
    BY <2>1, <2>2 DEF Edit
<1>3. QED
  BY <1>1, <1>2 DEF WorkInv, WalkInv, Pins

LEMMA NextKeepsWalk ==
    ASSUME FetchInv, NamesInv, WorkInv, WalkInv, [Next]_vars
    PROVE  NamesInv' /\ WorkInv' /\ WalkInv'
<1>1. CASE Start
  <2>1. /\ work' = Seeds /\ consumed' = Consumed /\ pc' = "walk" /\ pc = "idle"
        /\ UNCHANGED <<declared, discover, results, edges>>
    BY <1>1 DEF Start, diskVars
  <2>2. QED
    BY <2>1, SeedsAreSpecs, ConsumedNames DEF NamesInv, WorkInv, WalkInv, Pins
<1>2. CASE LoadRegistry \/ WrittenAll \/ Rebuild
  BY <1>2, SameWalk DEF LoadRegistry, WrittenAll, Rebuild, diskVars, walkVars
<1>3. CASE Decide
  BY <1>3, SameWalk DEF Decide, diskVars, walkVars
<1>4. CASE \E l \in Locks : Write(l) \/ Commit(l)
  BY <1>4, SameWalk DEF Write, Commit, walkVars
<1>5. CASE Answer
  BY <1>5, ForgetKeepsWalk DEF Answer, diskVars
<1>6. CASE Crash
  BY <1>6, ForgetKeepsWalk DEF Crash, diskVars
<1>7. CASE SelfEnsure \/ UNCHANGED vars
  BY <1>7, SameWalk DEF SelfEnsure, diskVars, resolveVars, walkVars, vars
<1>8. CASE \/ \E s \in Sources : Push(s)
           \/ \E c \in Shas : Evict(c)
           \/ \E p \in Others : OtherStep(p) \/ \E s \in Sources : OtherEnsure(p, s)
  BY <1>8, SameWalk DEF Push, Evict, OtherStep, OtherEnsure, diskVars, resolveVars,
                        walkVars
<1>9. QED
  BY <1>1, <1>2, <1>3, <1>4, <1>5, <1>6, <1>7, <1>8, TakeKeepsWalk,
     EnsuredKeepsWalk, EditKeepsWalk DEF Next, ResolveStep

-----------------------------------------------------------------------------
(* The cache while a resolve relies on it.                                 *)

\* No lock is None.
NoneIsNoLock == ~ArePins(None)

\* While nobody clears the cache, a commit that is in it stays.
LEMMA CommitsStay ==
    ASSUME CacheInv, FetchInv, [Next]_vars, clean' = TRUE, NEW c \in Shas, Lookup(c)
    PROVE  Lookup(c)'
<1> Self \in Processes
  BY ResolveAssumption
<1>1. ASSUME NEW p \in Processes, EnsureStep(p)
      PROVE  Lookup(c)'
  <2>1. CASE Fetch(p) \/ Extract(p)
    BY <2>1 DEF Fetch, Extract
  <2>2. CASE Publish(p)
    BY <2>2 DEF Publish, CacheInv
  <2>3. QED
    BY <1>1, <2>1, <2>2 DEF EnsureStep
<1>2. ASSUME UNCHANGED snap
      PROVE  Lookup(c)'
  BY <1>2
<1>3. CASE SelfEnsure
  BY <1>1, <1>3 DEF SelfEnsure
<1>4. CASE \E p \in Others : OtherStep(p)
  BY <1>1, <1>2, <1>4 DEF OtherStep, Others, Clean
<1>5. CASE \E c2 \in Shas : Evict(c2)
  BY <1>5 DEF Evict
<1>6. CASE \E p \in Others, s \in Sources : OtherEnsure(p, s)
  BY <1>2, <1>6 DEF OtherEnsure, Ensure
<1>7. CASE Take
  BY <1>2, <1>7 DEF Take, Ensure, cacheVars
<1>8. CASE Ensured \/ Crash
  BY <1>2, <1>8 DEF Ensured, Crash, Clean
<1>9. CASE LoadRegistry \/ Decide \/ WrittenAll \/ Rebuild \/ Answer
  BY <1>2, <1>9 DEF LoadRegistry, Decide, WrittenAll, Rebuild, Answer, cacheVars
<1>10. CASE \E l \in Locks : Write(l) \/ Commit(l)
  BY <1>2, <1>10 DEF Write, Commit, cacheVars
<1>11. CASE Start \/ Edit \/ UNCHANGED vars
  BY <1>2, <1>11 DEF Start, Edit, cacheVars, vars
<1>12. CASE \E s \in Sources : Push(s)
  BY <1>2, <1>12 DEF Push, cacheVars
<1>13. QED
  BY <1>3, <1>4, <1>5, <1>6, <1>7, <1>8, <1>9, <1>10, <1>11, <1>12
     DEF Next, ResolveStep

\* What the engine that resolves has fetched is still in the cache, as long as
\* nobody has cleared it.
FetchedInv ==
    clean =>
        /\ pc = "ensure" /\ stage[Self] = "done" => Lookup(got[Self])
        /\ \A r \in Pins(results) : Lookup(r.sha)

LEMMA InitFetched == Init => FetchedInv
BY DEF Init, FetchedInv, Pins

LEMMA NextKeepsFetched ==
    ASSUME CacheInv, FetchInv, WorkInv, WalkInv, FetchedInv, [Next]_vars
    PROVE  FetchedInv'
<1> Self \in Processes
  BY ResolveAssumption
<1> SUFFICES ASSUME clean' = TRUE
    PROVE  /\ pc' = "ensure" /\ stage'[Self] = "done" => Lookup(got[Self])'
           /\ \A r \in Pins(results') : Lookup(r.sha)'
  BY DEF FetchedInv, Pins
<1>0. \A c \in Shas : Lookup(c) => Lookup(c)'
  BY CommitsStay
<1>1. ASSUME clean, results' \subseteq results
      PROVE  \A r \in Pins(results') : Lookup(r.sha)'
  BY <1>0, <1>1 DEF FetchedInv, Pins, WalkInv
<1>2. ASSUME clean, UNCHANGED <<pc, stage, got>>
      PROVE  pc' = "ensure" /\ stage'[Self] = "done" => Lookup(got[Self])'
  BY <1>0, <1>2 DEF FetchedInv, FetchInv
<1>3. CASE Start
  BY <1>3 DEF Start, WorkInv, Pins
<1>4. CASE LoadRegistry
  BY <1>1, <1>2, <1>4 DEF LoadRegistry, cacheVars
<1>5. CASE Take
  <2> DEFINE sp == CHOOSE sp \in work : TRUE
             bare == sp.remote = None \/ sp.ref = None
             sources == IF bare /\ registry = "failed" THEN {} ELSE Sourced(sp)
  <2>a. clean
    BY <1>5 DEF Take
  <2>0. results' = results \/ results' = results \cup {Unresolved(sp)}
    <3>1. CASE sources = {}
      BY <1>5, <3>1 DEF Take
    <3>2. CASE sources # {}
      BY <1>5, <3>2 DEF Take
    <3>3. QED
      BY <3>1, <3>2
  <2> HIDE DEF sp
  <2>1. clean /\ Pins(results') = Pins(results)
    BY <2>a, <2>0 DEF Pins, Unresolved
  <2>2. \A r \in Pins(results') : Lookup(r.sha)'
    BY <1>0, <2>1 DEF FetchedInv, Pins, WalkInv
  <2>3. pc' = "ensure" => stage'[Self] = "fetch"
    BY <1>5 DEF Take, Ensure, CacheInv
  <2>4. QED
    BY <2>2, <2>3
<1>6. CASE Ensured
  <2> DEFINE sha == IF stage[Self] = "done" THEN got[Self] ELSE None
             new == Resolution(spec.sp, spec.src, sha)
  <2>1. /\ clean /\ pc = "ensure" /\ pc' = "walk" /\ results' = results \cup {new}
        /\ UNCHANGED snap
    BY <1>6 DEF Ensured, Clean
  <2>2. new.sha = sha
    BY DEF Resolution
  <2>3. sha # None => Lookup(sha)
    BY <2>1 DEF FetchedInv
  <2> HIDE DEF new, sha
  <2>4. \A r \in Pins(results') : Lookup(r.sha)
    BY <2>1, <2>2, <2>3 DEF Pins, FetchedInv
  <2>5. QED
    BY <2>1, <2>4
<1>7. CASE Decide
  BY <1>1, <1>7 DEF Decide, walkVars, cacheVars
<1>8. CASE \E l \in Locks : Write(l) \/ Commit(l)
  BY <1>1, <1>8 DEF Write, Commit, walkVars, cacheVars
<1>9. CASE WrittenAll \/ Rebuild
  BY <1>1, <1>9 DEF WrittenAll, Rebuild, walkVars, cacheVars
<1>10. CASE Answer \/ Crash
  BY <1>10 DEF Answer, Crash, Forget, Pins
<1>11. CASE SelfEnsure
  <2>1. clean /\ UNCHANGED <<pc, results>> /\ EnsureStep(Self)
    BY <1>11 DEF SelfEnsure, resolveVars, walkVars
  <2>2. stage'[Self] = "done" => Lookup(got[Self])'
    <3>1. CASE Fetch(Self)
      BY <3>1 DEF Fetch, CacheInv, FetchInv
    <3>2. CASE Extract(Self)
      BY <3>2 DEF Extract, CacheInv
    <3>3. CASE Publish(Self)
      BY <3>3 DEF Publish, CacheInv, FetchInv
    <3>4. QED
      BY <2>1, <3>1, <3>2, <3>3 DEF EnsureStep
  <2>3. QED
    BY <1>1, <2>1, <2>2
<1>12. CASE Edit \/ UNCHANGED vars
  BY <1>1, <1>2, <1>12 DEF Edit, vars, resolveVars, walkVars, cacheVars
<1>13. CASE \E s \in Sources : Push(s)
  BY <1>1, <1>2, <1>13 DEF Push, resolveVars, walkVars, cacheVars
<1>14. CASE \E c \in Shas : Evict(c)
  BY <1>14 DEF Evict
<1>15. ASSUME NEW p \in Others, OtherStep(p) \/ \E s \in Sources : OtherEnsure(p, s)
       PROVE  FetchedInv'
  <2>1. /\ clean /\ UNCHANGED <<pc, results>>
        /\ stage'[Self] = stage[Self] /\ got'[Self] = got[Self]
    BY <1>15 DEF OtherStep, OtherEnsure, EnsureStep, Fetch, Extract, Publish, Ensure,
                 Clean, Others, resolveVars, walkVars, CacheInv, FetchInv
  <2>2. stage[Self] = "done" => got[Self] \in Shas
    BY DEF FetchInv
  <2>3. QED
    BY <1>0, <1>1, <2>1, <2>2 DEF FetchedInv
<1>16. QED
  BY <1>3, <1>4, <1>5, <1>6, <1>7, <1>8, <1>9, <1>10, <1>11, <1>12, <1>13, <1>14,
     <1>15 DEF Next, ResolveStep, FetchedInv

-----------------------------------------------------------------------------
(* The locks, from the plan to the answer.                                 *)

\* With no lock on disk nothing is mounted.
MountInv ==
    /\ DOMAIN lock = Locks
    /\ (\A l \in Locks : lock[l] = None) => mounted = {}

LEMMA InitMount == Init => MountInv
BY DEF Init, MountInv

LEMMA NothingToReopen ==
    ASSUME MountInv, \A l \in Locks : lock[l] = None
    PROVE  Reopened = {}
BY DEF Reopened, Located, LockedPins, Range, MountInv

LEMMA NextKeepsMount ==
    ASSUME NoneIsNoLock, PinInv, WriteInv, MountInv, [Next]_vars
    PROVE  MountInv'
<1>1. ASSUME UNCHANGED lock, mounted' \in {mounted, Reopened}
      PROVE  MountInv'
  BY <1>1, NothingToReopen DEF MountInv
<1>2. ASSUME NEW l \in Locks, Write(l)
      PROVE  MountInv'
  <2>1. UNCHANGED mounted
    BY <1>2 DEF Write
  <2>2. CASE UNCHANGED lock
    BY <1>1, <2>1, <2>2
  <2>3. CASE lock' = [lock EXCEPT ![l] = plan[l]]
    <3>1. plan[l] # None
      BY <1>2 DEF Write, PinInv, NoneIsNoLock
    <3>2. QED
      BY <2>3, <3>1 DEF MountInv
  <2>4. QED
    BY <1>2, <2>2, <2>3 DEF Write
<1>3. CASE Start \/ LoadRegistry \/ Take \/ Ensured \/ Decide \/ WrittenAll
           \/ Rebuild \/ Answer
  BY <1>1, <1>3 DEF Start, LoadRegistry, Take, Ensured, Decide, WrittenAll, Rebuild,
                    Answer, diskVars
<1>4. CASE SelfEnsure \/ Edit \/ Crash \/ UNCHANGED vars
  BY <1>1, <1>4 DEF SelfEnsure, Edit, Crash, diskVars, vars
<1>5. CASE \/ \E l \in Locks : Commit(l)
           \/ \E s \in Sources : Push(s)
           \/ \E c \in Shas : Evict(c)
           \/ \E p \in Others : OtherStep(p) \/ \E s \in Sources : OtherEnsure(p, s)
  BY <1>1, <1>5 DEF Commit, Push, Evict, OtherStep, OtherEnsure, diskVars
<1>6. QED
  BY <1>2, <1>3, <1>4, <1>5 DEF Next, ResolveStep

\* From the plan to the answer of a resolve in which nothing failed: the plan
\* is the partition of the solve; what it leaves out is empty and was never on
\* disk; what is written is on disk; and at the answer it is mounted.
Settling == pc \in {"write", "commit", "answer"}

PlanInv ==
    clean =>
        /\ pc # "idle" => consumed = Consumed
        /\ Settling =>
              /\ DOMAIN plan \subseteq Locks
              /\ \A l \in Locks :
                    IF l \in DOMAIN plan THEN plan[l] = Partition[l]
                    ELSE Partition[l] = {} /\ lock[l] = None
              /\ \A l \in written : lock[l] = plan[l]
        /\ pc \in {"commit", "answer"} => written = DOMAIN plan
        /\ pc = "answer" => mounted = UNION {Partition[l] : l \in Locks}

LEMMA PartitionIsFull ==
    /\ DOMAIN Partition = Locks
    /\ \A l \in Locks : Partition[l] \subseteq FullLock
BY PartsOfPartition DEF Part

LEMMA FewerConflicts ==
    ASSUME NEW P, NEW Q, P \subseteq Q
    PROVE  Conflicts(P) \subseteq Conflicts(Q)
BY DEF Conflicts, VersionConflicts, IdentityConflicts

\* Out of locks that one solve has left, with the cache as it filled it, every
\* pin is located.
LEMMA SolvedIsLocated ==
    ASSUME WalkInv, FetchedInv, clean, NEW locks, LockedPins(locks) \subseteq FullLock
    PROVE  Located(locks, Cached) = LockedPins(locks)
<1> DEFINE pins == LockedPins(locks)
<1>1. ASSUME NEW r \in pins
      PROVE  r.name \notin Conflicts(pins) \cup Editable /\ Safe(r.path) /\ r.sha \in Cached
  <2>1. r \in Pins(results) /\ Safe(r.path) /\ r.name \notin Conflicts(Pins(results))
    BY FullIsUnconflicted
  <2>2. pins \subseteq Pins(results)
    BY DEF FullLock
  <2> HIDE DEF pins
  <2>3. r.name \notin Conflicts(pins)
    BY <2>1, <2>2, FewerConflicts
  <2>4. r.name \notin Editable /\ r.sha \in Shas
    BY <2>1 DEF WalkInv, Pins
  <2>5. QED
    BY <2>1, <2>3, <2>4 DEF FetchedInv, Cached
<1>2. QED
  BY <1>1 DEF Located

\* What the locks hold when all that was planned is on disk.
LEMMA LocksHoldPartition ==
    ASSUME NoneIsNoLock, PinInv, PlanInv, clean, Settling, written = DOMAIN plan,
           NEW l \in Locks
    PROVE  (IF lock[l] = None THEN {} ELSE lock[l]) = Partition[l]
<1>1. CASE l \in DOMAIN plan
  <2>1. lock[l] = plan[l] /\ plan[l] = Partition[l] /\ ArePins(plan[l])
    BY <1>1 DEF PlanInv, PinInv
  <2>2. QED
    BY <2>1 DEF NoneIsNoLock
<1>2. CASE l \notin DOMAIN plan
  BY <1>2 DEF PlanInv
<1>3. QED
  BY <1>1, <1>2

LEMMA AllLocksHold ==
    ASSUME NoneIsNoLock, PinInv, PlanInv, MountInv, clean, Settling,
           written = DOMAIN plan
    PROVE  LockedPins(Range(lock)) = UNION {Partition[l] : l \in Locks}
<1>1. \A l \in Locks : (IF lock[l] = None THEN {} ELSE lock[l]) = Partition[l]
  BY LocksHoldPartition
<1>2. Range(lock) = {lock[l] : l \in Locks}
  BY DEF Range, MountInv
<1> HIDE DEF Partition
<1>3. LockedPins(Range(lock)) = UNION {IF lock[l] = None THEN {} ELSE lock[l] : l \in Locks}
  BY <1>2 DEF LockedPins
<1>4. QED
  BY <1>1, <1>3

LEMMA InitPlan == Init => PlanInv
BY DEF Init, PlanInv, Settling

LEMMA SamePlan ==
    ASSUME PlanInv, clean' => clean,
           UNCHANGED <<pc, consumed, declared, discover, results, edges, plan, written,
                       lock, mounted>>
    PROVE  PlanInv'
<1>1. Partition' = Partition
  BY PartitionStays
<1>2. Consumed' = Consumed
  BY DEF Consumed, Direct
<1> HIDE DEF Partition, Consumed
<1>3. QED
  BY <1>1, <1>2 DEF PlanInv, Settling

LEMMA WalkKeepsPlan ==
    ASSUME PlanInv, clean' => clean, pc' \in {"walk", "ensure"}, pc # "idle",
           UNCHANGED <<consumed, declared, discover>>
    PROVE  PlanInv'
<1>1. Consumed' = Consumed
  BY DEF Consumed, Direct
<1> HIDE DEF Consumed
<1>2. QED
  BY <1>1 DEF PlanInv, Settling

LEMMA DecideKeepsPlan ==
    ASSUME WriteInv, PlanInv, Decide
    PROVE  PlanInv'
<1>1. UNCHANGED <<consumed, declared, discover, results, edges, written, lock, mounted>>
  BY DEF Decide, walkVars, diskVars
<1>2. Partition' = Partition
  BY <1>1, PartitionStays
<1>3. Consumed' = Consumed
  BY <1>1 DEF Consumed, Direct
<1>4. CASE AllFetched
  <2>1. plan' = Plan /\ pc' = "write" /\ pc = "walk" /\ UNCHANGED clean
    BY <1>4 DEF Decide
  <2>2. written = {}
    BY <2>1 DEF WriteInv
  <2>3. /\ DOMAIN Plan = ToWrite(Partition)
        /\ \A l \in DOMAIN Plan : Plan[l] = Partition[l]
    BY DEF Plan, Restrict
  <2>4. /\ ToWrite(Partition) \subseteq Locks
        /\ \A l \in Locks : l \notin ToWrite(Partition) =>
              Partition[l] = {} /\ lock[l] = None
    BY DEF ToWrite
  <2> HIDE DEF Partition, Consumed, Plan, ToWrite
  <2>5. QED
    BY <1>1, <1>2, <1>3, <2>1, <2>2, <2>3, <2>4 DEF PlanInv, Settling
<1>5. CASE ~AllFetched
  <2>1. clean' = FALSE
    BY <1>5 DEF Decide
  <2>2. QED
    BY <2>1 DEF PlanInv
<1>6. QED
  BY <1>4, <1>5

LEMMA WriteKeepsPlan ==
    ASSUME WriteInv, PlanInv, MountInv, NEW l \in Locks, Write(l)
    PROVE  PlanInv'
<1>1. UNCHANGED <<consumed, declared, discover, results, edges, plan, mounted>>
  BY DEF Write, walkVars
<1>2. Partition' = Partition
  BY <1>1, PartitionStays
<1>3. Consumed' = Consumed
  BY <1>1 DEF Consumed, Direct
<1>4. CASE clean' = FALSE
  BY <1>4 DEF PlanInv
<1>5. CASE clean' # FALSE
  <2>1. /\ lock' = [lock EXCEPT ![l] = plan[l]] /\ written' = written \cup {l}
        /\ UNCHANGED <<pc, clean>> /\ pc = "write" /\ l \in DOMAIN plan
    BY <1>5 DEF Write
  <2> HIDE DEF Partition, Consumed
  <2>2. QED
    BY <1>1, <1>2, <1>3, <2>1 DEF PlanInv, Settling, MountInv
<1>6. QED
  BY <1>4, <1>5

LEMMA RebuildKeepsPlan ==
    ASSUME NoneIsNoLock, WalkInv, FetchedInv, PinInv, WriteInv, MountInv, PlanInv, Rebuild
    PROVE  PlanInv'
<1>1. /\ UNCHANGED <<consumed, declared, discover, results, edges, plan, written, lock,
                     clean>>
      /\ pc = "commit" /\ pc' = "answer"
      /\ mounted' = IF written # {} THEN Reopened ELSE mounted
  BY DEF Rebuild, walkVars, diskVars, writeVars
<1>2. Partition' = Partition
  BY <1>1, PartitionStays
<1>3. Consumed' = Consumed
  BY <1>1 DEF Consumed, Direct
<1>4. ASSUME clean
      PROVE  mounted' = UNION {Partition[l] : l \in Locks}
  <2>1. written = DOMAIN plan
    BY <1>1 DEF WriteInv
  <2>2. LockedPins(Range(lock)) = UNION {Partition[l] : l \in Locks}
    BY <1>1, <1>4, <2>1, AllLocksHold DEF Settling
  <2>3. LockedPins(Range(lock)) \subseteq FullLock
    BY <2>2, PartitionIsFull
  <2>4. Reopened = UNION {Partition[l] : l \in Locks}
    BY <1>4, <2>2, <2>3, SolvedIsLocated DEF Reopened
  <2>5. CASE written = {}
    <3>1. \A l \in Locks : Partition[l] = {} /\ lock[l] = None
      BY <1>1, <1>4, <2>1, <2>5 DEF PlanInv, Settling
    <3>2. mounted' = {}
      BY <1>1, <2>5, <3>1 DEF MountInv
    <3> HIDE DEF Partition
    <3>3. QED
      BY <3>1, <3>2
  <2>6. CASE written # {}
    BY <1>1, <2>4, <2>6
  <2>7. QED
    BY <2>5, <2>6
<1> HIDE DEF Partition, Consumed
<1>5. QED
  BY <1>1, <1>2, <1>3, <1>4 DEF PlanInv, Settling, WriteInv

LEMMA NextKeepsPlan ==
    ASSUME NoneIsNoLock, WalkInv, FetchedInv, PinInv, WriteInv, MountInv, PlanInv,
           [Next]_vars
    PROVE  PlanInv'
<1>1. CASE Start
  <2>1. /\ consumed' = Consumed /\ pc' = "walk" /\ UNCHANGED <<declared, discover>>
    BY <1>1 DEF Start, diskVars
  <2>2. Consumed' = Consumed
    BY <2>1 DEF Consumed, Direct
  <2> HIDE DEF Consumed
  <2>3. QED
    BY <2>1, <2>2 DEF PlanInv, Settling
<1>2. CASE LoadRegistry
  BY <1>2, SamePlan DEF LoadRegistry, diskVars, writeVars
<1>3. CASE Take
  <2>1. /\ UNCHANGED <<consumed, declared, discover, clean>> /\ pc = "walk"
    BY <1>3 DEF Take, diskVars
  <2>2. pc' \in {"walk", "ensure"}
    BY <1>3 DEF Take
  <2>3. QED
    BY <2>1, <2>2, WalkKeepsPlan
<1>4. CASE Ensured
  BY <1>4, WalkKeepsPlan DEF Ensured, diskVars
<1>5. CASE WrittenAll
  <2>1. /\ UNCHANGED <<consumed, declared, discover, results, edges, plan, written, lock,
                       mounted, clean>>
        /\ pc = "write" /\ pc' = "commit" /\ DOMAIN plan \subseteq written
    BY <1>5 DEF WrittenAll, diskVars, walkVars
  <2>2. Partition' = Partition
    BY <2>1, PartitionStays
  <2>3. Consumed' = Consumed
    BY <2>1 DEF Consumed, Direct
  <2> HIDE DEF Partition, Consumed
  <2>4. QED
    BY <2>1, <2>2, <2>3 DEF PlanInv, Settling, WriteInv
<1>6. ASSUME NEW l \in Locks, Commit(l)
      PROVE  PlanInv'
  BY <1>6, SamePlan DEF Commit, walkVars
<1>7. CASE Answer \/ Crash
  BY <1>7 DEF Answer, Crash, PlanInv, Settling
<1>8. CASE Edit
  BY <1>8 DEF Edit, PlanInv
<1>9. CASE SelfEnsure \/ UNCHANGED vars
  BY <1>9, SamePlan DEF SelfEnsure, diskVars, resolveVars, walkVars, writeVars, vars
<1>10. CASE \/ \E s \in Sources : Push(s)
            \/ \E c \in Shas : Evict(c)
            \/ \E p \in Others : OtherStep(p) \/ \E s \in Sources : OtherEnsure(p, s)
  BY <1>10, SamePlan DEF Push, Evict, OtherStep, OtherEnsure, diskVars, resolveVars,
                         walkVars, writeVars
<1>11. QED
  BY <1>1, <1>2, <1>3, <1>4, <1>5, <1>6, <1>7, <1>8, <1>9, <1>10, DecideKeepsPlan,
     WriteKeepsPlan, RebuildKeepsPlan DEF Next, ResolveStep

-----------------------------------------------------------------------------
(* Lock files and mounted packages after a solve.                          *)

SolveInv ==
    /\ CacheInv /\ FetchInv /\ WriteInv /\ PinInv
    /\ NamesInv /\ WorkInv /\ WalkInv
    /\ FetchedInv /\ MountInv /\ PlanInv

LEMMA SolveHolds == ASSUME NoneIsNoLock PROVE Spec => []SolveInv
<1>1. Init => SolveInv
  BY InitCache, InitFetch, InitWrites, InitPins, InitNames, InitFetched, InitMount,
     InitPlan DEF SolveInv
<1>2. SolveInv /\ [Next]_vars => SolveInv'
  BY NextKeepsCache, NextKeepsFetch, NextKeepsWrites, NextKeepsPins, NextKeepsWalk,
     NextKeepsFetched, NextKeepsMount, NextKeepsPlan DEF SolveInv
<1>3. QED
  BY <1>1, <1>2, PTL DEF Spec

LEMMA DeclaredNames ==
    ASSUME NamesInv
    PROVE  \A m \in Editable : NamesOf(declared[m]) \subseteq All
BY DEF NamesInv, NamesOf, IsSpec, All

\* The locks of a solve that went well hold what is needed, and all of it is in
\* the cache.
LEMMA SolvedLocks ==
    ASSUME NoneIsNoLock, SolveInv, Succeeded
    PROVE  LocksSelfSufficient
<1> SUFFICES ASSUME NEW m \in Editable
    PROVE  /\ LockedPins({lock[m]}) = Needs(NamesOf(declared[m]))
           /\ Located({lock[m]}, Cached) = Needs(NamesOf(declared[m]))
  BY DEF LocksSelfSufficient
<1>1. m \in Locks /\ m # Workspace /\ clean /\ Settling /\ written = DOMAIN plan
  BY ResolveAssumption DEF Locks, Succeeded, Settling, SolveInv, PlanInv
<1>2. (IF lock[m] = None THEN {} ELSE lock[m]) = Partition[m]
  BY <1>1, LocksHoldPartition DEF SolveInv
<1>3. Partition[m] = Part(NamesOf(declared[m]))
  BY <1>1, PartsOfPartition
<1>4. Part(NamesOf(declared[m])) = Needs(NamesOf(declared[m]))
  BY PartIsNeeds, DeclaredNames DEF SolveInv
<1>5. Partition[m] \subseteq FullLock
  BY <1>1, PartitionIsFull
<1> HIDE DEF Partition
<1>6. LockedPins({lock[m]}) = Partition[m]
  BY <1>2 DEF LockedPins
<1>7. Located({lock[m]}, Cached) = LockedPins({lock[m]})
  BY <1>1, <1>5, <1>6, SolvedIsLocated DEF SolveInv
<1>8. QED
  BY <1>3, <1>4, <1>6, <1>7

LEMMA AllDeclared ==
    ASSUME NamesInv
    PROVE  LET X == discover \cup UNION {NamesOf(ds) : ds \in Range(declared)}
           IN  /\ X \in SUBSET All /\ discover \subseteq X
               /\ \A m \in Editable : NamesOf(declared[m]) \subseteq X
               /\ \A n \in X : \/ n \in discover
                               \/ \E m \in Editable : n \in NamesOf(declared[m])
<1> DEFINE X == discover \cup UNION {NamesOf(ds) : ds \in Range(declared)}
<1>1. Range(declared) = {declared[m] : m \in Editable}
  BY DEF Range, NamesInv
<1>2. /\ discover \subseteq X
      /\ \A m \in Editable : NamesOf(declared[m]) \subseteq X
      /\ \A n \in X : n \in discover \/ \E m \in Editable : n \in NamesOf(declared[m])
  BY <1>1
<1>3. X \subseteq All
  <2> HIDE DEF X
  <2>1. QED
    BY <1>2, DeclaredNames DEF NamesInv
<1>4. QED
  BY <1>2, <1>3

\* What all declare and the workspace discovers leads to what the locks of the
\* editable repos and that of the workspace hold between them.
LEMMA PartsTogether ==
    ASSUME WalkInv, NamesInv, consumed = Consumed
    PROVE  UNION {Partition[l] : l \in Locks} =
             Part(discover \cup UNION {NamesOf(ds) : ds \in Range(declared)})
<1> DEFINE X == discover \cup UNION {NamesOf(ds) : ds \in Range(declared)}
           pinned == NamesOf(FullLock)
           own(l) == IF l = Workspace THEN consumed ELSE NamesOf(declared[l])
           U == UNION {Reached(own(l), pinned) : l \in Locks}
           W == U \cup Editable
<1>1. \A l \in Locks : own(l) \subseteq All
  BY DeclaredNames DEF NamesInv, Locks
<1>2. \A m \in Editable : m \in Locks /\ own(m) = NamesOf(declared[m])
  BY ResolveAssumption DEF Locks
<1>3. Workspace \in Locks /\ own(Workspace) = consumed
  BY DEF Locks
<1>4. \A l \in Locks : Partition[l] = Part(own(l))
  BY PartsOfPartition
<1>5. /\ discover \subseteq X
      /\ \A m \in Editable : NamesOf(declared[m]) \subseteq X
      /\ \A n \in X : n \in discover \/ \E m \in Editable : n \in NamesOf(declared[m])
  BY AllDeclared
<1>6. X \in SUBSET All
  BY AllDeclared
<1> HIDE DEF X, own, Partition
<1>7. \A l \in Locks : Least(Reached(own(l), pinned), own(l), pinned)
  BY <1>1, NamesReached
<1>8. Least(Reached(X, pinned), X, pinned)
  BY <1>6, NamesReached
<1>9. U \subseteq Reached(X, pinned)
  <2>1. ASSUME NEW l \in Locks
        PROVE  Reached(own(l), pinned) \subseteq Reached(X, pinned)
    <3>1. own(l) \subseteq X
      <4>1. CASE l = Workspace
        <5>1. own(l) \subseteq discover
          BY <1>3, <4>1 DEF Consumed
        <5>2. QED
          BY <1>5, <5>1
      <4>2. CASE l \in Editable
        BY <1>2, <1>5, <4>2
      <4>3. QED
        BY <4>1, <4>2 DEF Locks
    <3>2. X \subseteq Reached(X, pinned) /\ Closed(pinned, Reached(X, pinned))
      BY <1>8 DEF Least
    <3>3. QED
      BY <1>7, <3>1, <3>2 DEF Least
  <2>2. QED
    BY <2>1
<1>10. \A l \in Locks : own(l) \subseteq U
  BY <1>7 DEF Least
<1>11. X \subseteq W
  <2>1. \A m \in Editable : NamesOf(declared[m]) \subseteq U
    BY <1>2, <1>10
  <2>2. NamesOf(Direct) \subseteq U
    <3>1. ASSUME NEW sp \in Direct
          PROVE  sp.name \in U
      <4>1. PICK m \in Editable : sp \in declared[m]
        BY DEF Direct, Range, NamesInv
      <4>2. sp.name \in NamesOf(declared[m])
        BY <4>1 DEF NamesOf
      <4>3. QED
        BY <2>1, <4>2
    <3>2. QED
      BY <3>1 DEF NamesOf
  <2>3. discover \subseteq W
    <3>1. consumed \subseteq U
      BY <1>3, <1>10
    <3>2. discover \subseteq Consumed \cup NamesOf(Direct) \cup Editable
      BY DEF Consumed
    <3>3. QED
      BY <2>2, <3>1, <3>2
  <2>4. QED
    BY <1>5, <2>1, <2>3
<1>12. Closed(pinned, W)
  <2>1. ASSUME NEW n \in U
        PROVE  Leads(pinned, n) \subseteq U
    <3>1. PICK l \in Locks : n \in Reached(own(l), pinned)
      BY <2>1
    <3>2. Leads(pinned, n) \subseteq Reached(own(l), pinned)
      BY <1>7, <3>1 DEF Least, Closed
    <3>3. QED
      BY <3>2
  <2>2. ASSUME NEW m \in Editable
        PROVE  Leads(pinned, m) \subseteq U
    <3>1. Leads(pinned, m) = NamesOf(declared[m])
      BY EditableLeads
    <3>2. QED
      BY <1>2, <1>10, <3>1
  <2> HIDE DEF U, pinned
  <2>3. QED
    BY <2>1, <2>2 DEF Closed
<1>13. Reached(X, pinned) \subseteq W
  BY <1>8, <1>11, <1>12 DEF Least
<1>14. \A r \in FullLock : r.name \in U <=> r.name \in Reached(X, pinned)
  BY <1>9, <1>13, FullNames
<1>15. UNION {Partition[l] : l \in Locks} = {r \in FullLock : r.name \in U}
  <2>1. \A l \in Locks : Partition[l] = {r \in FullLock : r.name \in Reached(own(l), pinned)}
    BY <1>4 DEF Part
  <2>2. QED
    BY <2>1
<1>16. Part(X) = {r \in FullLock : r.name \in Reached(X, pinned)}
  BY DEF Part
<1> HIDE DEF U, pinned
<1>17. QED
  BY <1>14, <1>15, <1>16 DEF X

LEMMA SolvedIsMounted ==
    ASSUME NoneIsNoLock, SolveInv, Succeeded
    PROVE  ResolvedIsMounted
<1> DEFINE X == discover \cup UNION {NamesOf(ds) : ds \in Range(declared)}
           whole == UNION {Partition[l] : l \in Locks}
<1>1. /\ clean /\ Settling /\ written = DOMAIN plan /\ consumed = Consumed
      /\ mounted = whole
  BY DEF Succeeded, Settling, SolveInv, PlanInv
<1>2. LockedPins(Range(lock)) = whole
  BY <1>1, AllLocksHold DEF SolveInv
<1>3. whole \subseteq FullLock
  BY PartitionIsFull
<1>4. Reopened = whole
  BY <1>1, <1>2, <1>3, SolvedIsLocated DEF Reopened, SolveInv
<1>5. whole = Part(X)
  BY <1>1, PartsTogether DEF SolveInv
<1>6. X \in SUBSET All
  BY AllDeclared DEF SolveInv
<1> HIDE DEF X, whole
<1>7. Part(X) = Needs(X)
  BY <1>6, PartIsNeeds DEF SolveInv
<1>8. QED
  BY <1>1, <1>4, <1>5, <1>7 DEF ResolvedIsMounted, X

\* A resolve in which nothing failed leaves each editable repo a lock that it
\* can be opened with alone: all its dependencies need, through packages that
\* may depend on each other in a circle and through the editable repos behind
\* them, nothing else, and all of it in the cache (partition_repo_locks).
THEOREM LocksAreSelfSufficient == ASSUME NoneIsNoLock PROVE Spec => []LocksSelfSufficient
<1>1. SolveInv => LocksSelfSufficient
  BY SolvedLocks DEF LocksSelfSufficient
<1>2. QED
  BY <1>1, SolveHolds, PTL

\* The rebuild after such a resolve mounts what the solve found, which is what
\* an offline reopening would mount (locate_locked_dependencies).
THEOREM TheSolveIsMounted == ASSUME NoneIsNoLock PROVE Spec => []ResolvedIsMounted
<1>1. SolveInv => ResolvedIsMounted
  BY SolvedIsMounted DEF ResolvedIsMounted
<1>2. QED
  BY <1>1, SolveHolds, PTL
=============================================================================
