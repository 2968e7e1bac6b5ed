---------------------------- MODULE EngineProofs ----------------------------
(* Theorems about module Engine, for every value of its constants.         *)
EXTENDS Engine, TLAPS

-----------------------------------------------------------------------------
(* Type correctness.                                                       *)

\* What the build and the fingerprint record of a file is an entry.
LEMMA EntriesOfStates ==
    ASSUME NEW f \in Files, NEW s \in DiskStates
    PROVE  FpOf(f, s) \in Entries /\ EntryOf(f, s) \in Entries
BY ConstantsAssumption
   DEF FpOf, EntryOf, Entries, DiskStates, Absent, Unreadable, Oversize,
       Unread, SizeHash, NoEntry

LEMMA NothingIsCatalog == Nothing \in Catalogs
BY DEF Nothing, Catalogs, Entries

LEMMA TypeInit == Init => TypeOK
<1> SUFFICES ASSUME Init PROVE TypeOK
    OBVIOUS
<1> USE ConstantsAssumption, NothingIsCatalog DEF Init
<1>1. full \in [Threads -> BOOLEAN]
  BY Zenon
<1>2. seen \in [Files -> SUBSET DiskStates]
  OBVIOUS
<1>3. mutation \in [file : Paths, since : SUBSET DiskStates]
  BY DEF NoMutation, Paths
<1>4. stage \in [Threads -> Stages]
  BY DEF Stages
<1> QED
  BY <1>1, <1>2, <1>3, <1>4 DEF TypeOK, NoThread

LEMMA TypeEnvironment == TypeOK /\ Environment => TypeOK'
<1> SUFFICES ASSUME TypeOK, Environment PROVE TypeOK'
    OBVIOUS
<1> USE ConstantsAssumption
<1>1. ASSUME NEW f \in Files, ExternalWrite(f) PROVE TypeOK'
  BY <1>1 DEF TypeOK, ExternalWrite, ChangeDisk, Witness, MayBecome, heldVars, jobVars,
          watchVars, Paths
<1>2. ASSUME NEW f \in Files, Touch(f) PROVE TypeOK'
  BY <1>2 DEF TypeOK, Touch, heldVars, jobVars, watchVars, Paths
<1>3. ASSUME NEW d \in Dirs, RemoveDirectory(d) PROVE TypeOK'
  BY <1>3 DEF TypeOK, RemoveDirectory, ChangeDisk, Witness, MayBecome, heldVars, jobVars,
          watchVars, Paths, DiskStates
<1>4. CASE EditIgnores
  BY <1>4 DEF TypeOK, EditIgnores, ChangeDisk, heldVars, jobVars, watchVars, Paths
<1>5. CASE Overflow
  BY <1>5 DEF TypeOK, Overflow, heldVars, jobVars, watchVars
<1>6. CASE FlagRescan
  BY <1>6 DEF TypeOK, FlagRescan, heldVars, jobVars, watchVars
<1>7. ASSUME NEW e \in inbox, LoseEvent(e) PROVE TypeOK'
  BY <1>7 DEF TypeOK, LoseEvent, heldVars, jobVars, watchVars
<1> QED
  BY <1>1, <1>2, <1>3, <1>4, <1>5, <1>6, <1>7 DEF Environment

\* A dirty set stays a set of paths through the filter and the expansion.
LEMMA DirtyPaths ==
    ASSUME TypeOK, NEW ps \in SUBSET Paths
    PROVE  ExpandRemovedDirectories(ScopeFilterDirty(ps)) \in SUBSET Paths
BY ConstantsAssumption DEF ExpandRemovedDirectories, ScopeFilterDirty, Children, Paths

LEMMA TypeWatcher ==
    TypeOK /\ ((\E e \in inbox : Receive(e)) \/ Quiesce \/ IdleReconcile) => TypeOK'
<1> SUFFICES ASSUME TypeOK,
                    (\E e \in inbox : Receive(e)) \/ Quiesce \/ IdleReconcile
             PROVE  TypeOK'
    OBVIOUS
<1> USE ConstantsAssumption
<1>1. ASSUME NEW e \in inbox, Receive(e) PROVE TypeOK'
  BY <1>1 DEF TypeOK, Receive, heldVars, jobVars, watchVars, Stages
<1>2. CASE Quiesce
  BY <1>2 DEF TypeOK, Quiesce, diskVars, heldVars, Stages
<1>3. CASE IdleReconcile
  BY <1>3 DEF TypeOK, IdleReconcile, diskVars, heldVars, Stages
<1> QED
  BY <1>1, <1>2, <1>3

LEMMA TypeRequests == TypeOK /\ (NewRequest \/ Respond) => TypeOK'
<1> SUFFICES ASSUME TypeOK, NewRequest \/ Respond PROVE TypeOK'
    OBVIOUS
<1> USE ConstantsAssumption
<1>1. ASSUME NEW f \in Files, MutateFile(f) PROVE TypeOK'
  BY <1>1 DEF TypeOK, MutateFile, ChangeDisk, DiskStates, heldVars, watchVars, Paths, Stages
<1>2. CASE SetIgnores
  BY <1>2 DEF TypeOK, SetIgnores, ChangeDisk, heldVars, watchVars, Paths, Stages
<1>3. CASE Register
  BY <1>3 DEF TypeOK, Register, heldVars, watchVars, Stages
<1>4. CASE Respond
  BY <1>4 DEF TypeOK, Respond, diskVars, heldVars, jobVars, watchVars, Stages, NoMutation,
          Paths
<1> QED
  BY <1>1, <1>2, <1>3, <1>4 DEF NewRequest

LEMMA TypeRebuild ==
    ASSUME TypeOK, NEW t \in Threads, Rebuild(t) PROVE TypeOK'
<1> USE ConstantsAssumption, NothingIsCatalog DEF TypeOK, diskVars, heldVars, watchVars,
        Walk, Goto, Stages
<1>1. CASE Acquire(t)
  BY <1>1 DEF Acquire, OnDisk
<1>2. CASE Release(t)
  BY <1>2 DEF Release
<1>3. CASE Diff(t)
  BY <1>3, DirtyPaths DEF Diff, OnDisk, FingerprintDiff, Paths
<1>4. CASE Filter(t)
  <2>1. ExpandRemovedDirectories(ScopeFilterDirty(dirty[t])) \in SUBSET Paths
    BY DirtyPaths
  <2>2. CASE version = 0
    <3>1. /\ full' = [full EXCEPT ![t] = TRUE]
          /\ todo' = [todo EXCEPT ![t] = OnDisk]
          /\ acc' = [acc EXCEPT ![t] = Nothing]
          /\ stage' = [stage EXCEPT ![t] = "fingerprint"]
      BY <1>4, <2>2 DEF Filter
    <3> QED
      BY <1>4, <2>2, <3>1 DEF Filter, OnDisk
  <2>3. CASE version # 0
    BY <1>4, <2>1, <2>3 DEF Filter
  <2> QED
    BY <2>2, <2>3
<1>5. CASE Gate(t)
  BY <1>5 DEF Gate, OnDisk
<1>6. CASE TrySplice(t)
  BY <1>6 DEF TrySplice, Decline, OnDisk
<1>7. CASE RecomputeDeclines(t)
  BY <1>7 DEF RecomputeDeclines, Decline, OnDisk
<1>8. CASE CommitSplice(t)
  BY <1>8 DEF CommitSplice, Swap, UpdatedFingerprint, Catalogs
<1>9. CASE Settle(t)
  BY <1>9 DEF Settle, StillMoving
<1>10. CASE BuildFails(t)
  <2>1. CASE full[t]
    BY <1>10, <2>1 DEF BuildFails, NextPass, OnDisk
  <2>2. CASE ~full[t]
    <3>1. /\ full' = [full EXCEPT ![t] = TRUE]
          /\ passes' = [passes EXCEPT ![t] = 1]
          /\ todo' = [todo EXCEPT ![t] = OnDisk]
          /\ acc' = [acc EXCEPT ![t] = Nothing]
          /\ stage' = [stage EXCEPT ![t] = "fingerprint"]
      BY <1>10, <2>2 DEF BuildFails
    <3> QED
      BY <1>10, <3>1 DEF BuildFails, OnDisk
  <2> QED
    BY <2>1, <2>2
<1>11. CASE CommitScoped(t)
  BY <1>11 DEF CommitScoped, Swap, UpdatedFingerprint, Catalogs, jobVars
<1>12. CASE BeginConfirm(t)
  BY <1>12 DEF BeginConfirm, OnDisk
<1>13. CASE CommitFull(t)
  BY <1>13 DEF CommitFull, Swap
<1>14. CASE Retry(t)
  BY <1>14 DEF Retry, NextPass, OnDisk
<1>15. CASE Send(t)
  BY <1>15 DEF Send, jobVars
<1>16. ASSUME NEW f \in Files, ReadForFingerprint(t, f) PROVE TypeOK'
  BY <1>16, EntriesOfStates DEF ReadForFingerprint, Catalogs
<1>17. ASSUME NEW f \in Files, ReadDirty(t, f) PROVE TypeOK'
  <2>1. CASE Refused(f, disk[f])
    BY <1>17, <2>1 DEF ReadDirty, Decline, OnDisk
  <2>2. CASE ~Refused(f, disk[f])
    <3>1. Spliced(f, disk[f]) \in Entries
      BY EntriesOfStates DEF Spliced, Entries
    <3> QED
      <4>1. /\ acc' = [acc EXCEPT ![t][f] = Spliced(f, disk[f])]
            /\ todo' = [todo EXCEPT ![t] = @ \ {f}]
            /\ UNCHANGED <<stage, diskVars, heldVars, tx, lock, full, dirty, base, snap, built,
                           passes, settles, watchVars, quiet, mutation>>
        BY <1>17, <2>2 DEF ReadDirty
      <4>2. acc' \in [Threads -> Catalogs]
        BY <3>1, <4>1 DEF Catalogs
      <4>3. todo' \in [Threads -> SUBSET Files]
        BY <4>1
      <4> QED
        BY <4>1, <4>2, <4>3
  <2> QED
    BY <2>1, <2>2
<1>18. ASSUME NEW f \in Files, ReadForBuild(t, f) PROVE TypeOK'
  BY <1>18, EntriesOfStates DEF ReadForBuild, Acquired, Catalogs, Entries
<1> QED
  BY <1>1, <1>2, <1>3, <1>4, <1>5, <1>6, <1>7, <1>8, <1>9, <1>10, <1>11, <1>12,
     <1>13, <1>14, <1>15, <1>16, <1>17, <1>18 DEF Rebuild

\* Every variable keeps its type, for every workspace and every bound.
THEOREM TypeCorrect == Spec => []TypeOK
<1>1. TypeOK /\ [Next]_vars => TypeOK'
  <2> SUFFICES ASSUME TypeOK, [Next]_vars PROVE TypeOK'
      OBVIOUS
  <2>1. CASE Environment
    BY <2>1, TypeEnvironment
  <2>2. CASE Watcher
    BY <2>2, TypeWatcher, TypeRebuild, ConstantsAssumption DEF Watcher
  <2>3. CASE Writer
    BY <2>3, TypeRequests, TypeRebuild, ConstantsAssumption DEF Writer
  <2>4. CASE NewRequest
    BY <2>4, TypeRequests
  <2>5. CASE UNCHANGED vars
    BY <2>5 DEF TypeOK, vars
  <2> QED
    BY <2>1, <2>2, <2>3, <2>4, <2>5 DEF Next
<1> QED
  BY <1>1, TypeInit, PTL DEF Spec

-----------------------------------------------------------------------------
(* Rebuilds are serial: the invariant behind NoLostSwap and                *)
(* BroadcastInOrder.                                                       *)

LEMMA SerialInit == Init => SerialRebuilds
BY ConstantsAssumption DEF Init, SerialRebuilds, Working, Swapping

\* Whatever leaves the held state, the lock and the stages alone keeps it.
LEMMA SerialFrame ==
    ASSUME SerialRebuilds, UNCHANGED <<version, tx, lock, stage, base>>
    PROVE  SerialRebuilds'
BY DEF SerialRebuilds

LEMMA SerialOutside ==
    TypeOK /\ SerialRebuilds /\ Environment => SerialRebuilds'
<1> SUFFICES ASSUME SerialRebuilds, Environment PROVE SerialRebuilds'
    OBVIOUS
<1> UNCHANGED <<version, tx, lock, stage, base>>
  BY DEF Environment, ExternalWrite, Touch, RemoveDirectory, EditIgnores, Overflow,
         FlagRescan, LoseEvent, heldVars, jobVars
<1> QED
  BY SerialFrame

\* Steps that only move a thread between the stages where it holds no lock.
LEMMA SerialIdle ==
    TypeOK /\ SerialRebuilds
      /\ ((\E e \in inbox : Receive(e)) \/ Quiesce \/ IdleReconcile
            \/ NewRequest \/ Respond)
    => SerialRebuilds'
<1> SUFFICES ASSUME TypeOK, SerialRebuilds,
                    (\E e \in inbox : Receive(e)) \/ Quiesce \/ IdleReconcile
                      \/ NewRequest \/ Respond
             PROVE  SerialRebuilds'
    OBVIOUS
<1>1. /\ UNCHANGED <<version, tx, lock, base>>
      /\ \/ stage' = [stage EXCEPT !["watcher"] = "burst"] /\ stage["watcher"] # "send"
         \/ stage' = [stage EXCEPT !["watcher"] = "want"] /\ stage["watcher"] # "send"
         \/ stage' = [stage EXCEPT !["writer"] = "want"] /\ stage["writer"] # "send"
         \/ stage' = [stage EXCEPT !["writer"] = "idle"] /\ stage["writer"] # "send"
  BY DEF Receive, Quiesce, IdleReconcile, NewRequest, MutateFile, SetIgnores, Register,
         WriterIdle, Respond, heldVars, jobVars
<1> QED
  BY <1>1, ConstantsAssumption DEF SerialRebuilds, TypeOK, Working, Swapping

LEMMA SerialStep ==
    ASSUME TypeOK, SerialRebuilds, NEW t \in Threads, Rebuild(t)
    PROVE  SerialRebuilds'
<1> USE ConstantsAssumption DEF TypeOK, SerialRebuilds, Working, Swapping, NoThread, Goto,
        heldVars
<1>1. CASE Acquire(t)
  BY <1>1 DEF Acquire, Walk
<1>2. CASE Release(t)
  BY <1>2 DEF Release
<1>3. CASE Diff(t)
  BY <1>3 DEF Diff, Walk
<1>4. CASE Filter(t)
  BY <1>4 DEF Filter, Walk
<1>5. CASE Gate(t)
  BY <1>5 DEF Gate, Walk
<1>6. CASE TrySplice(t)
  BY <1>6 DEF TrySplice, Decline, Walk
<1>7. CASE RecomputeDeclines(t)
  BY <1>7 DEF RecomputeDeclines, Decline, Walk
<1>8. CASE CommitSplice(t)
  BY <1>8 DEF CommitSplice, Swap
<1>9. CASE Settle(t)
  BY <1>9 DEF Settle
<1>10. CASE BuildFails(t)
  BY <1>10 DEF BuildFails, NextPass, Walk
<1>11. CASE CommitScoped(t)
  BY <1>11 DEF CommitScoped, Swap, jobVars
<1>12. CASE BeginConfirm(t)
  BY <1>12 DEF BeginConfirm, Walk
<1>13. CASE CommitFull(t)
  BY <1>13 DEF CommitFull, Swap
<1>14. CASE Retry(t)
  BY <1>14 DEF Retry, NextPass, Walk
<1>15. CASE Send(t)
  BY <1>15 DEF Send, jobVars
<1>16. ASSUME NEW f \in Files, ReadForFingerprint(t, f) PROVE SerialRebuilds'
  BY <1>16 DEF ReadForFingerprint
<1>17. ASSUME NEW f \in Files, ReadDirty(t, f) PROVE SerialRebuilds'
  BY <1>17 DEF ReadDirty, Decline, Walk
<1>18. ASSUME NEW f \in Files, ReadForBuild(t, f) PROVE SerialRebuilds'
  BY <1>18 DEF ReadForBuild
<1> QED
  BY <1>1, <1>2, <1>3, <1>4, <1>5, <1>6, <1>7, <1>8, <1>9, <1>10, <1>11, <1>12,
     <1>13, <1>14, <1>15, <1>16, <1>17, <1>18 DEF Rebuild

\* A thread at work holds the lock, works from the held state, and all but the
\* last swap was broadcast.
THEOREM RebuildsAreSerial == Spec => []SerialRebuilds
<1>1. TypeOK /\ SerialRebuilds /\ [Next]_vars => SerialRebuilds'
  <2> SUFFICES ASSUME TypeOK, SerialRebuilds, [Next]_vars PROVE SerialRebuilds'
      OBVIOUS
  <2>1. CASE Environment
    BY <2>1, SerialOutside
  <2>2. CASE Watcher
    BY <2>2, SerialIdle, SerialStep, ConstantsAssumption DEF Watcher
  <2>3. CASE Writer
    BY <2>3, SerialIdle, SerialStep, ConstantsAssumption DEF Writer
  <2>4. CASE NewRequest
    BY <2>4, SerialIdle
  <2>5. CASE UNCHANGED vars
    BY <2>5, SerialFrame DEF vars
  <2> QED
    BY <2>1, <2>2, <2>3, <2>4, <2>5 DEF Next
<1> QED
  BY <1>1, SerialInit, TypeCorrect, PTL DEF Spec

\* Only three steps of a rebuild swap the held state.
LEMMA OnlySwapsChangeVersion ==
    ASSUME TypeOK, [Next]_vars, version' # version
    PROVE  \E t \in Threads :
             /\ CommitSplice(t) \/ CommitScoped(t) \/ CommitFull(t)
             /\ stage[t] \in Swapping /\ stage'[t] = "send"
             /\ version' = version + 1 /\ tx' = tx
<1>1. ASSUME Environment PROVE version' = version
  BY <1>1 DEF Environment, ExternalWrite, Touch, RemoveDirectory, EditIgnores, Overflow,
         FlagRescan, LoseEvent, heldVars
<1>2. ASSUME (\E e \in inbox : Receive(e)) \/ Quiesce \/ IdleReconcile
               \/ NewRequest \/ Respond
      PROVE  version' = version
  BY <1>2 DEF Receive, Quiesce, IdleReconcile, NewRequest, MutateFile, SetIgnores,
         Register, Respond, heldVars
<1>3. ASSUME NEW t \in Threads, Rebuild(t)
      PROVE  CommitSplice(t) \/ CommitScoped(t) \/ CommitFull(t)
  <2>1. Acquire(t) \/ Release(t) \/ Diff(t) \/ Filter(t) \/ Gate(t) \/ TrySplice(t)
          \/ RecomputeDeclines(t) \/ Settle(t) \/ BuildFails(t) \/ BeginConfirm(t)
          \/ Retry(t) \/ Send(t) => version' = version
    BY DEF Acquire, Release, Diff, Filter, Gate, TrySplice, RecomputeDeclines, Settle,
           BuildFails, BeginConfirm, Retry, Send, heldVars
  <2>2. (\E f \in Files : \/ ReadForFingerprint(t, f) \/ ReadDirty(t, f)
                          \/ ReadForBuild(t, f)) => version' = version
    BY DEF ReadForFingerprint, ReadDirty, ReadForBuild, heldVars
  <2> QED
    BY <1>3, <2>1, <2>2 DEF Rebuild
<1>4. PICK t \in Threads : Rebuild(t)
  BY <1>1, <1>2, ConstantsAssumption DEF Next, Watcher, Writer, vars
<1>5. CommitSplice(t) \/ CommitScoped(t) \/ CommitFull(t)
  BY <1>3, <1>4
<1>6. stage[t] \in Swapping /\ stage'[t] = "send" /\ version' = version + 1 /\ tx' = tx
  BY <1>5 DEF CommitSplice, CommitScoped, CommitFull, Swap, Goto, TypeOK, Swapping
<1> QED
  BY <1>5, <1>6

\* No rebuild overwrites a version of the held state it did not work from.
THEOREM SwapsAreNeverLost == Spec => NoLostSwap
<1>1. ASSUME TypeOK, SerialRebuilds, [Next]_vars, version' # version
      PROVE  \E t \in Threads : stage[t] \in {"recompute", "build", "confirm"}
                               /\ stage'[t] = "send" /\ base[t] = version
  BY <1>1, OnlySwapsChangeVersion DEF SerialRebuilds, Swapping
<1> QED
  BY <1>1, TypeCorrect, RebuildsAreSerial, PTL DEF Spec, NoLostSwap

\* What is broadcast is the version held.
LEMMA OnlyVersionsAreSent ==
    ASSUME [Next]_vars PROVE tx' = tx \/ tx' = version
<1>1. ASSUME Environment PROVE tx' = tx
  BY <1>1 DEF Environment, ExternalWrite, Touch, RemoveDirectory, EditIgnores, Overflow,
         FlagRescan, LoseEvent
<1>2. ASSUME (\E e \in inbox : Receive(e)) \/ Quiesce \/ IdleReconcile
               \/ NewRequest \/ Respond
      PROVE  tx' = tx
  BY <1>2 DEF Receive, Quiesce, IdleReconcile, NewRequest, MutateFile, SetIgnores,
         Register, Respond
<1>3. ASSUME NEW t, Rebuild(t) PROVE tx' = tx \/ tx' = version
  <2>1. Acquire(t) \/ Release(t) \/ Diff(t) \/ Filter(t) \/ Gate(t) \/ TrySplice(t)
          \/ RecomputeDeclines(t) \/ Settle(t) \/ BuildFails(t) \/ BeginConfirm(t)
          \/ Retry(t) => tx' = tx
    BY DEF Acquire, Release, Diff, Filter, Gate, TrySplice, RecomputeDeclines, Settle,
           BuildFails, BeginConfirm, Retry
  <2>2. CommitSplice(t) \/ CommitScoped(t) \/ CommitFull(t) => tx' = tx
    BY DEF CommitSplice, CommitScoped, CommitFull
  <2>3. (\E f \in Files : \/ ReadForFingerprint(t, f) \/ ReadDirty(t, f)
                          \/ ReadForBuild(t, f)) => tx' = tx
    BY DEF ReadForFingerprint, ReadDirty, ReadForBuild
  <2>4. Send(t) => tx' = version
    BY DEF Send
  <2> QED
    BY <1>3, <2>1, <2>2, <2>3, <2>4 DEF Rebuild
<1> QED
  BY <1>1, <1>2, <1>3 DEF Next, Watcher, Writer, vars

\* Versions are broadcast in order, each before the next one is swapped in.
THEOREM VersionsAreBroadcastInOrder == Spec => BroadcastInOrder
<1>1. ASSUME TypeOK, SerialRebuilds, [Next]_vars, version' # version
      PROVE  tx = version /\ tx' >= tx
  <2>1. PICK t \in Threads : stage[t] \in Swapping /\ tx' = tx
    BY <1>1, OnlySwapsChangeVersion
  <2>2. \A u \in Threads : stage[u] # "send"
    BY <1>1, <2>1 DEF SerialRebuilds, Working, Swapping
  <2> QED
    BY <1>1, <2>1, <2>2 DEF SerialRebuilds, TypeOK
<1>2. ASSUME TypeOK, SerialRebuilds, [Next]_vars PROVE tx' >= tx
  BY <1>2, OnlyVersionsAreSent DEF SerialRebuilds, TypeOK
<1> QED
  BY <1>1, <1>2, TypeCorrect, RebuildsAreSerial, PTL DEF Spec, BroadcastInOrder

-----------------------------------------------------------------------------
(* The scope.  While nobody rewrites the `.auignore`, an excluded file is  *)
(* kept out at every stage of a rebuild: out of the dirty set, out of the  *)
(* walk, out of what was read and so out of what is swapped in.            *)

Out(catalog) == \A f \in ignored : catalog[f] = NoEntry

ScopeKept ==
    /\ Out(kb)
    /\ \A t \in Threads :
        /\ (\/ stage[t] \in {"splice", "recompute", "settle", "gate"}
            \/ stage[t] = "send" /\ full[t] /\ settles[t] > 0)
             => dirty[t] \cap ignored = {}
        /\ stage[t] \in {"recompute", "build"}
             => todo[t] \cap ignored = {} /\ Out(acc[t])
        /\ stage[t] = "confirm" => Out(built[t])

\* What passes the filter and the expansion is in scope.
LEMMA DirtyInScope ==
    ASSUME TypeOK, Out(kb), NEW ps \in SUBSET Paths
    PROVE  ExpandRemovedDirectories(ScopeFilterDirty(ps)) \cap ignored = {}
BY ConstantsAssumption
   DEF ExpandRemovedDirectories, ScopeFilterDirty, Children, Out, TypeOK, Paths

\* What the scope of the other thread depends on stays.
OthersKeep(t) ==
    \A u \in Threads : u # t => UNCHANGED <<stage[u], full[u], settles[u], dirty[u],
                                           todo[u], acc[u], built[u]>>

LEMMA ScopeInit == Init => ScopeKept
BY ConstantsAssumption DEF Init, ScopeKept, Out, Nothing

LEMMA ScopeOutside ==
    Rescopes = {} /\ TypeOK /\ ScopeKept
      /\ (\/ Environment \/ (\E e \in inbox : Receive(e)) \/ Quiesce \/ IdleReconcile
          \/ NewRequest \/ Respond)
    => ScopeKept'
<1> SUFFICES ASSUME Rescopes = {}, TypeOK, ScopeKept,
                    \/ Environment \/ (\E e \in inbox : Receive(e)) \/ Quiesce
                    \/ IdleReconcile \/ NewRequest \/ Respond
             PROVE  ScopeKept'
    OBVIOUS
<1>1. CASE Environment
  BY <1>1 DEF Environment, ExternalWrite, Touch, RemoveDirectory, EditIgnores, Overflow,
         FlagRescan, LoseEvent, ChangeDisk, heldVars, jobVars, ScopeKept, Out
<1>2. CASE (\E e \in inbox : Receive(e)) \/ Quiesce \/ IdleReconcile
             \/ NewRequest \/ Respond
  <2>1. /\ UNCHANGED <<ignored, kb, todo, acc, built, settles>>
        /\ \E t \in Threads :
             /\ \A u \in Threads : u # t => stage'[u] = stage[u] /\ full'[u] = full[u]
                                          /\ dirty'[u] = dirty[u]
             /\ stage'[t] \in {"burst", "want", "idle"}
    BY <1>2, ConstantsAssumption DEF Receive, Quiesce, IdleReconcile, NewRequest,
         MutateFile, SetIgnores, Register, Respond, ChangeDisk, heldVars, jobVars,
         diskVars, TypeOK
  <2> QED
    BY <2>1 DEF ScopeKept, Out
<1> QED
  BY <1>1, <1>2

LEMMA ScopeStep ==
    ASSUME TypeOK, ScopeKept, NEW t \in Threads, Rebuild(t)
    PROVE  ScopeKept'
<1> USE ConstantsAssumption DEF TypeOK, ScopeKept, Out, Goto, Walk, heldVars, diskVars
<1>1. CASE Acquire(t)
  BY <1>1 DEF Acquire
<1>2. CASE Release(t)
  BY <1>2 DEF Release
<1>3. CASE Diff(t)
  <2> DEFINE filtered == ExpandRemovedDirectories(
                            ScopeFilterDirty(FingerprintDiff(fp, acc[t])))
  <2>1. filtered \cap ignored = {}
    BY DirtyInScope DEF FingerprintDiff, Paths
  <2>2. dirty'[t] \cap ignored = {}
    BY <1>3, <2>1 DEF Diff
  <2>3. OthersKeep(t) /\ UNCHANGED <<kb, ignored>>
    BY <1>3 DEF Diff, OthersKeep
  <2>4. \/ stage'[t] \in {"done", "splice"}
        \/ /\ stage'[t] = "build" /\ todo'[t] = OnDisk \ ignored
           /\ acc'[t] = Nothing
    BY <1>3 DEF Diff
  <2> QED
    BY <2>2, <2>3, <2>4 DEF OthersKeep, Nothing
<1>4. CASE Filter(t)
  <2>1. ExpandRemovedDirectories(ScopeFilterDirty(dirty[t])) \cap ignored = {}
    BY DirtyInScope
  <2>2. OthersKeep(t) /\ UNCHANGED <<kb, ignored>>
    BY <1>4 DEF Filter, OthersKeep
  <2>3. \/ stage'[t] \in {"fingerprint", "done"}
        \/ stage'[t] = "splice" /\ dirty'[t] \cap ignored = {}
    BY <1>4, <2>1 DEF Filter
  <2> QED
    BY <2>2, <2>3 DEF OthersKeep
<1>5. CASE Gate(t)
  BY <1>5 DEF Gate, Nothing
<1>6. CASE TrySplice(t)
  <2>1. OthersKeep(t) /\ UNCHANGED <<kb, ignored, dirty>>
    BY <1>6 DEF TrySplice, Decline, OthersKeep
  <2>2. \/ stage'[t] \in {"gate", "settle", "done"}
        \/ stage'[t] = "build" /\ todo'[t] = OnDisk \ ignored /\ acc'[t] = Nothing
        \/ stage'[t] = "recompute" /\ todo'[t] = dirty[t] \cap Files /\ acc'[t] = kb
    BY <1>6 DEF TrySplice, Decline
  <2>3. dirty[t] \cap ignored = {}
    BY <1>6 DEF TrySplice
  <2> QED
    BY <2>1, <2>2, <2>3 DEF OthersKeep, Nothing
<1>7. CASE RecomputeDeclines(t)
  BY <1>7 DEF RecomputeDeclines, Decline, Nothing
<1>8. CASE CommitSplice(t)
  <2>1. OthersKeep(t) /\ UNCHANGED <<dirty, ignored>>
    BY <1>8 DEF CommitSplice, OthersKeep
  <2>2. stage'[t] = "send" /\ kb' = acc[t] /\ Out(acc[t]) /\ dirty[t] \cap ignored = {}
    BY <1>8 DEF CommitSplice, Swap
  <2> QED
    BY <2>1, <2>2 DEF OthersKeep
<1>9. CASE Settle(t)
  BY <1>9 DEF Settle, StillMoving
<1>10. CASE BuildFails(t)
  BY <1>10 DEF BuildFails, NextPass
<1>11. CASE CommitScoped(t)
  BY <1>11 DEF CommitScoped, Swap, jobVars
<1>12. CASE BeginConfirm(t)
  BY <1>12 DEF BeginConfirm
<1>13. CASE CommitFull(t)
  BY <1>13 DEF CommitFull, Swap
<1>14. CASE Retry(t)
  BY <1>14 DEF Retry, NextPass
<1>15. CASE Send(t)
  BY <1>15 DEF Send, jobVars
<1>16. ASSUME NEW f \in Files, ReadForFingerprint(t, f) PROVE ScopeKept'
  BY <1>16 DEF ReadForFingerprint
<1>17. ASSUME NEW f \in Files, ReadDirty(t, f) PROVE ScopeKept'
  <2>1. OthersKeep(t) /\ UNCHANGED <<kb, ignored, dirty, built, full, settles>>
    BY <1>17 DEF ReadDirty, Decline, OthersKeep
  <2>2. f \notin ignored /\ Out(acc[t]) /\ dirty[t] \cap ignored = {}
    BY <1>17 DEF ReadDirty
  <2>3. CASE Refused(f, disk[f])
    <3>1. \/ stage'[t] = "gate"
          \/ stage'[t] = "build" /\ todo'[t] = OnDisk \ ignored /\ acc'[t] = Nothing
      BY <1>17, <2>3 DEF ReadDirty, Decline
    <3> QED
      BY <2>1, <2>2, <3>1 DEF OthersKeep, Nothing
  <2>4. CASE ~Refused(f, disk[f])
    <3>1. /\ stage' = stage /\ todo'[t] = todo[t] \ {f}
          /\ acc'[t] = [acc[t] EXCEPT ![f] = Spliced(f, disk[f])]
      BY <1>17, <2>4 DEF ReadDirty
    <3>2. stage[t] = "recompute" /\ todo'[t] \cap ignored = {}
      BY <1>17, <3>1 DEF ReadDirty
    <3>3. Out(acc'[t])
      BY <2>1, <2>2, <3>1 DEF Catalogs
    <3> QED
      <4>1. Out(kb)' /\ dirty'[t] \cap ignored' = {} /\ stage'[t] = "recompute"
        BY <2>1, <2>2, <3>1, <3>2
      <4>2. todo'[t] \cap ignored' = {} /\ Out(acc[t])'
        BY <2>1, <3>2, <3>3
      <4> QED
        BY <2>1, <4>1, <4>2 DEF OthersKeep, Out
  <2> QED
    BY <2>3, <2>4
<1>18. ASSUME NEW f \in Files, ReadForBuild(t, f) PROVE ScopeKept'
  BY <1>18 DEF ReadForBuild
<1> QED
  BY <1>1, <1>2, <1>3, <1>4, <1>5, <1>6, <1>7, <1>8, <1>9, <1>10, <1>11, <1>12,
     <1>13, <1>14, <1>15, <1>16, <1>17, <1>18 DEF Rebuild

LEMMA ScopeIsKept ==
    ASSUME Rescopes = {} PROVE Spec => []ScopeKept
<1>1. TypeOK /\ ScopeKept /\ [Next]_vars => ScopeKept'
  <2> SUFFICES ASSUME TypeOK, ScopeKept, [Next]_vars PROVE ScopeKept'
      OBVIOUS
  <2>1. CASE Environment \/ NewRequest
    BY <2>1, ScopeOutside
  <2>2. CASE Watcher
    BY <2>2, ScopeOutside, ScopeStep, ConstantsAssumption DEF Watcher
  <2>3. CASE Writer
    BY <2>3, ScopeOutside, ScopeStep, ConstantsAssumption DEF Writer
  <2>4. CASE UNCHANGED vars
    BY <2>4 DEF vars, ScopeKept, Out
  <2> QED
    BY <2>1, <2>2, <2>3, <2>4 DEF Next
<1> QED
  BY <1>1, ScopeInit, TypeCorrect, PTL DEF Spec

\* As long as the `.auignore` is not rewritten, a file it excludes never
\* enters the knowledge base, however it changes and whichever way its event
\* or the walk reaches it.
THEOREM ExcludedFilesStayOut ==
    ASSUME Rescopes = {} PROVE Spec => []IgnoredStaysOut
<1>1. ScopeKept => IgnoredStaysOut
  BY DEF ScopeKept, Out, IgnoredStaysOut
<1> QED
  BY <1>1, ScopeIsKept, PTL

-----------------------------------------------------------------------------
(* The gate.  A fingerprint entry with a hash, or the lack of an entry,    *)
(* stands for one state of its file.  While no file returns to a state it  *)
(* has left, an entry that agrees with the disk now has agreed with it     *)
(* ever since it was recorded, and with every read in between.             *)

\* The state an entry with a hash, or the lack of an entry, stands for.
Means(h) == IF h = NoEntry THEN Absent ELSE IF h = SizeHash THEN Oversize ELSE h

\* What an entry stands for has been on the disk.
Known(h, f) == h # Unread => Means(h) \in seen[f]

Agrees(h, f) == h # Unread /\ Fingerprint[f] = h

AllKnown(g) == \A f \in Files \ ignored : Known(g[f], f)
Catalogued(g) == \A f \in Files \ ignored : g[f] # SizeHash /\ Known(g[f], f)

\* The hashes a build trusts: those of a full one, and those of the paths a
\* scoped one was not told of.
Trusted(t, f) == full[t] \/ f \notin dirty[t]

Later == {"splice", "recompute", "settle", "send", "build", "confirm"}

\* What a rebuild under way has read, and what it may swap in.
ReadTrue(t) ==
    /\ (\/ stage[t] \in {"splice", "recompute", "settle", "gate", "send"}
        \/ stage[t] = "build" /\ ~full[t]) => version > 0
    /\ stage[t] \in {"fingerprint", "confirm"} => full[t]
    /\ stage[t] \in {"filter", "gate"} => ~full[t]
    /\ stage[t] = "fingerprint" =>
         \A f \in (Files \ ignored) \ todo[t] : Known(acc[t][f], f)
    /\ stage[t] \in Later /\ full[t] => AllKnown(snap[t])
    /\ stage[t] = "recompute" =>
         /\ todo[t] \subseteq dirty[t] /\ Catalogued(acc[t])
         /\ \A f \in Files \ dirty[t] : acc[t][f] = kb[f]
    /\ stage[t] = "build" =>
         \A f \in Files \ ignored :
           /\ f \notin todo[t] => acc[t][f] # SizeHash /\ Known(acc[t][f], f)
           /\ Trusted(t, f) /\ Agrees(KnownHash(t, f), f) =>
                IF f \in todo[t] THEN disk[f] # Absent ELSE acc[t][f] = View[f]
    /\ stage[t] = "confirm" =>
         /\ Catalogued(built[t])
         /\ \A f \in Files \ ignored :
              Agrees(snap[t][f], f) => built[t][f] = View[f]

HeldTrue ==
    /\ \A f \in Files : disk[f] \in seen[f]
    /\ version > 0 => AllKnown(fp) /\ Catalogued(kb)
    /\ GateSound

GateInv == HeldTrue /\ \A t \in Threads : ReadTrue(t)

\* What a full rebuild during which the disk stood still has read of it, and
\* what it has caught up with.
Caught(f) == Vouched(f) => kb[f] = View[f]
AllCaught == \A f \in Files : Caught(f)
ReadQuietly(t) ==
    /\ stage[t] \in {"fingerprint", "confirm"} =>
         \A f \in Files : IF f \in todo[t] THEN disk[f] # Absent
                          ELSE acc[t][f] = Fingerprint[f]
    /\ full[t] /\ stage[t] \in Later => snap[t] = Fingerprint
    /\ full[t] /\ stage[t] \in {"splice", "recompute"} =>
         \A f \in Files \ dirty[t] : Caught(f)
    /\ full[t] /\ stage[t] = "recompute" =>
         \A f \in (Files \cap dirty[t]) \ todo[t] :
           disk[f] # Unreadable => acc[t][f] = View[f]
    /\ full[t] /\ stage[t] = "build" =>
         \A f \in Files : IF f \in todo[t] THEN disk[f] # Absent /\ f \notin ignored
                          ELSE acc[t][f] = View[f]
    /\ stage[t] = "confirm" => built[t] = View
    /\ full[t] /\ stage[t] \in {"settle", "send"} => AllCaught
    /\ full[t] /\ stage[t] = "done" /\ passes[t] <= MaxPasses =>
         version > 0 /\ AllCaught

QuietInv == \A t \in Threads : quiet[t] => ReadQuietly(t)

\* The fingerprint of a state stands for that state, or for none.
LEMMA FpMeans ==
    ASSUME NEW f \in Files, NEW s \in DiskStates,
           NEW h, h # Unread, h = IF s = Absent THEN NoEntry ELSE FpOf(f, s)
    PROVE  s = Means(h)
BY ConstantsAssumption
DEF Means, FpOf, DiskStates, NoEntry, Unread, SizeHash, Absent, Oversize

\* An entry that agrees with the disk stands for what is there, and a build
\* that reads it, or that reuses it, catalogs just that.
LEMMA AgreesMeans ==
    ASSUME TypeOK, NEW f \in Files, NEW h \in Entries, Agrees(h, f)
    PROVE  /\ disk[f] = Means(h)
           /\ h \in Contents => EntryOf(f, h) = h
           /\ h # NoEntry => disk[f] # Absent
BY ConstantsAssumption
DEF Agrees, Fingerprint, Means, FpOf, EntryOf, TypeOK, Entries, DiskStates,
    NoEntry, Unread, SizeHash, Absent, Oversize, Unreadable

LEMMA AgreesView ==
    ASSUME TypeOK, NEW f \in Files \ ignored, NEW h \in Entries, Agrees(h, f)
    PROVE  /\ h = NoEntry => View[f] = NoEntry
           /\ h # NoEntry => View[f] = EntryOf(f, disk[f])
           /\ h # SizeHash => View[f] = h
<1>1. h = NoEntry => disk[f] = Absent
  BY AgreesMeans DEF Means
<1>2. h # NoEntry => disk[f] # Absent
  BY AgreesMeans
<1>3. CASE h \in Contents
  <2>1. disk[f] = h /\ EntryOf(f, h) = h
    BY <1>3, AgreesMeans, ConstantsAssumption DEF Means
  <2>2. QED
    BY <1>2, <1>3, <2>1, ConstantsAssumption DEF View
<1>4. CASE h = NoEntry \/ h = SizeHash
  BY <1>1, <1>2, <1>4 DEF View, NoEntry, SizeHash
<1>5. QED
  BY <1>3, <1>4 DEF Entries, Agrees

\* What the build catalogs of a state stands for that state, or for none.
LEMMA EntriesAreKnown ==
    ASSUME TypeOK, NEW f \in Files, NEW s \in DiskStates, s \in seen[f]
    PROVE  /\ EntryOf(f, s) # SizeHash /\ Known(EntryOf(f, s), f)
           /\ Known(FpOf(f, s), f)
BY ConstantsAssumption
DEF Known, Means, EntryOf, FpOf, DiskStates, NoEntry, Unread, SizeHash, Absent,
    Oversize, Unreadable

LEMMA AbsentIsKnown ==
    ASSUME NEW f \in Files, disk[f] = Absent, disk[f] \in seen[f]
    PROVE  NoEntry # SizeHash /\ Known(NoEntry, f)
BY DEF Known, Means, NoEntry, SizeHash

-----------------------------------------------------------------------------
(* The disk changes: nothing known becomes true again.                     *)

\* A step of the disk under which no file returns to a state it had.
Onwards ==
    /\ ignored' = ignored
    /\ \A f \in Files : /\ disk'[f] = disk[f] \/ disk'[f] \notin seen[f]
                        /\ seen[f] \subseteq seen'[f] /\ disk'[f] \in seen'[f]

LEMMA KnownStays ==
    ASSUME Onwards, NEW f \in Files, NEW h, Known(h, f)
    PROVE  Known(h, f)'
BY DEF Onwards, Known

LEMMA AgreedBefore ==
    ASSUME TypeOK, TypeOK', Onwards, NEW f \in Files, NEW h \in Entries,
           Known(h, f), Agrees(h, f)'
    PROVE  Agrees(h, f) /\ disk'[f] = disk[f] /\ View'[f] = View[f]
<1>1. disk'[f] = Means(h)
  <2>1. disk'[f] \in DiskStates
    BY DEF TypeOK
  <2>2. /\ h # Unread
        /\ h = IF disk'[f] = Absent THEN NoEntry ELSE FpOf(f, disk'[f])
    BY DEF Agrees, Fingerprint
  <2>3. QED
    BY <2>1, <2>2, FpMeans
<1>2. disk'[f] = disk[f]
  BY <1>1 DEF Onwards, Known, Agrees
<1>3. QED
  BY <1>2 DEF Agrees, Fingerprint, View, Onwards

\* A step outside the rebuilds: the disk goes onwards, and a thread is at most
\* given new work, which reads nothing yet.
Outside ==
    /\ Onwards
    /\ UNCHANGED <<kb, fp, version, snap, todo, acc, built, passes>>
    /\ \A u \in Threads :
         \/ UNCHANGED <<stage[u], full[u], dirty[u]>>
         \/ stage'[u] \in {"burst", "want", "idle"}

LEMMA OutsideSteps ==
    ASSUME Rescopes = {}, CanReturn = FALSE, TypeOK,
           \A f \in Files : disk[f] \in seen[f],
           \/ Environment \/ (\E e \in inbox : Receive(e)) \/ Quiesce
           \/ IdleReconcile \/ NewRequest \/ Respond
    PROVE  Outside
<1>1. ASSUME NEW newDisk \in [Files -> DiskStates], NEW events,
             ChangeDisk(newDisk, events), ignored' = ignored,
             \A f \in Files : newDisk[f] = disk[f] \/ MayBecome(f, newDisk[f])
      PROVE  Onwards
  BY <1>1 DEF ChangeDisk, MayBecome, Onwards, TypeOK
<1>2. ASSUME UNCHANGED <<disk, ignored, seen>>
      PROVE  Onwards
  BY <1>2 DEF Onwards
<1>3. ASSUME NEW f \in Files, ExternalWrite(f)
      PROVE  Onwards
  <2>1. PICK s \in WriteStates :
           MayBecome(f, s) /\ ChangeDisk([disk EXCEPT ![f] = s], {f})
    BY <1>3 DEF ExternalWrite
  <2>2. [disk EXCEPT ![f] = s] \in [Files -> DiskStates]
    BY ConstantsAssumption DEF TypeOK
  <2>3. ignored' = ignored
    BY <1>3 DEF ExternalWrite
  <2>4. QED
    BY <1>1, <2>1, <2>2, <2>3 DEF TypeOK
<1>4. ASSUME NEW f \in Files, MutateFile(f)
      PROVE  Onwards
  <2>1. PICK s \in MutateStates :
           MayBecome(f, s) /\ ChangeDisk([disk EXCEPT ![f] = s], {f})
    BY <1>4 DEF MutateFile
  <2>2. [disk EXCEPT ![f] = s] \in [Files -> DiskStates]
    BY ConstantsAssumption DEF TypeOK, DiskStates
  <2>3. ignored' = ignored
    BY <1>4 DEF MutateFile
  <2>4. QED
    BY <1>1, <2>1, <2>2, <2>3 DEF TypeOK
<1>5. ASSUME NEW d \in Dirs, RemoveDirectory(d)
      PROVE  Onwards
  <2> DEFINE newDisk == [f \in Files |-> IF f \in Under[d] THEN Absent ELSE disk[f]]
  <2>1. ChangeDisk(newDisk, {d}) /\ ignored' = ignored
    BY <1>5 DEF RemoveDirectory
  <2>2. newDisk \in [Files -> DiskStates]
    BY DEF TypeOK, DiskStates
  <2>3. \A f \in Files : newDisk[f] = disk[f] \/ MayBecome(f, newDisk[f])
    BY <1>5 DEF RemoveDirectory, OnDisk
  <2>4. QED
    BY <1>1, <2>1, <2>2, <2>3
<1>6. CASE Environment
  <2>1. Onwards
    BY <1>2, <1>3, <1>5, <1>6
    DEF Environment, Touch, EditIgnores, Overflow, FlagRescan, LoseEvent
  <2>2. UNCHANGED <<kb, fp, version, snap, todo, acc, built, passes,
                    stage, full, dirty>>
    BY <1>6 DEF Environment, ExternalWrite, Touch, RemoveDirectory, EditIgnores,
                Overflow, FlagRescan, LoseEvent, heldVars, jobVars
  <2>3. QED
    BY <2>1, <2>2 DEF Outside
<1>7. CASE (\E e \in inbox : Receive(e)) \/ Quiesce \/ IdleReconcile
             \/ NewRequest \/ Respond
  <2>1. Onwards
    BY <1>2, <1>4, <1>7
    DEF Receive, Quiesce, IdleReconcile, NewRequest, SetIgnores, Register, Respond,
        diskVars
  <2>2. UNCHANGED <<kb, fp, version, snap, todo, acc, built, passes>>
    BY <1>7 DEF Receive, Quiesce, IdleReconcile, NewRequest, MutateFile, SetIgnores,
                Register, Respond, heldVars, jobVars
  <2>3. \E t \in Threads :
          /\ \A u \in Threads : u # t => UNCHANGED <<stage[u], full[u], dirty[u]>>
          /\ stage'[t] \in {"burst", "want", "idle"}
    <3>1. ASSUME NEW e \in inbox, Receive(e)
          PROVE  stage' = [stage EXCEPT !["watcher"] = "burst"]
                 /\ UNCHANGED <<full, dirty>>
      BY <3>1 DEF Receive, jobVars
    <3>2. CASE Quiesce \/ IdleReconcile
      BY <3>2, ConstantsAssumption DEF Quiesce, IdleReconcile, TypeOK
    <3>3. CASE NewRequest
      <4>1. /\ stage' = [stage EXCEPT !["writer"] = "want"]
            /\ \E b, ps : /\ full' = [full EXCEPT !["writer"] = b]
                         /\ dirty' \in {dirty, [dirty EXCEPT !["writer"] = ps]}
        BY <3>3 DEF NewRequest, MutateFile, SetIgnores, Register
      <4>2. QED
        BY <4>1, ConstantsAssumption DEF TypeOK
    <3>4. CASE Respond
      BY <3>4, ConstantsAssumption DEF Respond, jobVars, TypeOK
    <3>5. QED
      BY <1>7, <3>1, <3>2, <3>3, <3>4, ConstantsAssumption DEF TypeOK
  <2>4. QED
    BY <2>1, <2>2, <2>3 DEF Outside
<1>8. QED
  BY <1>6, <1>7

LEMMA OutsideKeepsHeld ==
    ASSUME TypeOK, TypeOK', ScopeKept, HeldTrue, Outside
    PROVE  HeldTrue'
<1> USE DEF TypeOK, Catalogs
<1>1. \A f \in Files : disk'[f] \in seen'[f]
  BY DEF Outside, Onwards
<1>2. version' > 0 => (AllKnown(fp) /\ Catalogued(kb))'
  BY KnownStays DEF HeldTrue, AllKnown, Catalogued, Outside, Onwards
<1>3. ASSUME version' > 0, NEW f \in Files, Vouched(f)', (fp[f] = Fingerprint[f])'
      PROVE  kb'[f] = View'[f]
  <2>1. UNCHANGED <<kb, fp, version, ignored>>
    BY DEF Outside, Onwards
  <2>2. CASE f \in ignored
    <3>1. View'[f] = NoEntry
      BY <2>1, <2>2 DEF View
    <3>2. QED
      BY <2>1, <2>2, <3>1 DEF ScopeKept, Out
  <2>3. CASE f \notin ignored
    <3>1. Known(fp[f], f) /\ Agrees(fp[f], f)'
      BY <1>3, <2>1, <2>3 DEF HeldTrue, AllKnown, Agrees, Vouched
    <3>2. Agrees(fp[f], f) /\ View'[f] = View[f]
      BY <3>1, AgreedBefore DEF Outside
    <3>3. QED
      BY <1>3, <2>1, <3>2 DEF HeldTrue, GateSound, Agrees, Vouched
  <2>4. QED
    BY <2>2, <2>3
<1>4. QED
  BY <1>1, <1>2, <1>3 DEF HeldTrue, GateSound

LEMMA OutsideKeepsRead ==
    ASSUME TypeOK, TypeOK', HeldTrue, Outside, NEW t \in Threads, ReadTrue(t)
    PROVE  ReadTrue(t)'
<1> USE DEF TypeOK, Catalogs
<1>1. CASE stage'[t] \in {"burst", "want", "idle"}
  BY <1>1 DEF ReadTrue, Later
<1>2. CASE UNCHANGED <<stage[t], full[t], dirty[t]>>
  <2>1. UNCHANGED <<kb, fp, version, snap, todo, acc, built, ignored>>
    BY DEF Outside, Onwards
  <2>2. \A f \in Files : \A h : Known(h, f) => Known(h, f)'
    BY KnownStays DEF Outside
  <2>3. \A f \in Files \ ignored, h \in Entries :
          Known(h, f) /\ Agrees(h, f)'
            => Agrees(h, f) /\ disk'[f] = disk[f] /\ View'[f] = View[f]
    BY AgreedBefore DEF Outside
  <2>4. stage[t] \in Later /\ full[t] => AllKnown(snap[t])'
    BY <1>2, <2>1, <2>2 DEF ReadTrue, AllKnown
  <2>5. stage[t] = "recompute" => Catalogued(acc[t])'
    BY <1>2, <2>1, <2>2 DEF ReadTrue, Catalogued
  <2>6. stage[t] = "confirm" => Catalogued(built[t])'
    BY <1>2, <2>1, <2>2 DEF ReadTrue, Catalogued
  <2>7. ASSUME stage[t] = "build", NEW f \in Files \ ignored, Trusted(t, f),
               Agrees(KnownHash(t, f), f)'
        PROVE  IF f \in todo[t] THEN disk'[f] # Absent ELSE acc[t][f] = View'[f]
    <3>1. KnownHash(t, f)' = KnownHash(t, f)
      BY <1>2, <2>1 DEF KnownHash
    <3>2. KnownHash(t, f) = IF full[t] THEN snap[t][f] ELSE fp[f]
      BY <2>7 DEF KnownHash, Trusted
    <3>3. Known(KnownHash(t, f), f)
      BY <2>7, <3>2 DEF ReadTrue, HeldTrue, AllKnown, Later
    <3>4. KnownHash(t, f) \in Entries
      BY <3>2
    <3>5. Agrees(KnownHash(t, f), f) /\ disk'[f] = disk[f] /\ View'[f] = View[f]
      BY <2>3, <2>7, <3>1, <3>3, <3>4 DEF Agrees
    <3>6. QED
      BY <2>7, <3>5 DEF ReadTrue
  <2>8. ASSUME stage[t] = "confirm", NEW f \in Files \ ignored, Agrees(snap[t][f], f)'
        PROVE  built[t][f] = View'[f]
    <3>1. Known(snap[t][f], f) /\ snap[t][f] \in Entries
      BY <2>8 DEF ReadTrue, AllKnown, Later
    <3>2. Agrees(snap[t][f], f) /\ View'[f] = View[f]
      BY <2>1, <2>3, <2>8, <3>1 DEF Agrees
    <3>3. QED
      BY <2>8, <3>2 DEF ReadTrue
  <2>9. stage[t] = "build" => \A f \in Files \ ignored :
          f \notin todo[t] => acc[t][f] # SizeHash /\ Known(acc[t][f], f)'
    BY <2>1, <2>2 DEF ReadTrue
  <2>10. stage[t] = "fingerprint" =>
           \A f \in (Files \ ignored) \ todo[t] : Known(acc[t][f], f)'
    BY <2>1, <2>2 DEF ReadTrue
  <2>11. stage[t] = "recompute" =>
           /\ todo'[t] \subseteq dirty'[t]
           /\ \A f \in Files \ dirty'[t] : acc'[t][f] = kb'[f]
    BY <1>2, <2>1 DEF ReadTrue
  <2>12. /\ (\/ stage'[t] \in {"splice", "recompute", "settle", "gate", "send"}
             \/ stage'[t] = "build" /\ ~full'[t]) => version' > 0
         /\ stage'[t] \in {"fingerprint", "confirm"} => full'[t]
         /\ stage'[t] \in {"filter", "gate"} => ~full'[t]
    BY <1>2, <2>1 DEF ReadTrue
  <2>13. QED
    BY <1>2, <2>1, <2>4, <2>5, <2>6, <2>7, <2>8, <2>9, <2>10, <2>11, <2>12
    DEF ReadTrue, Trusted, KnownHash, Known, Agrees, View, Fingerprint
<1>3. QED
  BY <1>1, <1>2 DEF Outside

\* A thread that holds no lock has read nothing.
LEMMA IdleReadsTrue ==
    ASSUME NEW u, stage[u] \notin Working
    PROVE  ReadTrue(u)
BY DEF ReadTrue, Working, Later

LEMMA OthersIdle ==
    ASSUME TypeOK, SerialRebuilds, NEW t \in Threads, Rebuild(t)
    PROVE  \A u \in Threads \ {t} : stage[u] \notin Working /\ stage'[u] = stage[u]
<1>1. lock = t \/ lock = NoThread
  BY DEF Rebuild, Acquire, Release, Diff, Filter, Gate, TrySplice, RecomputeDeclines,
         CommitSplice, Settle, BuildFails, CommitScoped, BeginConfirm, CommitFull,
         Retry, Send, ReadForFingerprint, ReadDirty, ReadForBuild, SerialRebuilds,
         Working
<1>2. \A u \in Threads \ {t} : stage'[u] = stage[u]
  BY DEF Rebuild, Acquire, Release, Diff, Filter, Gate, TrySplice, RecomputeDeclines,
         CommitSplice, Settle, BuildFails, CommitScoped, BeginConfirm, CommitFull,
         Retry, Send, ReadForFingerprint, ReadDirty, ReadForBuild, Goto, Decline,
         NextPass, Walk, TypeOK
<1>3. QED
  BY <1>1, <1>2, ConstantsAssumption DEF SerialRebuilds, NoThread

LEMMA DiskStands ==
    ASSUME NEW t \in Threads, Rebuild(t)
    PROVE  UNCHANGED <<disk, ignored, seen>>
BY DEF Rebuild, Acquire, Release, Diff, Filter, Gate, TrySplice, RecomputeDeclines,
       CommitSplice, Settle, BuildFails, CommitScoped, BeginConfirm, CommitFull,
       Retry, Send, ReadForFingerprint, ReadDirty, ReadForBuild, diskVars

LEMMA SameHeld ==
    ASSUME HeldTrue, UNCHANGED <<disk, ignored, seen, kb, fp, version>>
    PROVE  HeldTrue'
BY DEF HeldTrue, GateSound, AllKnown, Catalogued, Known, Vouched, Fingerprint, View

\* A walk for a fingerprint starts with what is not on the disk.
LEMMA WalkKnown ==
    ASSUME TypeOK, HeldTrue, NEW t \in Threads, Walk(t, OnDisk),
           stage'[t] \in {"fingerprint", "confirm"},
           UNCHANGED <<disk, ignored, seen>>
    PROVE  \A f \in Files \ todo'[t] : Known(acc[t][f], f)'
<1>1. todo'[t] = OnDisk /\ acc'[t] = Nothing
  BY DEF Walk, TypeOK
<1>2. ASSUME NEW f \in Files, f \notin OnDisk
      PROVE  Known(NoEntry, f)
  BY <1>2, AbsentIsKnown DEF OnDisk, HeldTrue
<1>3. QED
  BY <1>1, <1>2 DEF Nothing, Known

LEMMA FingerprintBegins ==
    ASSUME TypeOK, HeldTrue, NEW t \in Threads, Walk(t, OnDisk),
           stage'[t] = "fingerprint", full'[t], UNCHANGED <<disk, ignored, seen>>
    PROVE  ReadTrue(t)'
BY WalkKnown DEF ReadTrue, Later

\* A walk for a build starts with what is out of scope or not on the disk.
LEMMA BuildBegins ==
    ASSUME TypeOK, HeldTrue, NEW t \in Threads, Walk(t, OnDisk \ ignored),
           stage'[t] = "build", version > 0 \/ full'[t],
           full'[t] => AllKnown(snap[t])',
           UNCHANGED <<disk, ignored, seen, kb, fp, version>>
    PROVE  ReadTrue(t)'
<1>1. todo'[t] = OnDisk \ ignored /\ acc'[t] = Nothing
  BY DEF Walk, TypeOK
<1>2. ASSUME NEW f \in Files, f \notin OnDisk
      PROVE  NoEntry # SizeHash /\ Known(NoEntry, f) /\ View[f] = NoEntry
  BY <1>2, AbsentIsKnown DEF OnDisk, HeldTrue, View
<1>3. ASSUME NEW f \in Files \ ignored
      PROVE  /\ f \notin todo'[t] => acc'[t][f] # SizeHash /\ Known(acc[t][f], f)'
             /\ IF f \in todo'[t] THEN disk'[f] # Absent ELSE acc'[t][f] = View'[f]
  BY <1>1, <1>2, <1>3 DEF Nothing, Known, OnDisk, View
<1>4. QED
  BY <1>3 DEF ReadTrue, Later

-----------------------------------------------------------------------------
(* The reads of a rebuild.                                                 *)

LEMMA ReadForFingerprintTrue ==
    ASSUME TypeOK, HeldTrue, NEW t \in Threads, ReadTrue(t),
           NEW f \in Files, ReadForFingerprint(t, f)
    PROVE  ReadTrue(t)'
<1> USE DEF TypeOK, Catalogs
<1>1. /\ UNCHANGED <<disk, ignored, seen, kb, fp, version, stage, full, dirty, snap,
                     built>>
      /\ acc'[t] = [acc[t] EXCEPT ![f] = FpOf(f, disk[f])]
      /\ todo'[t] = todo[t] \ {f}
      /\ stage[t] \in {"fingerprint", "confirm"}
  BY DEF ReadForFingerprint, diskVars, heldVars
<1>2. Known(FpOf(f, disk[f]), f)
  BY EntriesAreKnown DEF HeldTrue
<1>3. stage[t] = "fingerprint" =>
        \A g \in (Files \ ignored) \ todo'[t] : Known(acc[t][g], g)'
  BY <1>1, <1>2 DEF ReadTrue, Known
<1>4. stage[t] = "confirm" => Catalogued(built[t])' /\ AllKnown(snap[t])'
  BY <1>1 DEF ReadTrue, Catalogued, AllKnown, Known, Later
<1>5. stage[t] = "confirm" => \A g \in Files \ ignored :
        Agrees(snap[t][g], g)' => built'[t][g] = View'[g]
  BY <1>1 DEF ReadTrue, Agrees, Fingerprint, View
<1>6. QED
  BY <1>1, <1>3, <1>4, <1>5 DEF ReadTrue, Later

LEMMA ReadForBuildTrue ==
    ASSUME TypeOK, HeldTrue, NEW t \in Threads, ReadTrue(t),
           NEW f \in Files, ReadForBuild(t, f), todo[t] \cap ignored = {}
    PROVE  ReadTrue(t)'
<1> USE DEF TypeOK, Catalogs
<1>1. /\ UNCHANGED <<disk, ignored, seen, kb, fp, version, stage, full, dirty, snap>>
      /\ acc'[t] = [acc[t] EXCEPT ![f] = Acquired(t, f)]
      /\ todo'[t] = todo[t] \ {f} /\ f \in todo[t]
      /\ stage[t] = "build"
  BY DEF ReadForBuild, diskVars, heldVars
<1>2. f \in Files \ ignored
  BY <1>1
<1>3. (Acquired(t, f) = kb[f] /\ version > 0) \/ Acquired(t, f) = EntryOf(f, disk[f])
  BY DEF Acquired
<1>4. Acquired(t, f) # SizeHash /\ Known(Acquired(t, f), f)
  BY <1>2, <1>3, EntriesAreKnown DEF HeldTrue, Catalogued
<1>5. ASSUME Trusted(t, f), Agrees(KnownHash(t, f), f)
      PROVE  Acquired(t, f) = View[f]
  <2>1. KnownHash(t, f) \in Entries /\ disk[f] # Absent
    BY <1>1, <1>2, <1>5 DEF ReadTrue, KnownHash, Trusted
  <2>2. View[f] = EntryOf(f, disk[f])
    BY <1>2, <2>1 DEF View
  <2>3. KnownHash(t, f) \in Contents => View[f] = KnownHash(t, f)
    BY <1>2, <1>5, <2>1, AgreesView, ConstantsAssumption
  <2>4. QED
    BY <2>2, <2>3 DEF Acquired
<1>6. ASSUME NEW g \in Files \ ignored
      PROVE  /\ g \notin todo'[t] =>
                  acc'[t][g] # SizeHash /\ Known(acc[t][g], g)'
             /\ (Trusted(t, g) /\ Agrees(KnownHash(t, g), g))' =>
                  IF g \in todo'[t] THEN disk'[g] # Absent ELSE acc'[t][g] = View'[g]
  <2>1. (Trusted(t, g) /\ Agrees(KnownHash(t, g), g))'
          => Trusted(t, g) /\ Agrees(KnownHash(t, g), g)
    BY <1>1 DEF Trusted, Agrees, KnownHash, Fingerprint
  <2>2. View'[g] = View[g] /\ (Known(acc[t][g], g)' <=> Known(acc'[t][g], g))
    BY <1>1 DEF View, Known
  <2>3. CASE g = f
    BY <1>1, <1>2, <1>4, <1>5, <2>1, <2>2, <2>3
  <2>4. CASE g # f
    BY <1>1, <2>1, <2>2, <2>4 DEF ReadTrue
  <2>5. QED
    BY <2>3, <2>4
<1>7. full[t] => AllKnown(snap[t])'
  BY <1>1 DEF ReadTrue, AllKnown, Known, Later
<1>8. ~full'[t] => version' > 0
  BY <1>1 DEF ReadTrue
<1>9. QED
  BY <1>1, <1>6, <1>7, <1>8 DEF ReadTrue

\* A splice that meets what it does not model begins a build, or asks the gate.
LEMMA DeclineTrue ==
    ASSUME TypeOK, HeldTrue, NEW t \in Threads, ReadTrue(t), Decline(t),
           stage[t] \in {"splice", "recompute"},
           UNCHANGED <<disk, ignored, seen, kb, fp, version, full, snap>>
    PROVE  ReadTrue(t)'
<1>1. version > 0
  BY DEF ReadTrue
<1>2. CASE full[t]
  <2>1. full'[t] /\ AllKnown(snap[t])'
    BY <1>2 DEF ReadTrue, AllKnown, Known, Later
  <2>2. Walk(t, OnDisk \ ignored) /\ stage'[t] = "build"
    BY <1>2 DEF Decline, Goto, TypeOK
  <2>3. QED
    BY <1>1, <2>1, <2>2, BuildBegins
<1>3. CASE ~full[t]
  <2>1. stage'[t] = "gate" /\ version' > 0 /\ ~full'[t]
    BY <1>1, <1>3 DEF Decline, Goto, TypeOK
  <2>2. QED
    BY <2>1 DEF ReadTrue, Later
<1>4. QED
  BY <1>2, <1>3

LEMMA ReadDirtyTrue ==
    ASSUME TypeOK, HeldTrue, NEW t \in Threads, ReadTrue(t),
           NEW f \in Files, ReadDirty(t, f), dirty[t] \cap ignored = {}
    PROVE  ReadTrue(t)'
<1> USE DEF TypeOK, Catalogs
<1>1. UNCHANGED <<disk, ignored, seen, kb, fp, version, full, dirty, snap>>
  BY DEF ReadDirty, diskVars, heldVars
<1>2. stage[t] = "recompute" /\ f \in dirty[t] /\ f \in Files \ ignored /\ version > 0
  BY DEF ReadDirty, ReadTrue
<1>3. CASE Refused(f, disk[f])
  BY <1>1, <1>2, <1>3, DeclineTrue DEF ReadDirty
<1>4. CASE ~Refused(f, disk[f])
  <2>1. /\ acc'[t] = [acc[t] EXCEPT ![f] = Spliced(f, disk[f])]
        /\ todo'[t] = todo[t] \ {f} /\ stage' = stage
    BY <1>4 DEF ReadDirty
  <2>2. Spliced(f, disk[f]) # SizeHash /\ Known(Spliced(f, disk[f]), f)
    <3>1. CASE disk[f] = Absent
      BY <3>1, AbsentIsKnown DEF Spliced, HeldTrue
    <3>2. CASE kb[f] = NoEntry
      <4>1. NoEntry # SizeHash /\ Known(NoEntry, f)
        BY <1>2, <3>2 DEF HeldTrue, Catalogued
      <4>2. QED
        BY <4>1, EntriesAreKnown DEF Spliced, HeldTrue
    <3>3. CASE disk[f] # Absent /\ kb[f] # NoEntry
      BY <3>3, EntriesAreKnown DEF Spliced, HeldTrue
    <3>4. QED
      BY <3>1, <3>2, <3>3
  <2>3. Catalogued(acc[t])'
    BY <1>1, <1>2, <2>1, <2>2 DEF ReadTrue, Catalogued, Known
  <2>4. \A g \in Files \ dirty'[t] : acc'[t][g] = kb'[g]
    BY <1>1, <1>2, <2>1 DEF ReadTrue
  <2>5. full'[t] => AllKnown(snap[t])'
    BY <1>1, <1>2 DEF ReadTrue, AllKnown, Known, Later
  <2>6. QED
    BY <1>1, <1>2, <2>1, <2>3, <2>4, <2>5 DEF ReadTrue
<1>5. QED
  BY <1>3, <1>4

-----------------------------------------------------------------------------
(* The swaps of a rebuild.                                                 *)

\* What a splice or a scoped build records of the paths it was told of is what
\* it catalogs of them; a catalog entry that agrees with the disk is the right
\* one.
LEMMA CatalogAgrees ==
    ASSUME TypeOK, NEW f \in Files \ ignored, NEW h \in Entries,
           h # SizeHash, Agrees(h, f)
    PROVE  View[f] = h
BY AgreesView

LEMMA ExcludedHeld ==
    ASSUME NEW f \in Files, f \in ignored
    PROVE  View[f] = NoEntry
BY DEF View

\* Held state that was swapped in passes the gate when each entry does.
LEMMA SwappedTrue ==
    ASSUME TypeOK, TypeOK', HeldTrue, ScopeKept',
           UNCHANGED <<disk, ignored, seen>>,
           \A f \in Files \ ignored :
             /\ Known(fp[f], f)' /\ kb'[f] # SizeHash /\ Known(kb[f], f)'
             /\ Agrees(fp[f], f)' => kb'[f] = View'[f]
    PROVE  HeldTrue'
<1>1. (AllKnown(fp) /\ Catalogued(kb))'
  BY DEF AllKnown, Catalogued
<1>2. ASSUME NEW f \in Files, (Vouched(f) /\ fp[f] = Fingerprint[f])'
      PROVE  kb'[f] = View'[f]
  <2>1. CASE f \in ignored
    BY <2>1 DEF ScopeKept, Out, View
  <2>2. CASE f \notin ignored
    BY <1>2, <2>2 DEF Vouched, Agrees
  <2>3. QED
    BY <2>1, <2>2
<1>3. \A f \in Files : disk'[f] \in seen'[f]
  BY DEF HeldTrue
<1>4. QED
  BY <1>1, <1>2, <1>3 DEF HeldTrue, GateSound

LEMMA CommitSpliceTrue ==
    ASSUME TypeOK, TypeOK', ScopeKept', HeldTrue, NEW t \in Threads, ReadTrue(t),
           CommitSplice(t)
    PROVE  HeldTrue' /\ ReadTrue(t)'
<1> USE DEF TypeOK, Catalogs
<1>1. /\ UNCHANGED <<disk, ignored, seen, full, dirty, snap>>
      /\ kb' = acc[t] /\ fp' = UpdatedFingerprint(fp, dirty[t], acc[t])
      /\ version' = version + 1 /\ stage'[t] = "send" /\ stage[t] = "recompute"
  BY DEF CommitSplice, Swap, Goto, diskVars
<1>2. version > 0
  BY <1>1 DEF ReadTrue
<1>3. ASSUME NEW f \in Files \ ignored
      PROVE  /\ Known(fp[f], f)' /\ kb'[f] # SizeHash /\ Known(kb[f], f)'
             /\ Agrees(fp[f], f)' => kb'[f] = View'[f]
  <2>1. acc[t][f] # SizeHash /\ Known(acc[t][f], f)
    BY <1>1 DEF ReadTrue, Catalogued
  <2>2. View'[f] = View[f] /\ Fingerprint'[f] = Fingerprint[f]
    BY <1>1 DEF View, Fingerprint
  <2>3. CASE f \in dirty[t]
    <3>1. fp'[f] = acc[t][f] /\ kb'[f] = acc[t][f]
      BY <1>1, <2>3 DEF UpdatedFingerprint
    <3>2. Agrees(acc[t][f], f) => View[f] = acc[t][f]
      BY <2>1, CatalogAgrees
    <3>3. QED
      BY <1>1, <2>1, <2>2, <3>1, <3>2 DEF Known, Agrees
  <2>4. CASE f \notin dirty[t]
    <3>1. fp'[f] = fp[f] /\ kb'[f] = kb[f]
      BY <1>1, <2>4 DEF UpdatedFingerprint, ReadTrue
    <3>2. QED
      BY <1>1, <1>2, <2>1, <2>2, <3>1
      DEF HeldTrue, GateSound, AllKnown, Catalogued, Known, Agrees, Vouched
  <2>5. QED
    BY <2>3, <2>4
<1>4. HeldTrue'
  BY <1>1, <1>3, SwappedTrue
<1>5. full'[t] => AllKnown(snap[t])'
  BY <1>1 DEF ReadTrue, AllKnown, Known, Later
<1>6. QED
  BY <1>1, <1>4, <1>5 DEF ReadTrue

LEMMA CommitScopedTrue ==
    ASSUME TypeOK, TypeOK', ScopeKept', HeldTrue, NEW t \in Threads, ReadTrue(t),
           CommitScoped(t)
    PROVE  HeldTrue' /\ ReadTrue(t)'
<1> USE DEF TypeOK, Catalogs
<1>1. /\ UNCHANGED <<disk, ignored, seen, full, dirty, snap>>
      /\ kb' = acc[t] /\ fp' = UpdatedFingerprint(fp, dirty[t], acc[t])
      /\ version' = version + 1 /\ stage'[t] = "send" /\ stage[t] = "build"
      /\ todo[t] = {} /\ ~full[t]
  BY DEF CommitScoped, Swap, Goto, diskVars, jobVars
<1>2. version > 0
  BY <1>1 DEF ReadTrue
<1>3. ASSUME NEW f \in Files \ ignored
      PROVE  /\ Known(fp[f], f)' /\ kb'[f] # SizeHash /\ Known(kb[f], f)'
             /\ Agrees(fp[f], f)' => kb'[f] = View'[f]
  <2>1. acc[t][f] # SizeHash /\ Known(acc[t][f], f)
    BY <1>1 DEF ReadTrue
  <2>2. View'[f] = View[f] /\ Fingerprint'[f] = Fingerprint[f]
    BY <1>1 DEF View, Fingerprint
  <2>3. CASE f \in dirty[t]
    <3>1. fp'[f] = acc[t][f] /\ kb'[f] = acc[t][f]
      BY <1>1, <2>3 DEF UpdatedFingerprint
    <3>2. Agrees(acc[t][f], f) => View[f] = acc[t][f]
      BY <2>1, CatalogAgrees
    <3>3. QED
      BY <1>1, <2>1, <2>2, <3>1, <3>2 DEF Known, Agrees
  <2>4. CASE f \notin dirty[t]
    <3>1. fp'[f] = fp[f] /\ kb'[f] = acc[t][f]
      BY <1>1, <2>4 DEF UpdatedFingerprint
    <3>2. Known(fp[f], f)
      BY <1>2 DEF HeldTrue, AllKnown
    <3>3. Agrees(fp[f], f) => acc[t][f] = View[f]
      BY <1>1, <2>4 DEF ReadTrue, Trusted, KnownHash
    <3>4. QED
      BY <1>1, <2>1, <2>2, <3>1, <3>2, <3>3 DEF Known, Agrees
  <2>5. QED
    BY <2>3, <2>4
<1>4. HeldTrue'
  BY <1>1, <1>3, SwappedTrue
<1>5. QED
  BY <1>1, <1>4 DEF ReadTrue

LEMMA CommitFullTrue ==
    ASSUME TypeOK, TypeOK', ScopeKept', HeldTrue, NEW t \in Threads, ReadTrue(t),
           CommitFull(t)
    PROVE  HeldTrue' /\ ReadTrue(t)'
<1> USE DEF TypeOK, Catalogs
<1>1. /\ UNCHANGED <<disk, ignored, seen, full, dirty, snap, built>>
      /\ kb' = built[t] /\ fp' = snap[t]
      /\ version' = version + 1 /\ stage'[t] = "send" /\ stage[t] = "confirm"
  BY DEF CommitFull, Swap, Goto, diskVars
<1>2. full[t] /\ AllKnown(snap[t])
  BY <1>1 DEF ReadTrue, Later
<1>3. ASSUME NEW f \in Files \ ignored
      PROVE  /\ Known(fp[f], f)' /\ kb'[f] # SizeHash /\ Known(kb[f], f)'
             /\ Agrees(fp[f], f)' => kb'[f] = View'[f]
  <2>1. built[t][f] # SizeHash /\ Known(built[t][f], f) /\ Known(snap[t][f], f)
    BY <1>1, <1>2 DEF ReadTrue, Catalogued, AllKnown
  <2>2. View'[f] = View[f] /\ Fingerprint'[f] = Fingerprint[f]
    BY <1>1 DEF View, Fingerprint
  <2>3. Agrees(snap[t][f], f) => built[t][f] = View[f]
    BY <1>1 DEF ReadTrue
  <2>4. QED
    BY <1>1, <2>1, <2>2, <2>3 DEF Known, Agrees
<1>4. HeldTrue'
  BY <1>1, <1>3, SwappedTrue
<1>5. AllKnown(snap[t])'
  BY <1>1, <1>2 DEF AllKnown, Known
<1>6. QED
  BY <1>1, <1>4, <1>5 DEF ReadTrue

-----------------------------------------------------------------------------
(* The other steps, and the theorem.                                       *)

LEMMA NextPassTrue ==
    ASSUME TypeOK, HeldTrue, NEW t \in Threads, NextPass(t), full'[t],
           UNCHANGED <<disk, ignored, seen>>
    PROVE  ReadTrue(t)'
<1>1. CASE passes[t] < MaxPasses
  BY <1>1, FingerprintBegins DEF NextPass, Goto, TypeOK
<1>2. CASE ~(passes[t] < MaxPasses)
  BY <1>2 DEF NextPass, Goto, TypeOK, ReadTrue, Later
<1>3. QED
  BY <1>1, <1>2

LEMMA QuietStepTrue ==
    ASSUME TypeOK, ScopeKept, HeldTrue, NEW t \in Threads, ReadTrue(t), Rebuild(t),
           ~CommitSplice(t), ~CommitScoped(t), ~CommitFull(t)
    PROVE  UNCHANGED <<kb, fp, version>> /\ ReadTrue(t)'
<1>0. UNCHANGED <<disk, ignored, seen>>
  BY DiskStands
<1>1. CASE Acquire(t)
  <2>1. UNCHANGED <<kb, fp, version, full>>
    BY <1>1 DEF Acquire, heldVars
  <2>2. CASE full[t]
    BY <1>0, <1>1, <2>1, <2>2, FingerprintBegins DEF Acquire, Goto, TypeOK
  <2>3. CASE ~full[t]
    <3>1. stage'[t] = "filter"
      BY <1>1, <2>3 DEF Acquire, Goto, TypeOK
    <3>2. QED
      BY <2>1, <2>3, <3>1 DEF ReadTrue, Later
  <2>4. QED
    BY <2>1, <2>2, <2>3
<1>2. CASE Release(t)
  BY <1>2 DEF Release, heldVars, ReadTrue, Later, TypeOK
<1>3. CASE Diff(t)
  <2>1. /\ UNCHANGED <<kb, fp, version, full>> /\ snap'[t] = acc[t]
        /\ stage[t] = "fingerprint" /\ todo[t] = {} /\ full[t]
    BY <1>3 DEF Diff, heldVars, ReadTrue, TypeOK
  <2>2. AllKnown(snap[t])'
    BY <1>0, <2>1 DEF AllKnown, ReadTrue, Known
  <2>3. \/ stage'[t] = "done"
        \/ stage'[t] = "splice" /\ version > 0
        \/ stage'[t] = "build" /\ Walk(t, OnDisk \ ignored)
    BY <1>3 DEF Diff, Goto, TypeOK
  <2>4. CASE stage'[t] = "build" /\ Walk(t, OnDisk \ ignored)
    BY <1>0, <2>1, <2>2, <2>4, BuildBegins
  <2>5. CASE stage'[t] = "done" \/ (stage'[t] = "splice" /\ version > 0)
    BY <2>1, <2>2, <2>5 DEF ReadTrue, Later
  <2>6. QED
    BY <2>1, <2>3, <2>4, <2>5
<1>4. CASE Filter(t)
  <2>1. UNCHANGED <<kb, fp, version, snap>> /\ stage[t] = "filter"
    BY <1>4 DEF Filter, heldVars
  <2>2. CASE version = 0
    BY <1>0, <1>4, <2>1, <2>2, FingerprintBegins DEF Filter, Goto, TypeOK
  <2>3. CASE version # 0
    <3>1. stage'[t] \in {"done", "splice"} /\ version' > 0 /\ UNCHANGED full
      BY <1>4, <2>1, <2>3 DEF Filter, Goto, TypeOK
    <3>2. ~full[t]
      BY <2>1 DEF ReadTrue
    <3>3. QED
      BY <2>1, <3>1, <3>2 DEF ReadTrue, Later
  <2>4. QED
    BY <2>1, <2>2, <2>3
<1>5. CASE Gate(t)
  <2>1. UNCHANGED <<kb, fp, version, full, snap>> /\ stage[t] = "gate" /\ version > 0
        /\ ~full[t]
    BY <1>5 DEF Gate, heldVars, ReadTrue
  <2>2. \/ stage'[t] = "done"
        \/ stage'[t] = "build" /\ Walk(t, OnDisk \ ignored)
    BY <1>5 DEF Gate, Goto, TypeOK
  <2>3. QED
    BY <1>0, <2>1, <2>2, BuildBegins DEF ReadTrue, Later
<1>6. CASE TrySplice(t)
  <2>1. UNCHANGED <<kb, fp, version, full, snap, dirty>> /\ stage[t] = "splice"
    BY <1>6 DEF TrySplice, heldVars
  <2>2. version > 0 /\ (full[t] => AllKnown(snap[t])')
    BY <1>0, <2>1 DEF ReadTrue, AllKnown, Known, Later
  <2>3. \/ Decline(t)
        \/ stage'[t] \in {"settle", "done"}
        \/ stage'[t] = "recompute" /\ todo'[t] = dirty[t] \cap Files /\ acc'[t] = kb
    BY <1>6 DEF TrySplice, Goto, TypeOK
  <2>4. CASE Decline(t)
    BY <1>0, <2>1, <2>4, DeclineTrue
  <2>5. CASE stage'[t] \in {"settle", "done"}
    BY <2>1, <2>2, <2>5 DEF ReadTrue, Later
  <2>6. CASE stage'[t] = "recompute" /\ todo'[t] = dirty[t] \cap Files /\ acc'[t] = kb
    <3>1. Catalogued(acc[t])'
      BY <1>0, <2>2, <2>6 DEF HeldTrue, Catalogued, Known
    <3>2. QED
      BY <2>1, <2>2, <2>6, <3>1 DEF ReadTrue, Later
  <2>7. QED
    BY <2>1, <2>3, <2>4, <2>5, <2>6
<1>7. CASE RecomputeDeclines(t)
  BY <1>0, <1>7, DeclineTrue DEF RecomputeDeclines, heldVars
<1>8. CASE Settle(t)
  <2>1. UNCHANGED <<kb, fp, version, full, snap>> /\ stage[t] = "settle"
        /\ stage'[t] \in {"done", "splice"}
    BY <1>8 DEF Settle, heldVars, Goto, TypeOK
  <2>2. version > 0 /\ (full[t] => AllKnown(snap[t])')
    BY <1>0, <2>1 DEF ReadTrue, AllKnown, Known, Later
  <2>3. QED
    BY <2>1, <2>2 DEF ReadTrue, Later
<1>9. CASE BuildFails(t)
  <2>1. UNCHANGED <<kb, fp, version>>
    BY <1>9 DEF BuildFails, heldVars
  <2>2. CASE full[t]
    BY <1>0, <1>9, <2>1, <2>2, NextPassTrue DEF BuildFails
  <2>3. CASE ~full[t]
    BY <1>0, <1>9, <2>1, <2>3, FingerprintBegins DEF BuildFails, Goto, TypeOK
  <2>4. QED
    BY <2>1, <2>2, <2>3
<1>10. CASE BeginConfirm(t)
  <2>1. /\ UNCHANGED <<kb, fp, version, full, dirty, snap>> /\ built'[t] = acc[t]
        /\ stage[t] = "build" /\ stage'[t] = "confirm" /\ todo[t] = {} /\ full[t]
    BY <1>10 DEF BeginConfirm, heldVars, Goto, TypeOK
  <2>2. AllKnown(snap[t])' /\ Catalogued(built[t])'
    BY <1>0, <2>1 DEF ReadTrue, AllKnown, Catalogued, Known, Later
  <2>3. ASSUME NEW f \in Files \ ignored, Agrees(snap[t][f], f)'
        PROVE  built'[t][f] = View'[f]
    <3>1. Agrees(KnownHash(t, f), f) /\ Trusted(t, f) /\ View'[f] = View[f]
      BY <1>0, <2>1, <2>3 DEF Agrees, KnownHash, Trusted, View, Fingerprint
    <3>2. QED
      BY <2>1, <3>1 DEF ReadTrue
  <2>4. QED
    BY <1>0, <2>1, <2>2, <2>3 DEF ReadTrue, Later
<1>11. CASE Retry(t)
  BY <1>0, <1>11, NextPassTrue DEF Retry, ReadTrue, heldVars
<1>12. CASE Send(t)
  <2>1. UNCHANGED <<kb, fp, version, full, snap>> /\ stage[t] = "send"
        /\ stage'[t] \in {"settle", "done"}
    BY <1>12 DEF Send, heldVars, jobVars, Goto, TypeOK
  <2>2. version > 0 /\ (full[t] => AllKnown(snap[t])')
    BY <1>0, <2>1 DEF ReadTrue, AllKnown, Known, Later
  <2>3. QED
    BY <2>1, <2>2 DEF ReadTrue, Later
<1>13. ASSUME NEW f \in Files, ReadForFingerprint(t, f)
       PROVE  UNCHANGED <<kb, fp, version>> /\ ReadTrue(t)'
  BY <1>13, ReadForFingerprintTrue DEF ReadForFingerprint, heldVars
<1>14. ASSUME NEW f \in Files, ReadDirty(t, f)
       PROVE  UNCHANGED <<kb, fp, version>> /\ ReadTrue(t)'
  BY <1>14, ReadDirtyTrue DEF ReadDirty, heldVars, ScopeKept
<1>15. ASSUME NEW f \in Files, ReadForBuild(t, f)
       PROVE  UNCHANGED <<kb, fp, version>> /\ ReadTrue(t)'
  BY <1>15, ReadForBuildTrue DEF ReadForBuild, heldVars, ScopeKept
<1>16. QED
  BY <1>1, <1>2, <1>3, <1>4, <1>5, <1>6, <1>7, <1>8, <1>9, <1>10, <1>11, <1>12,
     <1>13, <1>14, <1>15 DEF Rebuild

LEMMA GateInit == TypeOK /\ Init => GateInv
BY ConstantsAssumption
DEF Init, GateInv, HeldTrue, GateSound, ReadTrue, Later

LEMMA GateNext ==
    ASSUME Rescopes = {}, CanReturn = FALSE, TypeOK, TypeOK', SerialRebuilds,
           ScopeKept, ScopeKept', GateInv, [Next]_vars
    PROVE  GateInv'
<1>1. CASE \/ Environment \/ (\E e \in inbox : Receive(e)) \/ Quiesce
           \/ IdleReconcile \/ NewRequest \/ Respond
  <2>1. Outside
    BY <1>1, OutsideSteps DEF GateInv, HeldTrue
  <2>2. QED
    BY <2>1, OutsideKeepsHeld, OutsideKeepsRead DEF GateInv
<1>2. ASSUME NEW t \in Threads, Rebuild(t)
      PROVE  GateInv'
  <2>1. HeldTrue' /\ ReadTrue(t)'
    <3>1. CASE CommitSplice(t) \/ CommitScoped(t) \/ CommitFull(t)
      BY <3>1, CommitSpliceTrue, CommitScopedTrue, CommitFullTrue DEF GateInv
    <3>2. CASE ~(CommitSplice(t) \/ CommitScoped(t) \/ CommitFull(t))
      BY <1>2, <3>2, QuietStepTrue, DiskStands, SameHeld DEF GateInv
    <3>3. QED
      BY <3>1, <3>2
  <2>2. ASSUME NEW u \in Threads \ {t}
        PROVE  ReadTrue(u)'
    <3>1. stage'[u] \notin Working
      BY <1>2, OthersIdle
    <3>2. QED
      BY <3>1 DEF ReadTrue, Working, Later
  <2>3. QED
    BY <2>1, <2>2 DEF GateInv
<1>3. CASE UNCHANGED vars
  <2>1. Outside
    BY <1>3 DEF vars, Outside, Onwards, GateInv, HeldTrue
  <2>2. QED
    BY <2>1, OutsideKeepsHeld, OutsideKeepsRead DEF GateInv
<1>4. QED
  BY <1>1, <1>2, <1>3, ConstantsAssumption DEF Next, Watcher, Writer

LEMMA GateIsKept ==
    ASSUME Rescopes = {}, CanReturn = FALSE PROVE Spec => []GateInv
<1>1. /\ TypeOK /\ TypeOK' /\ SerialRebuilds /\ ScopeKept /\ ScopeKept'
      /\ GateInv /\ [Next]_vars
      => GateInv'
  BY GateNext
<1>2. Spec => [](TypeOK /\ SerialRebuilds /\ ScopeKept)
  BY TypeCorrect, RebuildsAreSerial, ScopeIsKept, PTL
<1> QED
  BY <1>1, <1>2, GateInit, PTL DEF Spec

\* However the disk changes between the two fingerprints and the reads of a
\* rebuild, a path whose recorded hash is what a fresh fingerprint would hold
\* is held as a fresh build would hold it (rebuild_locked's early return), as
\* long as no file returns to a state it has left: the code compares hashes.
\* An entry without a hash (a file that could not be read, or that was gone
\* when the walk came to it) is excepted: it vouches for nothing (Vouched).
THEOREM GateIsSound ==
    ASSUME Rescopes = {}, CanReturn = FALSE PROVE Spec => []GateSound
<1>1. GateInv => GateSound
  BY DEF GateInv, HeldTrue
<1> QED
  BY <1>1, GateIsKept, PTL

-----------------------------------------------------------------------------
(* A full rebuild during which the disk stands still.                      *)

LEMMA QuietInit == Init => QuietInv
BY DEF Init, QuietInv

\* A step outside the rebuilds disturbs a quiet rebuild or leaves all it has
\* read and is to read as it was.
LEMMA QuietOutside ==
    ASSUME Rescopes = {}, TypeOK, QuietInv,
           \/ Environment \/ (\E e \in inbox : Receive(e)) \/ Quiesce
           \/ IdleReconcile \/ NewRequest \/ Respond,
           Outside
    PROVE  QuietInv'
<1>1. \/ \A t \in Threads : ~quiet'[t]
      \/ UNCHANGED <<disk, quiet>>
  <2>1. ASSUME NEW newDisk, NEW events, ChangeDisk(newDisk, events)
        PROVE  \A t \in Threads : ~quiet'[t]
    BY <2>1 DEF ChangeDisk
  <2>2. CASE Environment
    BY <2>1, <2>2 DEF Environment, ExternalWrite, Touch, RemoveDirectory, EditIgnores,
                      Overflow, FlagRescan, LoseEvent
  <2>3. CASE (\E e \in inbox : Receive(e)) \/ Quiesce \/ IdleReconcile
               \/ NewRequest \/ Respond
    BY <2>1, <2>3 DEF Receive, Quiesce, IdleReconcile, NewRequest, MutateFile,
                      SetIgnores, Register, Respond, diskVars
  <2>4. QED
    BY <2>2, <2>3
<1>2. ASSUME UNCHANGED <<disk, quiet>>, NEW t \in Threads, quiet[t]
      PROVE  ReadQuietly(t)'
  <2>1. UNCHANGED <<kb, fp, version, snap, todo, acc, built, passes, ignored>>
    BY DEF Outside, Onwards
  <2>2. CASE stage'[t] \in {"burst", "want", "idle"}
    BY <2>2 DEF ReadQuietly, Later
  <2>3. CASE UNCHANGED <<stage[t], full[t], dirty[t]>>
    <3>1. View' = View /\ Fingerprint' = Fingerprint
      BY <1>2, <2>1 DEF View, Fingerprint
    <3>2. \A f \in Files : Caught(f)' <=> Caught(f)
      BY <2>1, <3>1 DEF Caught, Vouched
    <3>3. ReadQuietly(t)
      BY <1>2 DEF QuietInv
    <3>4. AllCaught' <=> AllCaught
      BY <3>2 DEF AllCaught
    <3>5. QED
      BY <1>2, <2>1, <2>3, <3>1, <3>2, <3>3, <3>4 DEF ReadQuietly, Later
  <2>4. QED
    BY <2>2, <2>3 DEF Outside
<1>3. QED
  BY <1>1, <1>2 DEF QuietInv

\* What the confirm of a splice does not find moving, it has caught up with.
LEMMA StillIsCaught ==
    ASSUME TypeOK, GateSound, version > 0, NEW f \in Files, ~PathChanged(f, fp)
    PROVE  Caught(f)
<1>1. ASSUME Vouched(f)
      PROVE  fp[f] = Fingerprint[f]
  <2>1. fp[f] \in Entries /\ disk[f] \in DiskStates
    BY DEF TypeOK, Catalogs
  <2>2. fp[f] # Unread
    BY <1>1 DEF Vouched
  <2>3. CASE BuildReadsContent(f)
    BY <1>1, <2>1, <2>2, <2>3, ConstantsAssumption
    DEF PathChanged, FreshHash, RecordedContent, Fingerprint, FpOf, Entries, Vouched,
        DiskStates, Absent, Unreadable, Oversize, Unread, NoEntry, SizeHash, Whole
  <2>4. CASE ~BuildReadsContent(f)
    BY <1>1, <2>1, <2>2, <2>4
    DEF PathChanged, Fingerprint, FpOf, Vouched, Absent
  <2>5. QED
    BY <2>3, <2>4
<1>2. QED
  BY <1>1 DEF GateSound, Caught

\* What the diff leaves out, the held state already agrees with.
LEMMA SameIsCaught ==
    ASSUME TypeOK, GateSound, version > 0, NEW f \in Files, fp[f] = Fingerprint[f]
    PROVE  Caught(f)
BY DEF GateSound, Caught

LEMMA ExcludedIsCaught ==
    ASSUME ScopeKept, NEW f \in Files, f \in ignored
    PROVE  Caught(f)
BY DEF ScopeKept, Out, View, Caught

\* A catalog that is the view has caught up with everything.
LEMMA ViewIsCaught ==
    ASSUME \A f \in Files : disk[f] # Unreadable => kb[f] = View[f], TypeOK
    PROVE  AllCaught
<1>1. \A f \in Files : Vouched(f) => disk[f] # Unreadable
  BY DEF Vouched, Fingerprint, FpOf, Unreadable, Absent
<1>2. QED
  BY <1>1 DEF AllCaught, Caught

\* Diff filters only what is excluded: a fingerprint knows no directories.
LEMMA DiffOfFiles ==
    ASSUME NEW fresh
    PROVE  ExpandRemovedDirectories(ScopeFilterDirty(FingerprintDiff(fp, fresh)))
             = FingerprintDiff(fp, fresh) \ ignored
BY ConstantsAssumption DEF ExpandRemovedDirectories, ScopeFilterDirty, FingerprintDiff

LEMMA QuietFingerprintBegins ==
    ASSUME TypeOK, NEW t \in Threads, Walk(t, OnDisk), stage'[t] = "fingerprint",
           UNCHANGED <<disk, ignored>>
    PROVE  ReadQuietly(t)'
<1>1. todo'[t] = OnDisk /\ acc'[t] = Nothing
  BY DEF Walk, TypeOK
<1>2. QED
  BY <1>1 DEF ReadQuietly, Later, Nothing, OnDisk, Fingerprint

LEMMA QuietBuildBegins ==
    ASSUME TypeOK, NEW t \in Threads, Walk(t, OnDisk \ ignored), stage'[t] = "build",
           full'[t] => snap'[t] = Fingerprint, UNCHANGED <<disk, ignored>>
    PROVE  ReadQuietly(t)'
<1>1. todo'[t] = OnDisk \ ignored /\ acc'[t] = Nothing
  BY DEF Walk, TypeOK
<1>2. Fingerprint' = Fingerprint
  BY DEF Fingerprint
<1>3. \A f \in Files : IF f \in todo'[t] THEN disk'[f] # Absent /\ f \notin ignored'
                       ELSE acc'[t][f] = View'[f]
  BY <1>1 DEF Nothing, OnDisk, View
<1>4. QED
  BY <1>2, <1>3 DEF ReadQuietly, Later

LEMMA QuietDecline ==
    ASSUME TypeOK, NEW t \in Threads, ReadQuietly(t), Decline(t),
           stage[t] \in {"splice", "recompute"},
           UNCHANGED <<disk, ignored, full, snap>>
    PROVE  ReadQuietly(t)'
<1>1. CASE full[t]
  BY <1>1, QuietBuildBegins DEF Decline, Goto, TypeOK, ReadQuietly, Later
<1>2. CASE ~full[t]
  <2>1. stage'[t] = "gate"
    BY <1>2 DEF Decline, Goto, TypeOK
  <2>2. QED
    BY <2>1 DEF ReadQuietly, Later
<1>3. QED
  BY <1>1, <1>2

LEMMA QuietNextPass ==
    ASSUME TypeOK, NEW t \in Threads, NextPass(t), UNCHANGED <<disk, ignored>>
    PROVE  ReadQuietly(t)'
<1>1. CASE passes[t] < MaxPasses
  BY <1>1, QuietFingerprintBegins DEF NextPass, Goto, TypeOK
<1>2. CASE ~(passes[t] < MaxPasses)
  <2>1. stage'[t] = "done" /\ passes'[t] = MaxPasses + 1
    BY <1>2 DEF NextPass, Goto, TypeOK
  <2>2. ~(passes'[t] <= MaxPasses)
    BY <2>1, ConstantsAssumption
  <2>3. QED
    BY <2>1, <2>2 DEF ReadQuietly, Later
<1>3. QED
  BY <1>1, <1>2

LEMMA QuietReads ==
    ASSUME TypeOK, TypeOK', ScopeKept, NEW t \in Threads, ReadQuietly(t), NEW f \in Files,
           ReadForFingerprint(t, f) \/ ReadDirty(t, f) \/ ReadForBuild(t, f)
    PROVE  ReadQuietly(t)'
<1> USE DEF TypeOK, Catalogs
<1>1. /\ UNCHANGED <<disk, ignored, kb, fp, version, full, dirty, snap, built>>
      /\ View' = View /\ Fingerprint' = Fingerprint
  BY DEF ReadForFingerprint, ReadDirty, ReadForBuild, diskVars, heldVars, View,
         Fingerprint
<1>2. \A g \in Files : Caught(g)' <=> Caught(g)
  BY <1>1 DEF Caught, Vouched
<1>3. CASE ReadForFingerprint(t, f)
  <2>1. /\ acc'[t] = [acc[t] EXCEPT ![f] = FpOf(f, disk[f])]
        /\ todo'[t] = todo[t] \ {f} /\ f \in todo[t] /\ stage' = stage
        /\ stage[t] \in {"fingerprint", "confirm"}
    BY <1>3 DEF ReadForFingerprint
  <2>2. FpOf(f, disk[f]) = Fingerprint[f]
    BY <2>1 DEF ReadQuietly, Fingerprint
  <2>3. \A g \in Files : IF g \in todo'[t] THEN disk'[g] # Absent
                         ELSE acc'[t][g] = Fingerprint'[g]
    BY <1>1, <2>1, <2>2 DEF ReadQuietly
  <2>4. /\ full'[t] /\ stage'[t] \in Later => snap'[t] = Fingerprint'
        /\ stage'[t] = "confirm" => built'[t] = View'
    BY <1>1, <2>1 DEF ReadQuietly
  <2>5. QED
    BY <2>1, <2>3, <2>4 DEF ReadQuietly
<1>4. CASE ReadDirty(t, f)
  <2>1. stage[t] = "recompute" /\ f \in todo[t] /\ todo[t] \cap ignored = {}
    BY <1>4 DEF ReadDirty, ScopeKept
  <2>2. CASE Refused(f, disk[f])
    BY <1>1, <1>4, <2>1, <2>2, QuietDecline DEF ReadDirty
  <2>3. CASE ~Refused(f, disk[f])
    <3>1. /\ acc'[t] = [acc[t] EXCEPT ![f] = Spliced(f, disk[f])]
          /\ todo'[t] = todo[t] \ {f} /\ stage' = stage
      BY <1>4, <2>3 DEF ReadDirty
    <3>2. disk[f] # Unreadable => Spliced(f, disk[f]) = View[f]
      BY <2>1 DEF Spliced, View
    <3>3. full[t] => \A g \in (Files \cap dirty'[t]) \ todo'[t] :
            disk'[g] # Unreadable => acc'[t][g] = View'[g]
      BY <1>1, <2>1, <3>1, <3>2 DEF ReadQuietly
    <3>4. full[t] => /\ \A g \in Files \ dirty'[t] : Caught(g)'
                     /\ snap'[t] = Fingerprint'
      BY <1>1, <1>2, <2>1, <3>1 DEF ReadQuietly, Later
    <3>5. QED
      BY <1>1, <2>1, <3>1, <3>3, <3>4 DEF ReadQuietly
  <2>4. QED
    BY <2>2, <2>3
<1>5. CASE ReadForBuild(t, f)
  <2>1. /\ acc'[t] = [acc[t] EXCEPT ![f] = Acquired(t, f)]
        /\ todo'[t] = todo[t] \ {f} /\ f \in todo[t] /\ stage' = stage
        /\ stage[t] = "build"
    BY <1>5 DEF ReadForBuild
  <2>2. CASE ~full[t]
    BY <1>1, <2>1, <2>2 DEF ReadQuietly, Later
  <2>3. CASE full[t]
    <3>1. snap[t] = Fingerprint /\ disk[f] # Absent /\ f \notin ignored
      BY <2>1, <2>3 DEF ReadQuietly, Later
    <3>2. View[f] = EntryOf(f, disk[f])
      BY <3>1 DEF View
    <3>3. KnownHash(t, f) = Fingerprint[f] /\ Fingerprint[f] \in Entries
      BY <2>3, <3>1 DEF KnownHash
    <3>4. Fingerprint[f] \in Contents => View[f] = Fingerprint[f]
      <4>1. Fingerprint[f] \in Contents => Agrees(Fingerprint[f], f)
                                           /\ Fingerprint[f] # SizeHash
        BY ConstantsAssumption DEF Agrees
      <4>2. QED
        BY <3>1, <3>3, <4>1, AgreesView
    <3>5. Acquired(t, f) = View[f]
      BY <3>2, <3>3, <3>4 DEF Acquired
    <3>6. \A g \in Files : IF g \in todo'[t] THEN disk'[g] # Absent /\ g \notin ignored'
                           ELSE acc'[t][g] = View'[g]
      BY <1>1, <2>1, <2>3, <3>5 DEF ReadQuietly
    <3>7. QED
      BY <1>1, <2>1, <3>1, <3>6 DEF ReadQuietly
  <2>4. QED
    BY <2>2, <2>3
<1>6. QED
  BY <1>3, <1>4, <1>5

LEMMA QuietCommits ==
    ASSUME TypeOK, TypeOK', ScopeKept, NEW t \in Threads, ReadTrue(t), ReadQuietly(t),
           CommitSplice(t) \/ CommitScoped(t) \/ CommitFull(t)
    PROVE  ReadQuietly(t)'
<1> USE DEF TypeOK, Catalogs
<1>0. /\ UNCHANGED <<disk, ignored, full, dirty, snap>> /\ stage'[t] = "send"
      /\ View' = View /\ Fingerprint' = Fingerprint
  BY DEF CommitSplice, CommitScoped, CommitFull, diskVars, jobVars, Goto, View,
         Fingerprint
<1>1. CASE CommitSplice(t)
  <2>1. /\ stage[t] = "recompute" /\ todo[t] = {} /\ kb' = acc[t]
        /\ fp' = UpdatedFingerprint(fp, dirty[t], acc[t])
    BY <1>1 DEF CommitSplice, Swap
  <2>2. ASSUME full[t], NEW f \in Files
        PROVE  Caught(f)'
    <3>1. CASE f \in dirty[t]
      <4>1. disk[f] # Unreadable => kb'[f] = View[f]
        BY <2>1, <2>2, <3>1 DEF ReadQuietly
      <4>2. Vouched(f)' => disk[f] # Unreadable
        BY <1>0 DEF Vouched, Fingerprint, FpOf, Unreadable, Absent
      <4>3. QED
        BY <1>0, <4>1, <4>2 DEF Caught
    <3>2. CASE f \notin dirty[t]
      <4>1. kb'[f] = kb[f] /\ fp'[f] = fp[f] /\ Caught(f)
        BY <2>1, <2>2, <3>2 DEF ReadTrue, ReadQuietly, UpdatedFingerprint
      <4>2. QED
        BY <1>0, <4>1 DEF Caught, Vouched
    <3>3. QED
      BY <3>1, <3>2
  <2>3. full[t] => AllCaught'
    BY <2>2 DEF AllCaught
  <2>4. full[t] => snap[t] = Fingerprint
    BY <2>1 DEF ReadQuietly, Later
  <2>5. QED
    BY <1>0, <2>3, <2>4 DEF ReadQuietly
<1>2. CASE CommitScoped(t)
  BY <1>0, <1>2 DEF CommitScoped, ReadQuietly
<1>3. CASE CommitFull(t)
  <2>1. kb' = built[t] /\ built[t] = View /\ full[t] /\ snap[t] = Fingerprint
    BY <1>3 DEF CommitFull, Swap, ReadQuietly, ReadTrue, Later
  <2>2. AllCaught'
    BY <1>0, <2>1 DEF AllCaught, Caught
  <2>3. QED
    BY <1>0, <2>1, <2>2 DEF ReadQuietly
<1>4. QED
  BY <1>1, <1>2, <1>3

LEMMA QuietOtherSteps ==
    ASSUME TypeOK, TypeOK', ScopeKept, HeldTrue, NEW t \in Threads, ReadTrue(t),
           Rebuild(t), UNCHANGED <<kb, fp, version>>,
           stage[t] = "want" \/ ReadQuietly(t), stage[t] # "done",
           ~CommitSplice(t), ~CommitScoped(t), ~CommitFull(t)
    PROVE  ReadQuietly(t)'
<1>1. /\ UNCHANGED <<disk, ignored>> /\ View' = View /\ Fingerprint' = Fingerprint
  BY DiskStands DEF View, Fingerprint
<1>2. (\A g \in Files : Caught(g)' <=> Caught(g)) /\ (AllCaught' <=> AllCaught)
  BY <1>1 DEF Caught, AllCaught, Vouched
<1>3. CASE Acquire(t)
  <2>1. CASE full[t]
    BY <1>1, <1>3, <2>1, QuietFingerprintBegins DEF Acquire, Goto, TypeOK
  <2>2. CASE ~full[t]
    <3>1. stage'[t] = "filter"
      BY <1>3, <2>2 DEF Acquire, Goto, TypeOK
    <3>2. QED
      BY <3>1 DEF ReadQuietly, Later
  <2>3. QED
    BY <2>1, <2>2
<1>4. CASE Diff(t)
  <2> DEFINE diff == FingerprintDiff(fp, acc[t]) \ ignored
  <2>1. /\ stage[t] = "fingerprint" /\ todo[t] = {} /\ snap'[t] = acc[t]
        /\ version = 0 \/ dirty'[t] = diff
    BY <1>4, DiffOfFiles DEF Diff, TypeOK
  <2>2. acc[t] = Fingerprint
    BY <2>1, <1>4 DEF ReadQuietly, Fingerprint, TypeOK, Catalogs, Diff
  <2>3. \/ stage'[t] = "done" /\ version > 0 /\ fp = acc[t]
        \/ stage'[t] = "splice" /\ version # 0
        \/ stage'[t] = "build" /\ Walk(t, OnDisk \ ignored)
    BY <1>4 DEF Diff, Goto, TypeOK
  <2>4. CASE stage'[t] = "done" /\ version > 0 /\ fp = acc[t]
    <3>1. AllCaught
      BY <2>2, <2>4, SameIsCaught DEF AllCaught, HeldTrue
    <3>2. QED
      BY <1>2, <2>4, <3>1 DEF ReadQuietly, Later
  <2>5. CASE stage'[t] = "splice" /\ version # 0
    <3>1. version > 0
      BY <2>5 DEF TypeOK
    <3>2. \A f \in Files \ dirty'[t] : Caught(f)
      BY <2>1, <2>2, <2>5, <3>1, SameIsCaught, ExcludedIsCaught
      DEF FingerprintDiff, HeldTrue
    <3>3. QED
      BY <1>1, <1>2, <2>1, <2>2, <2>5, <3>2 DEF ReadQuietly, Later
  <2>6. CASE stage'[t] = "build" /\ Walk(t, OnDisk \ ignored)
    BY <1>1, <2>1, <2>2, <2>6, QuietBuildBegins
  <2>7. QED
    BY <2>3, <2>4, <2>5, <2>6
<1>5. CASE Filter(t)
  <2>1. CASE version = 0
    BY <1>1, <1>5, <2>1, QuietFingerprintBegins DEF Filter, Goto, TypeOK
  <2>2. CASE version # 0
    <3>1. stage'[t] \in {"done", "splice"} /\ ~full'[t]
      BY <1>5, <2>2 DEF Filter, Goto, TypeOK, ReadTrue
    <3>2. QED
      BY <3>1 DEF ReadQuietly, Later
  <2>3. QED
    BY <2>1, <2>2
<1>6. CASE Gate(t)
  <2>1. ~full'[t]
    BY <1>6 DEF Gate, ReadTrue
  <2>2. \/ stage'[t] = "done"
        \/ stage'[t] = "build" /\ Walk(t, OnDisk \ ignored)
    BY <1>6 DEF Gate, Goto, TypeOK
  <2>3. QED
    BY <1>1, <2>1, <2>2, QuietBuildBegins DEF ReadQuietly, Later
<1>7. CASE TrySplice(t)
  <2>1. UNCHANGED <<full, snap, dirty>> /\ stage[t] = "splice" /\ version > 0
    BY <1>7 DEF TrySplice, ReadTrue
  <2>2. full[t] => snap[t] = Fingerprint /\ \A f \in Files \ dirty[t] : Caught(f)
    BY <1>7, <2>1 DEF ReadQuietly, Later
  <2>3. \/ Decline(t)
        \/ /\ stage'[t] = IF full[t] THEN "settle" ELSE "done"
           /\ StillMoving(dirty[t], fp) = {}
        \/ stage'[t] = "recompute" /\ todo'[t] = dirty[t] \cap Files
    BY <1>7 DEF TrySplice, Goto, TypeOK
  <2>4. CASE Decline(t)
    BY <1>1, <1>7, <2>1, <2>4, QuietDecline
  <2>5. CASE /\ stage'[t] = IF full[t] THEN "settle" ELSE "done"
             /\ StillMoving(dirty[t], fp) = {}
    <3>1. full[t] => AllCaught
      BY <2>1, <2>2, <2>5, StillIsCaught DEF AllCaught, StillMoving, HeldTrue
    <3>2. QED
      BY <1>1, <1>2, <2>1, <2>2, <2>5, <3>1 DEF ReadQuietly, Later
  <2>6. CASE stage'[t] = "recompute" /\ todo'[t] = dirty[t] \cap Files
    BY <1>1, <1>2, <2>1, <2>2, <2>6 DEF ReadQuietly, Later
  <2>7. QED
    BY <2>3, <2>4, <2>5, <2>6
<1>8. CASE RecomputeDeclines(t)
  BY <1>1, <1>8, QuietDecline DEF RecomputeDeclines
<1>9. CASE Settle(t)
  <2>1. UNCHANGED <<full, snap>> /\ stage[t] = "settle" /\ version > 0
        /\ stage'[t] \in {"done", "splice"}
    BY <1>9 DEF Settle, ReadTrue, Goto, TypeOK
  <2>2. full[t] => AllCaught /\ snap[t] = Fingerprint
    BY <1>9, <2>1 DEF ReadQuietly, Later
  <2>3. QED
    BY <1>1, <1>2, <2>1, <2>2 DEF ReadQuietly, Later, AllCaught
<1>10. CASE BuildFails(t)
  <2>1. CASE full[t]
    BY <1>1, <1>10, <2>1, QuietNextPass DEF BuildFails
  <2>2. CASE ~full[t]
    BY <1>1, <1>10, <2>2, QuietFingerprintBegins DEF BuildFails, Goto, TypeOK
  <2>3. QED
    BY <2>1, <2>2
<1>11. CASE BeginConfirm(t)
  <2>1. /\ stage[t] = "build" /\ stage'[t] = "confirm" /\ todo[t] = {} /\ full[t]
        /\ UNCHANGED <<full, snap>> /\ built'[t] = acc[t]
        /\ todo'[t] = OnDisk /\ acc'[t] = Nothing
    BY <1>11 DEF BeginConfirm, Goto, Walk, TypeOK
  <2>2. acc[t] = View /\ snap[t] = Fingerprint
    BY <1>11, <2>1 DEF ReadQuietly, View, TypeOK, Catalogs, Later
  <2>3. \A f \in Files : IF f \in todo'[t] THEN disk'[f] # Absent
                         ELSE acc'[t][f] = Fingerprint'[f]
    BY <1>1, <2>1 DEF OnDisk, Nothing, Fingerprint
  <2>4. QED
    BY <1>1, <2>1, <2>2, <2>3 DEF ReadQuietly
<1>12. CASE Retry(t)
  BY <1>1, <1>12, QuietNextPass DEF Retry
<1>13. CASE Send(t)
  <2>1. UNCHANGED <<full, snap>> /\ stage[t] = "send" /\ version > 0
        /\ stage'[t] \in {"settle", "done"}
    BY <1>13 DEF Send, ReadTrue, Goto, TypeOK, jobVars
  <2>2. full[t] => AllCaught /\ snap[t] = Fingerprint
    BY <1>13, <2>1 DEF ReadQuietly, Later
  <2>3. QED
    BY <1>1, <1>2, <2>1, <2>2 DEF ReadQuietly, Later
<1>14. CASE \E f \in Files : \/ ReadForFingerprint(t, f) \/ ReadDirty(t, f)
                             \/ ReadForBuild(t, f)
  <2>1. stage[t] # "want"
    BY <1>14 DEF ReadForFingerprint, ReadDirty, ReadForBuild
  <2>2. QED
    BY <1>14, <2>1, QuietReads
<1>15. CASE Release(t)
  BY <1>15 DEF Release
<1>16. QED
  BY <1>3, <1>4, <1>5, <1>6, <1>7, <1>8, <1>9, <1>10, <1>11, <1>12, <1>13, <1>14,
     <1>15 DEF Rebuild

\* Only taking the lock makes a rebuild quiet, and no other thread's reads are
\* disturbed.
LEMMA QuietOfOthers ==
    ASSUME TypeOK, NEW t \in Threads, Rebuild(t)
    PROVE  /\ \A u \in Threads \ {t} : quiet'[u] = quiet[u]
           /\ stage[t] = "want" \/ (quiet'[t] => quiet[t])
           /\ stage[t] = "done" => ~quiet'[t]
<1>1. stage[t] = "want" => Acquire(t)
  BY DEF Rebuild, Acquire, Release, Diff, Filter, Gate, TrySplice, RecomputeDeclines,
         CommitSplice, Settle, BuildFails, CommitScoped, BeginConfirm, CommitFull,
         Retry, Send, ReadForFingerprint, ReadDirty, ReadForBuild
<1>2. stage[t] = "done" => Release(t)
  BY DEF Rebuild, Acquire, Release, Diff, Filter, Gate, TrySplice, RecomputeDeclines,
         CommitSplice, Settle, BuildFails, CommitScoped, BeginConfirm, CommitFull,
         Retry, Send, ReadForFingerprint, ReadDirty, ReadForBuild
<1>3. Acquire(t) \/ Release(t) \/ quiet' = quiet
  BY DEF Rebuild, Diff, Filter, Gate, TrySplice, RecomputeDeclines,
         CommitSplice, Settle, BuildFails, CommitScoped, BeginConfirm, CommitFull,
         Retry, Send, ReadForFingerprint, ReadDirty, ReadForBuild
<1>4. Acquire(t) => stage[t] = "want" /\ quiet' = [quiet EXCEPT ![t] = TRUE]
  BY DEF Acquire
<1>5. Release(t) => stage[t] = "done" /\ quiet' = [quiet EXCEPT ![t] = FALSE]
  BY DEF Release
<1>6. quiet \in [Threads -> BOOLEAN]
  BY DEF TypeOK
<1>7. \A u \in Threads \ {t} : quiet'[u] = quiet[u]
  BY <1>3, <1>4, <1>5, <1>6
<1>8. stage[t] = "done" => ~quiet'[t]
  BY <1>2, <1>5, <1>6
<1>9. stage[t] = "want" \/ (quiet'[t] => quiet[t])
  BY <1>3, <1>4, <1>5, <1>8
<1>10. QED
  BY <1>7, <1>8, <1>9

LEMMA QuietNext ==
    ASSUME Rescopes = {}, CanReturn = FALSE, TypeOK, TypeOK', SerialRebuilds,
           ScopeKept, GateInv, QuietInv, [Next]_vars
    PROVE  QuietInv'
<1>1. CASE \/ Environment \/ (\E e \in inbox : Receive(e)) \/ Quiesce
           \/ IdleReconcile \/ NewRequest \/ Respond
  BY <1>1, OutsideSteps, QuietOutside DEF GateInv, HeldTrue
<1>2. ASSUME NEW t \in Threads, Rebuild(t)
      PROVE  QuietInv'
  <2>1. ASSUME quiet'[t]
        PROVE  ReadQuietly(t)'
    <3>1. stage[t] # "done" /\ (stage[t] = "want" \/ ReadQuietly(t))
      BY <1>2, <2>1, QuietOfOthers DEF QuietInv
    <3>2. CASE CommitSplice(t) \/ CommitScoped(t) \/ CommitFull(t)
      <4>1. stage[t] # "want"
        BY <3>2 DEF CommitSplice, CommitScoped, CommitFull
      <4>2. QED
        BY <3>1, <3>2, <4>1, QuietCommits DEF GateInv
    <3>3. CASE ~(CommitSplice(t) \/ CommitScoped(t) \/ CommitFull(t))
      BY <1>2, <3>1, <3>3, QuietStepTrue, QuietOtherSteps DEF GateInv
    <3>4. QED
      BY <3>2, <3>3
  <2>2. ASSUME NEW u \in Threads \ {t}
        PROVE  ReadQuietly(u)'
    <3>1. stage'[u] \notin Working
      BY <1>2, OthersIdle
    <3>2. QED
      BY <3>1 DEF ReadQuietly, Working, Later
  <2>3. QED
    BY <2>1, <2>2 DEF QuietInv
<1>3. CASE UNCHANGED vars
  <2>1. View' = View /\ Fingerprint' = Fingerprint
    BY <1>3 DEF vars, View, Fingerprint
  <2>2. (\A f \in Files : Caught(f)' <=> Caught(f)) /\ (AllCaught' <=> AllCaught)
    BY <1>3, <2>1 DEF vars, Caught, Vouched, AllCaught
  <2>3. QED
    BY <1>3, <2>1, <2>2 DEF vars, QuietInv, ReadQuietly
<1>4. QED
  BY <1>1, <1>2, <1>3, ConstantsAssumption DEF Next, Watcher, Writer

\* A full rebuild (the first build, a reconcile, a rescan, a registration)
\* during which the disk stands still, and that does not give up, leaves the
\* held state a build of the disk would give, however it came to it: the early
\* return, the splice of the difference, or the whole build after any number of
\* failed passes (rebuild_locked).  Entries without a hash are excepted.
THEOREM QuietRebuildsCatchUp ==
    ASSUME Rescopes = {}, CanReturn = FALSE
    PROVE  Spec => []QuietFullRebuildCatchesContent
<1>1. QuietInv => QuietFullRebuildCatchesContent
  BY DEF QuietInv, QuietFullRebuildCatchesContent, Quietly, ReadQuietly, AllCaught,
         Caught
<1>2. /\ TypeOK /\ TypeOK' /\ SerialRebuilds /\ ScopeKept /\ GateInv /\ QuietInv
      /\ [Next]_vars
      => QuietInv'
  BY QuietNext
<1>3. Spec => [](TypeOK /\ SerialRebuilds /\ ScopeKept /\ GateInv)
  BY TypeCorrect, RebuildsAreSerial, ScopeIsKept, GateIsKept, PTL
<1> QED
  BY <1>1, <1>2, <1>3, QuietInit, PTL DEF Spec

-----------------------------------------------------------------------------
(* The answer to a mutation.  A fingerprint entry without a hash vouches   *)
(* for nothing, so GateSound does not tell what the gate makes of a file   *)
(* that was deleted.  While every file can be read, such an entry tells    *)
(* that its file was gone once: a file that is gone now was gone then, and *)
(* no build has read a content of it in between.                           *)

\* Every file can be read, or is not there.
Readable == WriteStates \cup {InitDisk[f] : f \in Files} \subseteq Contents \cup {Absent}

Plain == Files \ Assets

WasGone(h, f) == h = Unread => Absent \in seen[f]

\* An entry h without a hash for a file that is gone goes with no content.
Emptied(h, entry, f) == h = Unread /\ disk[f] = Absent => entry \notin Contents

Recorded(t) == IF full[t] THEN snap[t] ELSE fp

\* What a rebuild under way has read of the files that were gone.
ReadGone(t) ==
    /\ stage[t] = "fingerprint" => \A f \in Plain : WasGone(acc[t][f], f)
    /\ stage[t] \in Later /\ full[t] => \A f \in Plain : WasGone(snap[t][f], f)
    /\ stage[t] = "recompute" => \A f \in Plain : WasGone(acc[t][f], f)
    /\ stage[t] = "build" =>
         \A f \in Plain : /\ WasGone(acc[t][f], f)
                          /\ Emptied(Recorded(t)[f], acc[t][f], f)
    /\ stage[t] = "confirm" =>
         \A f \in Plain : /\ WasGone(built[t][f], f)
                          /\ Emptied(snap[t][f], built[t][f], f)

HeldGone ==
    \A f \in Plain : /\ disk[f] \in Contents \cup {Absent}
                     /\ WasGone(fp[f], f) /\ WasGone(kb[f], f)
                     /\ Emptied(fp[f], kb[f], f)

GoneInv == HeldGone /\ \A t \in Threads : ReadGone(t)

\* An entry that shows the mutation, or a change after it.
Shows(h) ==
    \/ h \in {Held(mutation.file, s) : s \in mutation.since}
    \/ Absent \in mutation.since /\ h = Unread

\* A mutation of a file the build reads, not answered yet.
Pending == mutation.file \in Plain \ ignored

\* What a thread has read since the mutation shows it: the writer once its own
\* rebuild has begun, the watcher once that has ended.
ShowsInReads(t) ==
    /\ stage[t] \in {"recompute", "build"} /\ mutation.file \notin todo[t]
         => Shows(acc[t][mutation.file])
    /\ stage[t] = "confirm" => Shows(built[t][mutation.file])

MutationInv ==
    /\ stage["writer"] = "idle" => mutation = NoMutation
    /\ Pending =>
         /\ version > 0 /\ disk[mutation.file] \in mutation.since
         /\ stage["writer"] \in {"want", "filter", "splice", "recompute", "gate",
                                 "build", "send", "done", "respond"}
         /\ ~full["writer"]
         /\ stage["writer"] \in {"want", "filter", "splice", "recompute", "gate", "build"}
              => dirty["writer"] = {mutation.file}
         /\ stage["writer"] \in {"send", "done", "respond"} => Shows(kb[mutation.file])
         /\ ShowsInReads("writer")
         /\ stage["writer"] = "respond" => ShowsInReads("watcher")

\* A file that was gone and is gone now has been gone in between.
LEMMA EmptiedStays ==
    ASSUME Onwards, NEW f \in Files, NEW h, NEW entry, WasGone(h, f),
           Emptied(h, entry, f)
    PROVE  WasGone(h, f)' /\ Emptied(h, entry, f)'
BY DEF Onwards, WasGone, Emptied

\* What the fingerprint and the build record of a file that can be read.
LEMMA RecordsAreGone ==
    ASSUME NEW f \in Plain, disk[f] \in Contents \cup {Absent}, disk[f] \in seen[f]
    PROVE  /\ WasGone(FpOf(f, disk[f]), f) /\ WasGone(EntryOf(f, disk[f]), f)
           /\ disk[f] = Absent => EntryOf(f, disk[f]) = Unread
BY ConstantsAssumption
DEF Plain, WasGone, FpOf, EntryOf, BuildReadsContent, Absent, Unread, Oversize,
    Unreadable, SizeHash

LEMMA UnreadIsNoContent ==
    Unread \notin Contents /\ NoEntry \notin Contents /\ NoEntry # Unread
BY ConstantsAssumption DEF Unread, NoEntry

LEMMA OutsideGone ==
    ASSUME GateInv, GoneInv, Outside,
           \A f \in Plain : disk'[f] \in Contents \cup {Absent}
    PROVE  GoneInv'
<1>1. UNCHANGED <<kb, fp, version, snap, todo, acc, built, ignored>> /\ Onwards
  BY DEF Outside, Onwards
<1>2. \A f \in Plain : \A h, entry :
        /\ WasGone(h, f) => WasGone(h, f)'
        /\ WasGone(h, f) /\ Emptied(h, entry, f) => Emptied(h, entry, f)'
  BY <1>1, EmptiedStays DEF Plain, Onwards, WasGone
<1>3. HeldGone'
  BY <1>1, <1>2 DEF GoneInv, HeldGone
<1>4. ASSUME NEW t \in Threads
      PROVE  ReadGone(t)'
  <2>1. CASE stage'[t] \in {"burst", "want", "idle"}
    BY <2>1 DEF ReadGone, Later
  <2>2. CASE UNCHANGED <<stage[t], full[t], dirty[t]>>
    <3>1. ReadGone(t) /\ HeldGone
      BY DEF GoneInv
    <3>2. stage[t] = "build" => \A f \in Plain : WasGone(Recorded(t)[f], f)
      BY <3>1 DEF ReadGone, HeldGone, Recorded, Later
    <3>3. Recorded(t)' = Recorded(t)
      BY <1>1, <2>2 DEF Recorded
    <3>4. stage[t] = "confirm" => \A f \in Plain : full[t] => WasGone(snap[t][f], f)
      BY <3>1 DEF ReadGone, Later
    <3>5. stage[t] = "confirm" => full[t]
      BY DEF GateInv, ReadTrue
    <3>6. QED
      BY <1>1, <1>2, <2>2, <3>1, <3>2, <3>3, <3>4, <3>5 DEF ReadGone
  <2>3. QED
    BY <2>1, <2>2 DEF Outside
<1>5. QED
  BY <1>3, <1>4 DEF GoneInv

\* The three swaps: of a dirty path the same is recorded and catalogued, of
\* another either nothing changes or the recorded hash lets no content in.
LEMMA CommitGone ==
    ASSUME TypeOK, GateInv, GoneInv, NEW t \in Threads,
           CommitSplice(t) \/ CommitScoped(t) \/ CommitFull(t)
    PROVE  HeldGone' /\ ReadGone(t)'
<1> USE DEF TypeOK, Catalogs
<1>1. UNCHANGED <<disk, seen, full, snap, dirty>> /\ stage'[t] = "send"
  BY DEF CommitSplice, CommitScoped, CommitFull, Goto, diskVars, jobVars
<1>2. ReadGone(t) /\ HeldGone /\ ReadTrue(t)
  BY DEF GoneInv, GateInv
<1>3. ASSUME CommitSplice(t) \/ CommitScoped(t), NEW f \in Plain
      PROVE  (WasGone(fp[f], f) /\ WasGone(kb[f], f) /\ Emptied(fp[f], kb[f], f))'
  <2>1. /\ kb' = acc[t] /\ fp' = UpdatedFingerprint(fp, dirty[t], acc[t])
        /\ stage[t] = "recompute" \/ (stage[t] = "build" /\ ~full[t])
        /\ f \in Files
    BY <1>3 DEF CommitSplice, CommitScoped, Swap, Plain
  <2>2. WasGone(acc[t][f], f) /\ WasGone(fp[f], f)
    BY <1>2, <2>1 DEF ReadGone, HeldGone
  <2>3. CASE f \in dirty[t]
    BY <1>1, <2>1, <2>2, <2>3, UnreadIsNoContent
    DEF UpdatedFingerprint, WasGone, Emptied
  <2>4. CASE f \notin dirty[t]
    <3>1. fp'[f] = fp[f]
      BY <2>1, <2>4 DEF UpdatedFingerprint
    <3>2. Emptied(fp[f], acc[t][f], f)
      BY <1>2, <2>1, <2>4 DEF ReadGone, HeldGone, ReadTrue, Recorded
    <3>3. QED
      BY <1>1, <2>1, <2>2, <3>1, <3>2 DEF WasGone, Emptied
  <2>5. QED
    BY <2>3, <2>4
<1>4. ASSUME CommitFull(t), NEW f \in Plain
      PROVE  (WasGone(fp[f], f) /\ WasGone(kb[f], f) /\ Emptied(fp[f], kb[f], f))'
  <2>1. kb' = built[t] /\ fp' = snap[t] /\ stage[t] = "confirm"
    BY <1>4 DEF CommitFull, Swap
  <2>2. full[t]
    BY <1>2, <2>1 DEF ReadTrue
  <2>3. QED
    BY <1>1, <1>2, <2>1, <2>2 DEF ReadGone, Later, WasGone, Emptied
<1>5. HeldGone'
  BY <1>1, <1>2, <1>3, <1>4 DEF HeldGone
<1>6. full[t] => \A f \in Plain : WasGone(snap[t][f], f)'
  <2>1. stage[t] \in Later
    BY DEF CommitSplice, CommitScoped, CommitFull, Later
  <2>2. QED
    BY <1>1, <1>2, <2>1 DEF ReadGone, WasGone
<1>7. QED
  BY <1>1, <1>5, <1>6 DEF ReadGone

\* A walk has read nothing yet.
LEMMA WalkGone ==
    ASSUME TypeOK, NEW t \in Threads, NEW files, Walk(t, files),
           \/ stage'[t] = "fingerprint"
           \/ /\ stage'[t] = "build"
              /\ full'[t] => \A f \in Plain : WasGone(snap[t][f], f)'
    PROVE  ReadGone(t)'
<1>1. acc'[t] = Nothing
  BY DEF Walk, TypeOK
<1>2. \A f \in Plain : acc'[t][f] = NoEntry
  BY <1>1 DEF Nothing, Plain
<1>3. \A f \in Plain : \A h : WasGone(NoEntry, f)' /\ Emptied(h, NoEntry, f)'
  BY UnreadIsNoContent DEF WasGone, Emptied
<1>4. QED
  BY <1>2, <1>3 DEF ReadGone, Later

LEMMA ReadsGone ==
    ASSUME TypeOK, GateInv, GoneInv, NEW t \in Threads, NEW g \in Files,
           ReadForFingerprint(t, g) \/ ReadForBuild(t, g)
             \/ (ReadDirty(t, g) /\ ~Refused(g, disk[g]))
    PROVE  ReadGone(t)' /\ UNCHANGED <<kb, fp>>
<1> USE DEF TypeOK, Catalogs
<1>1. /\ UNCHANGED <<disk, seen, kb, fp, full, snap, dirty, built, stage, version>>
      /\ stage[t] \in {"fingerprint", "confirm", "recompute", "build"}
  BY DEF ReadForFingerprint, ReadForBuild, ReadDirty, diskVars, heldVars
<1>2. ReadGone(t) /\ HeldGone /\ ReadTrue(t) /\ HeldTrue
  BY DEF GoneInv, GateInv
<1>3. PICK h : /\ acc'[t] = [acc[t] EXCEPT ![g] = h]
               /\ \/ h = FpOf(g, disk[g]) /\ stage[t] \in {"fingerprint", "confirm"}
                  \/ h = Acquired(t, g) /\ stage[t] = "build"
                  \/ h = Spliced(g, disk[g]) /\ stage[t] = "recompute"
  BY DEF ReadForFingerprint, ReadForBuild, ReadDirty
<1>4. ASSUME g \in Plain
      PROVE  /\ stage[t] # "confirm" => WasGone(h, g)
             /\ stage[t] = "build" => Emptied(Recorded(t)[g], h, g)
  <2>1. /\ disk[g] \in Contents \cup {Absent} /\ disk[g] \in seen[g]
        /\ WasGone(kb[g], g)
    BY <1>2, <1>4 DEF HeldGone, HeldTrue, Plain
  <2>2. CASE h = FpOf(g, disk[g]) /\ stage[t] \in {"fingerprint", "confirm"}
    BY <1>4, <2>1, <2>2, RecordsAreGone
  <2>3. CASE h = Spliced(g, disk[g]) /\ stage[t] = "recompute"
    BY <1>4, <2>1, <2>3, RecordsAreGone, UnreadIsNoContent DEF Spliced, WasGone
  <2>4. CASE h = Acquired(t, g) /\ stage[t] = "build"
    <3>1. CASE KnownHash(t, g) \in Contents /\ h = kb[g]
      <4>1. Recorded(t)[g] # Unread
        BY <3>1, UnreadIsNoContent DEF KnownHash, Recorded
      <4>2. QED
        BY <2>1, <2>4, <3>1, <4>1 DEF Emptied
    <3>2. CASE h = EntryOf(g, disk[g])
      BY <1>4, <2>1, <2>4, <3>2, RecordsAreGone, UnreadIsNoContent DEF Emptied
    <3>3. QED
      BY <2>4, <3>1, <3>2 DEF Acquired
  <2>5. QED
    BY <1>3, <2>2, <2>3, <2>4
<1>5. ASSUME NEW f \in Plain
      PROVE  /\ stage[t] \in {"fingerprint", "recompute", "build"} =>
                  WasGone(acc[t][f], f)'
             /\ stage[t] = "build" => Emptied(Recorded(t)[f], acc[t][f], f)'
  <2>1. Recorded(t)' = Recorded(t) /\ f \in Files
    BY <1>1 DEF Recorded, Plain
  <2>2. CASE f = g
    <3>1. acc'[t][f] = h
      BY <1>3, <2>2
    <3>2. QED
      BY <1>1, <1>4, <1>5, <2>1, <2>2, <3>1 DEF WasGone, Emptied
  <2>3. CASE f # g
    <3>1. acc'[t][f] = acc[t][f]
      BY <1>3, <2>1, <2>3
    <3>2. QED
      BY <1>1, <1>2, <2>1, <3>1 DEF ReadGone, WasGone, Emptied
  <2>4. QED
    BY <2>2, <2>3
<1>6. QED
  BY <1>1, <1>2, <1>5 DEF ReadGone, WasGone, Emptied

\* The steps of a rebuild that swap nothing in.
LEMMA StepGone ==
    ASSUME TypeOK, GateInv, GoneInv, NEW t \in Threads, Rebuild(t),
           ~CommitSplice(t), ~CommitScoped(t), ~CommitFull(t)
    PROVE  ReadGone(t)' /\ UNCHANGED <<kb, fp>>
<1> USE DEF TypeOK, Catalogs
<1>0. ReadGone(t) /\ HeldGone /\ ReadTrue(t) /\ UNCHANGED <<disk, ignored, seen>>
  BY DiskStands DEF GoneInv, GateInv
<1>1. ASSUME stage[t] \in Later, UNCHANGED <<snap, full>>, full[t]
      PROVE  \A f \in Plain : WasGone(snap[t][f], f)'
  BY <1>0, <1>1 DEF ReadGone, WasGone
<1>2. CASE Acquire(t)
  BY <1>2, WalkGone DEF Acquire, heldVars, Goto, ReadGone, Later
<1>3. CASE Release(t)
  BY <1>3 DEF Release, heldVars, ReadGone, Later
<1>4. CASE Diff(t)
  <2>1. /\ UNCHANGED <<kb, fp, full>> /\ snap'[t] = acc[t] /\ stage[t] = "fingerprint"
        /\ \/ stage'[t] \in {"done", "splice"}
           \/ stage'[t] = "build" /\ Walk(t, OnDisk \ ignored)
    BY <1>4 DEF Diff, heldVars, Goto
  <2>2. \A f \in Plain : WasGone(snap[t][f], f)'
    BY <1>0, <2>1 DEF ReadGone, WasGone
  <2>3. QED
    BY <2>1, <2>2, WalkGone DEF ReadGone, Later
<1>5. CASE Filter(t)
  <2>1. ~full[t]
    BY <1>0, <1>5 DEF Filter, ReadTrue
  <2>2. QED
    BY <1>5, <2>1, WalkGone DEF Filter, heldVars, Goto, ReadGone, Later
<1>6. CASE Gate(t)
  <2>1. ~full[t]
    BY <1>0, <1>6 DEF Gate, ReadTrue
  <2>2. QED
    BY <1>6, <2>1, WalkGone DEF Gate, heldVars, Goto, ReadGone, Later
<1>7. ASSUME Decline(t), UNCHANGED <<full, snap>>, stage[t] \in {"splice", "recompute"}
      PROVE  ReadGone(t)'
  BY <1>1, <1>7, WalkGone DEF Decline, Goto, ReadGone, Later
<1>8. CASE TrySplice(t)
  <2>1. /\ UNCHANGED <<kb, fp, full, snap>> /\ stage[t] = "splice"
        /\ \/ Decline(t)
           \/ stage'[t] \in {"settle", "done"}
           \/ stage'[t] = "recompute" /\ acc'[t] = kb
    BY <1>8 DEF TrySplice, heldVars, Goto
  <2>2. CASE ~Decline(t)
    BY <1>0, <1>1, <2>1, <2>2 DEF ReadGone, HeldGone, WasGone, Later
  <2>3. QED
    BY <1>7, <2>1, <2>2
<1>9. CASE RecomputeDeclines(t) \/ (\E f \in Files : ReadDirty(t, f) /\ Refused(f, disk[f]))
  BY <1>7, <1>9 DEF RecomputeDeclines, ReadDirty, heldVars
<1>10. CASE Settle(t) \/ Send(t)
  BY <1>1, <1>10 DEF Settle, Send, heldVars, jobVars, Goto, ReadGone, Later
<1>11. ASSUME NextPass(t)
       PROVE  ReadGone(t)'
  BY <1>11, WalkGone DEF NextPass, Goto, ReadGone, Later
<1>12. CASE BuildFails(t) \/ Retry(t)
  BY <1>11, <1>12, WalkGone DEF BuildFails, Retry, heldVars, Goto
<1>13. CASE BeginConfirm(t)
  <2>1. /\ UNCHANGED <<kb, fp, full, snap>> /\ built'[t] = acc[t] /\ full[t]
        /\ stage[t] = "build" /\ stage'[t] = "confirm"
    BY <1>13 DEF BeginConfirm, heldVars, Goto
  <2>2. \A f \in Plain : /\ WasGone(built[t][f], f)'
                         /\ Emptied(snap[t][f], built[t][f], f)'
    BY <1>0, <2>1 DEF ReadGone, Recorded, WasGone, Emptied
  <2>3. QED
    BY <1>1, <2>1, <2>2 DEF ReadGone, Later
<1>14. CASE \E f \in Files : \/ ReadForFingerprint(t, f) \/ ReadForBuild(t, f)
                             \/ ReadDirty(t, f) /\ ~Refused(f, disk[f])
  BY <1>14, ReadsGone
<1>15. QED
  BY <1>2, <1>3, <1>4, <1>5, <1>6, <1>8, <1>9, <1>10, <1>12, <1>13, <1>14 DEF Rebuild

\* What files may become is readable.
LEMMA OutsideReadable ==
    ASSUME Readable, TypeOK, HeldGone,
           \/ Environment \/ (\E e \in inbox : Receive(e)) \/ Quiesce
           \/ IdleReconcile \/ NewRequest \/ Respond
    PROVE  \A f \in Plain : disk'[f] \in Contents \cup {Absent}
<1>1. CASE UNCHANGED disk
  BY <1>1 DEF HeldGone
<1>2. ASSUME NEW f \in Files, ExternalWrite(f) \/ MutateFile(f)
      PROVE  \A g \in Plain : disk'[g] \in Contents \cup {Absent}
  <2>1. PICK s \in WriteStates \cup MutateStates : disk' = [disk EXCEPT ![f] = s]
    BY <1>2 DEF ExternalWrite, MutateFile, ChangeDisk
  <2>2. s \in Contents \cup {Absent}
    BY ConstantsAssumption DEF Readable
  <2>3. QED
    BY <2>1, <2>2 DEF HeldGone, Plain, TypeOK
<1>3. ASSUME NEW d \in Dirs, RemoveDirectory(d)
      PROVE  \A g \in Plain : disk'[g] \in Contents \cup {Absent}
  BY <1>3 DEF RemoveDirectory, ChangeDisk, HeldGone, Plain
<1>4. QED
  BY <1>1, <1>2, <1>3
  DEF Environment, Touch, EditIgnores, Overflow, FlagRescan, LoseEvent, Receive,
      Quiesce, IdleReconcile, NewRequest, SetIgnores, Register, Respond, diskVars,
      ChangeDisk

LEMMA GoneInit == Readable /\ Init => GoneInv
<1> SUFFICES ASSUME Readable, Init PROVE GoneInv
    OBVIOUS
<1>1. \A f \in Plain : disk[f] \in Contents \cup {Absent}
  BY DEF Init, Readable, Plain
<1>2. \A f \in Plain : fp[f] = NoEntry /\ kb[f] = NoEntry
  BY DEF Init, Nothing, Plain
<1>3. HeldGone
  BY <1>1, <1>2, UnreadIsNoContent DEF HeldGone, WasGone, Emptied
<1>4. \A t \in Threads : ReadGone(t)
  BY DEF Init, ReadGone, Later
<1>5. QED
  BY <1>3, <1>4 DEF GoneInv

LEMMA GoneNext ==
    ASSUME Rescopes = {}, CanReturn = FALSE, Readable, TypeOK, TypeOK', SerialRebuilds,
           GateInv, GoneInv, [Next]_vars
    PROVE  GoneInv'
<1>1. CASE \/ Environment \/ (\E e \in inbox : Receive(e)) \/ Quiesce
           \/ IdleReconcile \/ NewRequest \/ Respond
  <2>1. Outside
    BY <1>1, OutsideSteps DEF GateInv, HeldTrue
  <2>2. QED
    BY <1>1, <2>1, OutsideGone, OutsideReadable DEF GoneInv
<1>2. ASSUME NEW t \in Threads, Rebuild(t)
      PROVE  GoneInv'
  <2>1. HeldGone' /\ ReadGone(t)'
    <3>1. CASE CommitSplice(t) \/ CommitScoped(t) \/ CommitFull(t)
      BY <3>1, CommitGone
    <3>2. CASE ~(CommitSplice(t) \/ CommitScoped(t) \/ CommitFull(t))
      <4>1. ReadGone(t)' /\ UNCHANGED <<kb, fp, disk, seen>>
        BY <1>2, <3>2, StepGone, DiskStands
      <4>2. HeldGone'
        BY <4>1 DEF GoneInv, HeldGone, WasGone, Emptied
      <4>3. QED
        BY <4>1, <4>2
    <3>3. QED
      BY <3>1, <3>2
  <2>2. ASSUME NEW u \in Threads \ {t}
        PROVE  ReadGone(u)'
    <3>1. stage'[u] \notin Working
      BY <1>2, OthersIdle
    <3>2. QED
      BY <3>1 DEF ReadGone, Working, Later
  <2>3. QED
    BY <2>1, <2>2 DEF GoneInv
<1>3. CASE UNCHANGED vars
  <2>1. Outside
    BY <1>3 DEF vars, Outside, Onwards, GateInv, HeldTrue
  <2>2. \A f \in Plain : disk'[f] \in Contents \cup {Absent}
    BY <1>3 DEF vars, GoneInv, HeldGone
  <2>3. QED
    BY <2>1, <2>2, OutsideGone
<1>4. QED
  BY <1>1, <1>2, <1>3, ConstantsAssumption DEF Next, Watcher, Writer

LEMMA GoneIsKept ==
    ASSUME Rescopes = {}, CanReturn = FALSE, Readable PROVE Spec => []GoneInv
<1>1. /\ TypeOK /\ TypeOK' /\ SerialRebuilds /\ GateInv /\ GoneInv /\ [Next]_vars
      => GoneInv'
  BY GoneNext
<1>2. Spec => [](TypeOK /\ SerialRebuilds /\ GateInv)
  BY TypeCorrect, RebuildsAreSerial, GateIsKept, PTL
<1> QED
  BY <1>1, <1>2, GoneInit, PTL DEF Spec

\* What the gate takes for no change shows the mutation already.
LEMMA GateShows ==
    ASSUME TypeOK, HeldTrue, HeldGone, Pending, version > 0,
           disk[mutation.file] \in mutation.since, ~PathChanged(mutation.file, fp)
    PROVE  Shows(kb[mutation.file])
<1> DEFINE f == mutation.file
<1> HIDE DEF f
<1> USE DEF TypeOK, Catalogs
<1>1. /\ f \in Files /\ f \in Plain /\ f \notin ignored /\ BuildReadsContent(f)
      /\ disk[f] \in Contents \cup {Absent} /\ disk[f] \in mutation.since
  BY DEF f, Pending, Plain, HeldGone, BuildReadsContent
<1>2. FreshHash(disk[f]) = RecordedContent(fp, f)
  BY <1>1 DEF PathChanged, f
<1>3. ASSUME fp[f] # Unread, fp[f] = Fingerprint[f], Fingerprint[f] # Unread
      PROVE  kb[f] = View[f]
  BY <1>1, <1>3 DEF HeldTrue, GateSound, Vouched
<1>4. CASE disk[f] \in Contents
  <2>1. FreshHash(disk[f]) = disk[f] /\ disk[f] # Unread /\ disk[f] # Absent
        /\ Fingerprint[f] = disk[f] /\ View[f] = disk[f] /\ Held(f, disk[f]) = disk[f]
    BY <1>1, <1>4, ConstantsAssumption
    DEF FreshHash, Fingerprint, FpOf, View, EntryOf, Held, Absent, Unread, Oversize,
        Unreadable
  <2>2. fp[f] = disk[f]
    BY <1>2, <2>1 DEF RecordedContent
  <2>3. QED
    BY <1>1, <1>3, <2>1, <2>2 DEF Shows, f
<1>5. CASE disk[f] = Absent
  <2>1. fp[f] = NoEntry \/ fp[f] = Unread
    BY <1>2, <1>5 DEF FreshHash, RecordedContent
  <2>2. CASE fp[f] = NoEntry
    <3>1. kb[f] = NoEntry
      BY <1>1, <1>3, <1>5, <2>2 DEF Fingerprint, View, NoEntry, Unread
    <3>2. Held(f, Absent) = NoEntry
      BY DEF Held
    <3>3. QED
      BY <1>1, <1>5, <3>1, <3>2 DEF Shows, f
  <2>3. CASE fp[f] = Unread
    <3>1. kb[f] \notin Contents
      BY <1>1, <1>5, <2>3 DEF HeldGone, Emptied
    <3>2. kb[f] # SizeHash
      BY <1>1 DEF HeldTrue, Catalogued
    <3>3. kb[f] \in {NoEntry, Unread}
      BY <1>1, <3>1, <3>2 DEF Entries
    <3>4. Held(f, Absent) = NoEntry
      BY DEF Held
    <3>5. QED
      BY <1>1, <1>5, <3>3, <3>4 DEF Shows, f
  <2>4. QED
    BY <2>1, <2>2, <2>3
<1>6. QED
  BY <1>1, <1>4, <1>5

\* What is on the disk shows the mutation, however a build or a splice records it.
LEMMA DiskShows ==
    ASSUME Pending, disk[mutation.file] \in mutation.since,
           disk[mutation.file] \in Contents \cup {Absent}
    PROVE  /\ disk[mutation.file] = Absent => Shows(NoEntry)
           /\ Shows(EntryOf(mutation.file, disk[mutation.file]))
           /\ Shows(Spliced(mutation.file, disk[mutation.file]))
<1>1. disk[mutation.file] = Absent =>
        /\ Shows(NoEntry) /\ Shows(Unread)
        /\ EntryOf(mutation.file, disk[mutation.file]) = Unread
        /\ Spliced(mutation.file, disk[mutation.file]) = NoEntry
  BY ConstantsAssumption DEF Shows, Held, EntryOf, Spliced, Absent
<1>2. disk[mutation.file] # Absent =>
        /\ Held(mutation.file, disk[mutation.file])
             = EntryOf(mutation.file, disk[mutation.file])
        /\ Spliced(mutation.file, disk[mutation.file])
             = EntryOf(mutation.file, disk[mutation.file])
  BY ConstantsAssumption DEF Held, Spliced, Unreadable
<1>3. QED
  BY <1>1, <1>2 DEF Shows

\* A rebuild that begins once the mutation is on the disk reads it there, or
\* reuses what shows it; so what it swaps in shows it too.
LEMMA ReadsShow ==
    ASSUME TypeOK, GateInv, HeldGone, Pending, disk[mutation.file] \in mutation.since,
           NEW t \in Threads, Rebuild(t), ShowsInReads(t),
           Shows(kb[mutation.file]) \/ (~full[t] /\ mutation.file \in dirty[t])
    PROVE  /\ ShowsInReads(t)'
           /\ UNCHANGED kb \/ Shows(kb'[mutation.file])
<1> DEFINE f == mutation.file
<1> HIDE DEF f
<1> USE DEF TypeOK, Catalogs
<1>1. UNCHANGED <<disk, ignored, seen>> /\ UNCHANGED mutation
  BY DiskStands
  DEF Rebuild, Acquire, Release, Diff, Filter, Gate, TrySplice, RecomputeDeclines,
      CommitSplice, Settle, BuildFails, CommitScoped, BeginConfirm, CommitFull,
      Retry, Send, ReadForFingerprint, ReadDirty, ReadForBuild
<1>2. f' = f /\ \A h : Shows(h)' <=> Shows(h)
  BY <1>1 DEF Shows, Held, EntryOf, f
<1>3. /\ f \in Files /\ f \notin ignored /\ disk[f] \in Contents \cup {Absent}
      /\ disk[f] = Absent => Shows(NoEntry)
      /\ Shows(EntryOf(f, disk[f])) /\ Shows(Spliced(f, disk[f]))
  BY DiskShows DEF f, Pending, Plain, HeldGone
<1>4. ASSUME NEW files, Walk(t, files), files \in {OnDisk, OnDisk \ ignored},
             stage'[t] # "confirm"
      PROVE  ShowsInReads(t)'
  <2>1. todo'[t] = files /\ acc'[t][f] = NoEntry
    BY <1>3, <1>4 DEF Walk, Nothing
  <2>2. QED
    BY <1>2, <1>3, <1>4, <2>1 DEF ShowsInReads, OnDisk, f
<1>5. ASSUME stage'[t] \notin {"recompute", "build", "confirm"}
      PROVE  ShowsInReads(t)'
  BY <1>5 DEF ShowsInReads
<1>6. ASSUME Decline(t)
      PROVE  ShowsInReads(t)'
  BY <1>4, <1>5, <1>6 DEF Decline, Goto
<1>7. ASSUME NextPass(t)
      PROVE  ShowsInReads(t)'
  BY <1>4, <1>5, <1>7 DEF NextPass, Goto
<1>8. CASE Acquire(t) \/ Release(t) \/ Diff(t) \/ Filter(t) \/ Gate(t) \/ Settle(t)
             \/ BuildFails(t) \/ Retry(t) \/ RecomputeDeclines(t) \/ Send(t)
  <2>1. UNCHANGED kb
    BY <1>8 DEF Acquire, Release, Diff, Filter, Gate, Settle, BuildFails, Retry,
                RecomputeDeclines, Send, heldVars
  <2>2. \/ Decline(t) \/ NextPass(t)
        \/ stage'[t] \notin {"recompute", "build", "confirm"}
        \/ /\ Walk(t, OnDisk) \/ Walk(t, OnDisk \ ignored)
           /\ stage'[t] # "confirm"
    BY <1>8 DEF Acquire, Release, Diff, Filter, Gate, Settle, BuildFails, Retry,
                RecomputeDeclines, Send, Goto
  <2>3. QED
    BY <1>4, <1>5, <1>6, <1>7, <2>1, <2>2
<1>9. CASE TrySplice(t)
  <2>1. /\ UNCHANGED <<kb, dirty>>
        /\ \/ Decline(t)
           \/ stage'[t] \in {"settle", "done"}
           \/ stage'[t] = "recompute" /\ acc'[t] = kb /\ todo'[t] = dirty[t] \cap Files
    BY <1>9 DEF TrySplice, heldVars, Goto
  <2>2. CASE stage'[t] = "recompute" /\ acc'[t] = kb /\ todo'[t] = dirty[t] \cap Files
    <3>1. f \notin todo'[t] => Shows(acc'[t][f])
      BY <1>3, <2>2 DEF f
    <3>2. QED
      BY <1>2, <2>1, <2>2, <3>1 DEF ShowsInReads, f
  <2>3. QED
    BY <1>5, <1>6, <2>1, <2>2
<1>10. CASE CommitSplice(t) \/ CommitScoped(t) \/ CommitFull(t)
  <2>1. /\ stage'[t] = "send"
        /\ \/ kb' = acc[t] /\ todo[t] = {} /\ stage[t] \in {"recompute", "build"}
           \/ kb' = built[t] /\ stage[t] = "confirm"
    BY <1>10 DEF CommitSplice, CommitScoped, CommitFull, Swap, Goto
  <2>2. QED
    BY <1>5, <2>1 DEF ShowsInReads, f
<1>11. CASE BeginConfirm(t)
  <2>1. /\ UNCHANGED kb /\ built'[t] = acc[t] /\ todo[t] = {}
        /\ stage[t] = "build" /\ stage'[t] = "confirm"
    BY <1>11 DEF BeginConfirm, heldVars, Goto
  <2>2. QED
    BY <1>2, <2>1 DEF ShowsInReads, f
<1>12. ASSUME NEW g \in Files, ReadForFingerprint(t, g)
       PROVE  ShowsInReads(t)' /\ UNCHANGED kb
  BY <1>2, <1>12 DEF ReadForFingerprint, heldVars, ShowsInReads, f
<1>13. ASSUME NEW g \in Files, ReadDirty(t, g), ~Refused(g, disk[g])
       PROVE  ShowsInReads(t)' /\ UNCHANGED kb
  <2>1. /\ UNCHANGED <<kb, stage>> /\ stage[t] = "recompute"
        /\ acc'[t] = [acc[t] EXCEPT ![g] = Spliced(g, disk[g])]
        /\ todo'[t] = todo[t] \ {g}
    BY <1>13 DEF ReadDirty, heldVars
  <2>2. CASE g = f
    BY <1>2, <1>3, <2>1, <2>2 DEF ShowsInReads, f
  <2>3. CASE g # f
    BY <1>2, <1>3, <2>1, <2>3 DEF ShowsInReads, f
  <2>4. QED
    BY <2>1, <2>2, <2>3
<1>14. ASSUME NEW g \in Files, ReadDirty(t, g), Refused(g, disk[g])
       PROVE  ShowsInReads(t)' /\ UNCHANGED kb
  BY <1>6, <1>14 DEF ReadDirty, heldVars
<1>15. ASSUME NEW g \in Files, ReadForBuild(t, g)
       PROVE  ShowsInReads(t)' /\ UNCHANGED kb
  <2>1. /\ UNCHANGED <<kb, stage>> /\ stage[t] = "build"
        /\ acc'[t] = [acc[t] EXCEPT ![g] = Acquired(t, g)]
        /\ todo'[t] = todo[t] \ {g}
    BY <1>15 DEF ReadForBuild, heldVars
  <2>2. Shows(Acquired(t, f))
    <3>1. CASE KnownHash(t, f) \in Contents /\ kb[f] = KnownHash(t, f)
      <4>1. Shows(kb[f])
        BY <3>1, UnreadIsNoContent DEF KnownHash, f
      <4>2. QED
        BY <1>3, <3>1, <4>1 DEF Acquired
    <3>2. CASE ~(KnownHash(t, f) \in Contents /\ kb[f] = KnownHash(t, f))
      BY <1>3, <3>2 DEF Acquired
    <3>3. QED
      BY <3>1, <3>2
  <2>3. CASE g = f
    BY <1>2, <1>3, <2>1, <2>2, <2>3 DEF ShowsInReads, f
  <2>4. CASE g # f
    BY <1>2, <1>3, <2>1, <2>4 DEF ShowsInReads, f
  <2>5. QED
    BY <2>1, <2>3, <2>4
<1>16. QED
  BY <1>8, <1>9, <1>10, <1>11, <1>12, <1>13, <1>14, <1>15 DEF Rebuild, f

\* Requests, events and the outside world: what the mutated file becomes is
\* one more state it has been in since.
LEMMA MutationOutside ==
    ASSUME Rescopes = {}, TypeOK, MutationInv,
           \/ Environment \/ (\E e \in inbox : Receive(e)) \/ Quiesce
           \/ IdleReconcile \/ NewRequest \/ Respond
    PROVE  MutationInv'
<1> USE DEF TypeOK
<1>1. CASE Environment
  <2>1. UNCHANGED <<ignored, kb, version, stage, full, dirty, todo, acc, built>>
    BY <1>1 DEF Environment, ExternalWrite, Touch, RemoveDirectory, EditIgnores,
                Overflow, FlagRescan, LoseEvent, heldVars, jobVars
  <2>2. \/ UNCHANGED <<disk, mutation>>
        \/ mutation' = Witness(mutation, disk')
    BY <1>1 DEF Environment, ExternalWrite, Touch, RemoveDirectory, EditIgnores,
                Overflow, FlagRescan, LoseEvent, ChangeDisk
  <2>3. CASE UNCHANGED <<disk, mutation>>
    BY <2>1, <2>3
    DEF MutationInv, Pending, Shows, ShowsInReads, Held, EntryOf, NoMutation
  <2>4. CASE mutation' = Witness(mutation, disk')
    <3>1. CASE mutation.file \in Files
      <4>1. mutation' = [file |-> mutation.file,
                         since |-> mutation.since \cup {disk'[mutation.file]}]
        BY <2>4, <3>1 DEF Witness
      <4>2. /\ mutation'.file = mutation.file /\ mutation.since \subseteq mutation'.since
            /\ disk'[mutation.file] \in mutation'.since
        BY <4>1
      <4>3. (\A h : Shows(h) => Shows(h)') /\ (Pending' <=> Pending)
        BY <2>1, <4>2 DEF Shows, Held, EntryOf, Pending
      <4>4. mutation # NoMutation
        BY <3>1, ConstantsAssumption DEF NoMutation
      <4>5. QED
        BY <2>1, <4>2, <4>3, <4>4 DEF MutationInv, ShowsInReads
    <3>2. CASE mutation.file \notin Files
      <4>1. mutation' = mutation
        BY <2>4, <3>2 DEF Witness
      <4>2. ~Pending'
        BY <3>2, <4>1 DEF Pending, Plain
      <4>3. QED
        BY <2>1, <4>1, <4>2 DEF MutationInv, NoMutation
    <3>3. QED
      BY <3>1, <3>2
  <2>5. QED
    BY <2>2, <2>3, <2>4
<1>2. CASE (\E e \in inbox : Receive(e)) \/ Quiesce \/ IdleReconcile
  <2>1. /\ UNCHANGED <<disk, ignored, kb, version, todo, acc, built, mutation>>
        /\ stage'["watcher"] \in {"burst", "want"}
        /\ UNCHANGED <<stage["writer"], full["writer"], dirty["writer"]>>
    BY <1>2, ConstantsAssumption
    DEF Receive, Quiesce, IdleReconcile, heldVars, jobVars, diskVars
  <2>2. QED
    BY <2>1 DEF MutationInv, Pending, Shows, ShowsInReads, Held, EntryOf, NoMutation
<1>3. CASE (\E f \in Files : MutateFile(f))
  <2>1. PICK f \in Files, s \in MutateStates :
          /\ WriterIdle /\ disk' = [disk EXCEPT ![f] = s]
          /\ mutation' = [file |-> f, since |-> {s}]
          /\ full' = [full EXCEPT !["writer"] = FALSE]
          /\ dirty' = [dirty EXCEPT !["writer"] = {f}]
          /\ stage' = [stage EXCEPT !["writer"] = "want"]
          /\ UNCHANGED version
    BY <1>3 DEF MutateFile, ChangeDisk, heldVars
  <2>2. /\ stage'["writer"] = "want" /\ ~full'["writer"] /\ dirty'["writer"] = {f}
        /\ disk'[f] = s /\ version' > 0 /\ mutation'.file = f /\ mutation'.since = {s}
    BY <2>1, ConstantsAssumption DEF WriterIdle
  <2>3. QED
    BY <2>2 DEF MutationInv, ShowsInReads
<1>4. CASE SetIgnores \/ Register \/ Respond
  <2>1. mutation' = NoMutation
    BY <1>4 DEF SetIgnores, Register, Respond, WriterIdle, MutationInv
  <2>2. ~Pending'
    BY <2>1, ConstantsAssumption DEF Pending, Plain, NoMutation
  <2>3. QED
    BY <2>1, <2>2 DEF MutationInv, NoMutation
<1>5. QED
  BY <1>1, <1>2, <1>3, <1>4 DEF NewRequest

\* The rebuild of the mutation itself.
LEMMA WriterShows ==
    ASSUME CanFail = FALSE, TypeOK, SerialRebuilds, GateInv, HeldGone, MutationInv,
           Pending, Rebuild("writer")
    PROVE  MutationInv'
<1> DEFINE f == mutation.file
           t == "writer"
<1> HIDE DEF f
<1> USE DEF TypeOK
<1>1. /\ UNCHANGED <<disk, ignored, mutation>> /\ t \in Threads
      /\ version > 0 /\ disk[f] \in mutation.since /\ ~full[t]
      /\ stage[t] \in {"want", "filter", "splice", "recompute", "gate", "build"}
           => dirty[t] = {f}
      /\ stage[t] \in {"send", "done", "respond"} => Shows(kb[f])
      /\ f \in Files \ ignored /\ f \notin Dirs
      /\ stage[t] \in {"want", "filter", "splice", "recompute", "gate", "build", "send",
                       "done", "respond"}
  <2>1. UNCHANGED <<disk, ignored, mutation>>
    BY DiskStands, ConstantsAssumption
    DEF Rebuild, Acquire, Release, Diff, Filter, Gate, TrySplice, RecomputeDeclines,
        CommitSplice, Settle, BuildFails, CommitScoped, BeginConfirm, CommitFull,
        Retry, Send, ReadForFingerprint, ReadDirty, ReadForBuild
  <2>2. QED
    BY <2>1, ConstantsAssumption DEF MutationInv, Pending, Plain, f
<1>2. Pending' /\ f' = f /\ \A h : Shows(h)' <=> Shows(h)
  BY <1>1 DEF Pending, Shows, Held, EntryOf, f
<1>3. ShowsInReads(t)' /\ (UNCHANGED kb \/ Shows(kb'[f]))
  <2>1. Shows(kb[mutation.file]) \/ (~full[t] /\ mutation.file \in dirty[t])
    BY <1>1 DEF f
  <2>2. ShowsInReads(t)
    BY DEF MutationInv
  <2>3. QED
    BY <1>1, <2>1, <2>2, ReadsShow DEF f
<1>4. /\ version' > 0 /\ ~full'[t]
      /\ \/ stage'[t] \in {"filter", "splice", "recompute", "gate", "build"}
            /\ dirty'[t] = {f}
         \/ stage'[t] \in {"send", "done", "respond"} /\ Shows(kb'[f])
  <2>1. CASE Acquire(t)
    BY <1>1, <2>1 DEF Acquire, Goto, heldVars
  <2>2. CASE Release(t)
    BY <1>1, <2>2 DEF Release, heldVars
  <2>3. CASE Filter(t)
    <3>1. ExpandRemovedDirectories(ScopeFilterDirty({f})) = {f}
      BY <1>1 DEF ExpandRemovedDirectories, ScopeFilterDirty
    <3>2. dirty[t] = {f} /\ version # 0
      BY <1>1, <2>3 DEF Filter
    <3>3. /\ dirty' = [dirty EXCEPT ![t] = {f}] /\ stage' = [stage EXCEPT ![t] = "splice"]
          /\ UNCHANGED <<full, version>>
      BY <2>3, <3>1, <3>2 DEF Filter, Goto, heldVars
    <3>4. QED
      BY <1>1, <3>3
  <2>4. ASSUME StillMoving(dirty[t], fp) = {}, dirty[t] = {f}, UNCHANGED kb
        PROVE  Shows(kb'[f])
    <3>1. ~PathChanged(f, fp)
      BY <2>4 DEF StillMoving
    <3>2. QED
      BY <1>1, <2>4, <3>1, GateShows DEF GateInv, f
  <2>5. ASSUME Decline(t), stage[t] \in {"splice", "recompute"}, UNCHANGED <<full, dirty, version>>
        PROVE  version' > 0 /\ ~full'[t] /\ stage'[t] = "gate" /\ dirty'[t] = {f}
    BY <1>1, <2>5 DEF Decline, Goto
  <2>6. CASE TrySplice(t)
    <3>1. /\ UNCHANGED <<kb, version, full, dirty>> /\ stage[t] = "splice"
          /\ \/ Decline(t)
             \/ StillMoving(dirty[t], fp) = {} /\ stage'[t] = "done"
             \/ stage'[t] = "recompute"
      BY <1>1, <2>6 DEF TrySplice, Goto, heldVars
    <3>2. QED
      BY <1>1, <2>4, <2>5, <3>1
  <2>7. CASE RecomputeDeclines(t) \/ \E g \in Files : ReadDirty(t, g)
    <3>1. /\ UNCHANGED <<version, full, dirty>> /\ stage[t] = "recompute"
          /\ Decline(t) \/ stage' = stage
      BY <2>7 DEF RecomputeDeclines, ReadDirty, heldVars
    <3>2. QED
      BY <1>1, <2>5, <3>1
  <2>8. CASE CommitSplice(t) \/ CommitScoped(t)
    <3>1. /\ version' = version + 1 /\ UNCHANGED full /\ stage'[t] = "send"
          /\ todo[t] = {} /\ kb' = acc[t] /\ stage[t] \in {"recompute", "build"}
      BY <1>1, <2>8 DEF CommitSplice, CommitScoped, Swap, Goto, jobVars
    <3>2. Shows(acc[t][f])
      BY <3>1 DEF MutationInv, ShowsInReads, f
    <3>3. QED
      BY <1>1, <3>1, <3>2
  <2>9. CASE Gate(t)
    <3>1. /\ UNCHANGED <<kb, version, full, dirty>> /\ stage[t] = "gate"
          /\ \/ StillMoving(dirty[t], fp) = {} /\ stage'[t] = "done"
             \/ stage'[t] = "build"
      BY <1>1, <2>9 DEF Gate, Goto, heldVars
    <3>2. QED
      BY <1>1, <2>4, <3>1
  <2>10. CASE \E g \in Files : ReadForBuild(t, g)
    BY <1>1, <2>10 DEF ReadForBuild, heldVars
  <2>11. CASE Send(t)
    BY <1>1, <2>11 DEF Send, Goto, heldVars, jobVars
  <2>12. ~Diff(t) /\ ~Settle(t) /\ ~BuildFails(t) /\ ~BeginConfirm(t) /\ ~CommitFull(t)
         /\ ~Retry(t) /\ \A g \in Files : ~ReadForFingerprint(t, g)
    BY <1>1 DEF Diff, Settle, BuildFails, BeginConfirm, CommitFull, Retry,
                ReadForFingerprint
  <2>13. QED
    BY <2>1, <2>2, <2>3, <2>6, <2>7, <2>8, <2>9, <2>10, <2>11, <2>12 DEF Rebuild
<1>5. stage'[t] = "respond" => ShowsInReads("watcher")'
  <2>1. stage'["watcher"] \notin Working
    BY <1>1, OthersIdle, ConstantsAssumption
  <2>2. QED
    BY <2>1 DEF ShowsInReads, Working
<1>6. QED
  BY <1>1, <1>2, <1>3, <1>4, <1>5 DEF MutationInv, f

\* The watcher's rebuild beside it.
LEMMA WatcherShows ==
    ASSUME TypeOK, SerialRebuilds, GateInv, HeldGone, MutationInv,
           Rebuild("watcher")
    PROVE  MutationInv'
<1> USE DEF TypeOK
<1>1. UNCHANGED <<disk, ignored, mutation>>
  BY DiskStands, ConstantsAssumption
  DEF Rebuild, Acquire, Release, Diff, Filter, Gate, TrySplice, RecomputeDeclines,
      CommitSplice, Settle, BuildFails, CommitScoped, BeginConfirm, CommitFull,
      Retry, Send, ReadForFingerprint, ReadDirty, ReadForBuild
<1>2. /\ UNCHANGED <<stage["writer"], full["writer"], dirty["writer"]>>
      /\ stage["writer"] \notin Working
  <2>1. stage'["writer"] = stage["writer"] /\ stage["writer"] \notin Working
    BY OthersIdle, ConstantsAssumption
  <2>2. full'["writer"] = full["writer"] /\ dirty'["writer"] = dirty["writer"]
    BY ConstantsAssumption
    DEF Rebuild, Acquire, Release, Diff, Filter, Gate, TrySplice, RecomputeDeclines,
        CommitSplice, Settle, BuildFails, CommitScoped, BeginConfirm, CommitFull,
        Retry, Send, ReadForFingerprint, ReadDirty, ReadForBuild, jobVars
  <2>3. QED
    BY <2>1, <2>2
<1>3. version' \in {version, version + 1}
  BY DEF Rebuild, Acquire, Release, Diff, Filter, Gate, TrySplice, RecomputeDeclines,
         CommitSplice, Settle, BuildFails, CommitScoped, BeginConfirm, CommitFull,
         Retry, Send, ReadForFingerprint, ReadDirty, ReadForBuild, heldVars, Swap
<1>4. (\A h : Shows(h)' <=> Shows(h)) /\ (Pending' <=> Pending)
  BY <1>1 DEF Shows, Held, EntryOf, Pending
<1>5. ShowsInReads("writer")'
  BY <1>2 DEF ShowsInReads, Working
<1>6. ASSUME Pending, stage["writer"] = "respond"
      PROVE  ShowsInReads("watcher")' /\ Shows(kb'[mutation.file])
  <2>1. /\ disk[mutation.file] \in mutation.since /\ Shows(kb[mutation.file])
        /\ ShowsInReads("watcher")
    BY <1>6 DEF MutationInv
  <2>2. QED
    BY <1>6, <2>1, ReadsShow, ConstantsAssumption
<1>7. QED
  BY <1>1, <1>2, <1>3, <1>4, <1>5, <1>6 DEF MutationInv, Working, NoMutation

LEMMA MutationInit == Init => MutationInv
BY ConstantsAssumption DEF Init, MutationInv, Pending, Plain, NoMutation

LEMMA MutationNext ==
    ASSUME Rescopes = {}, CanFail = FALSE, TypeOK, SerialRebuilds,
           GateInv, GoneInv, MutationInv, [Next]_vars
    PROVE  MutationInv'
<1>1. HeldGone
  BY DEF GoneInv
<1>2. CASE Rebuild("writer")
  <2>1. CASE Pending
    BY <1>1, <1>2, <2>1, WriterShows
  <2>2. CASE ~Pending
    <3>1. UNCHANGED <<ignored, mutation>> /\ stage'["writer"] # "idle"
      BY <1>2, ConstantsAssumption
      DEF Rebuild, Acquire, Release, Diff, Filter, Gate, TrySplice, RecomputeDeclines,
          CommitSplice, Settle, BuildFails, CommitScoped, BeginConfirm, CommitFull,
          Retry, Send, ReadForFingerprint, ReadDirty, ReadForBuild, Goto, Decline,
          NextPass, diskVars, TypeOK
    <3>2. QED
      BY <2>2, <3>1 DEF MutationInv, Pending
  <2>3. QED
    BY <2>1, <2>2
<1>3. CASE UNCHANGED vars
  BY <1>3 DEF vars, MutationInv, Pending, Shows, ShowsInReads, Held, EntryOf, NoMutation
<1>4. QED
  BY <1>1, <1>2, <1>3, MutationOutside, WatcherShows DEF Next, Watcher, Writer

\* The answer to a mutation of a file the build reads is given from a knowledge
\* base that holds the file as the mutation, or a change after it, left it:
\* whatever the watcher's rebuilds read and swap in meanwhile, whatever other
\* tools write, and whether the mutation's own rebuild splices, builds or is
\* turned back by the gate (rebuild_paths_locked).  Files can be read or are
\* not there, none returns to a state it left, and no build fails: a gate that
\* compares hashes is blind to files without one, and a rebuild that gives up
\* leaves what was held.
THEOREM MutationsAreReflected ==
    ASSUME Rescopes = {}, CanReturn = FALSE, CanFail = FALSE, Readable
    PROVE  Spec => [](mutation.file \notin Assets => MutationReflected)
<1>1. MutationInv => (mutation.file \notin Assets => MutationReflected)
  BY DEF MutationInv, Pending, Plain, MutationReflected, Responding, Shows
<1>2. TypeOK /\ SerialRebuilds /\ GateInv /\ GoneInv /\ MutationInv /\ [Next]_vars
      => MutationInv'
  BY MutationNext
<1>3. Spec => [](TypeOK /\ SerialRebuilds /\ GateInv /\ GoneInv)
  BY TypeCorrect, RebuildsAreSerial, GateIsKept, GoneIsKept, PTL
<1> QED
  BY <1>1, <1>2, <1>3, MutationInit, PTL DEF Spec

-----------------------------------------------------------------------------
(* The version.  A path that moved off its fingerprint entry stays moved,  *)
(* and what a rebuild reads of it is not what was recorded: so what is     *)
(* swapped in differs.                                                     *)

Moved(p) == p \in Files \ ignored /\ PathChanged(p, fp)

\* One of some paths has moved, and has been read so if it has been read.
SeenMoved(t, ps) ==
    \E p \in ps : Moved(p) /\ (p \notin todo[t] => acc[t][p] # fp[p])

\* Why a rebuild will swap in something new, if it swaps anything in.
Reason(t) ==
    /\ full[t] /\ stage[t] \in Later => dirty[t] \subseteq Files
    /\ stage[t] = "recompute" => SeenMoved(t, dirty[t])
    /\ stage[t] = "build" /\ ~full[t] /\ Schema \notin dirty[t] => SeenMoved(t, dirty[t])
    /\ full[t] /\ version > 0 /\ stage[t] \in {"splice", "build"}
         => fp # snap[t] \/ \E p \in Files : Moved(p)
    /\ stage[t] = "confirm" /\ version > 0 => fp # snap[t] \/ SeenMoved(t, Files)

\* What the comparison of hashes tells of a file that can be read.
LEMMA ChangedMeans ==
    ASSUME TypeOK, HeldGone, Assets = {}, NEW p \in Files
    PROVE  PathChanged(p, fp) <=>
             IF disk[p] = Absent THEN fp[p] \notin {NoEntry, Unread} ELSE fp[p] # disk[p]
<1>1. p \in Plain /\ BuildReadsContent(p) /\ p # Schema
  BY ConstantsAssumption DEF Plain, BuildReadsContent
<1>2. disk[p] \in Contents \cup {Absent}
  BY <1>1 DEF HeldGone
<1>3. PathChanged(p, fp) <=> FreshHash(disk[p]) # RecordedContent(fp, p)
  BY <1>1 DEF PathChanged
<1>4. CASE disk[p] = Absent
  BY <1>3, <1>4, ConstantsAssumption DEF FreshHash, RecordedContent
<1>5. CASE disk[p] \in Contents
  BY <1>3, <1>5, ConstantsAssumption
  DEF FreshHash, RecordedContent, Unread, NoEntry, Absent, Unreadable, Oversize
<1>6. QED
  BY <1>2, <1>4, <1>5

\* What a rebuild reads of a file that moved is not what was recorded.
LEMMA MovedReads ==
    ASSUME TypeOK, HeldGone, Assets = {}, NEW p \in Files, Moved(p)
    PROVE  /\ FpOf(p, disk[p]) # fp[p] /\ Spliced(p, disk[p]) # fp[p]
           /\ EntryOf(p, disk[p]) # fp[p]
           /\ disk[p] = Absent => fp[p] # NoEntry
<1>1. IF disk[p] = Absent THEN fp[p] \notin {NoEntry, Unread} ELSE fp[p] # disk[p]
  BY ChangedMeans DEF Moved
<1>2. disk[p] \in Contents \cup {Absent} /\ BuildReadsContent(p)
  BY DEF HeldGone, Plain, BuildReadsContent
<1>3. CASE disk[p] = Absent
  BY <1>1, <1>3, ConstantsAssumption DEF FpOf, Spliced, EntryOf, Absent
<1>4. CASE disk[p] \in Contents
  BY <1>1, <1>2, <1>4, ConstantsAssumption
  DEF FpOf, Spliced, EntryOf, Absent, Unreadable, Oversize
<1>5. QED
  BY <1>2, <1>3, <1>4

\* It stays moved, since no file returns to what was recorded of it.
LEMMA MovedStays ==
    ASSUME TypeOK, TypeOK', GateInv, GoneInv, GoneInv', Assets = {}, Outside,
           version > 0, NEW p \in Files, Moved(p)
    PROVE  Moved(p)'
<1>1. /\ UNCHANGED <<fp, ignored>> /\ p \notin ignored
      /\ disk'[p] = disk[p] \/ disk'[p] \notin seen[p]
  BY DEF Outside, Onwards, Moved
<1>2. Known(fp[p], p) /\ WasGone(fp[p], p)
  BY <1>1 DEF GateInv, HeldTrue, AllKnown, GoneInv, HeldGone, Plain
<1>3. IF disk[p] = Absent THEN fp[p] \notin {NoEntry, Unread} ELSE fp[p] # disk[p]
  BY ChangedMeans DEF Moved, GoneInv
<1>4. disk'[p] \in Contents \cup {Absent}
  BY DEF GoneInv, HeldGone, Plain
<1>5. IF disk'[p] = Absent THEN fp[p] \notin {NoEntry, Unread} ELSE fp[p] # disk'[p]
  <2>1. CASE disk'[p] = disk[p]
    BY <1>3, <2>1
  <2>2. CASE disk'[p] \notin seen[p] /\ disk'[p] = Absent
    BY <1>2, <2>2, ConstantsAssumption DEF Known, Means, WasGone
  <2>3. CASE disk'[p] \notin seen[p] /\ disk'[p] \in Contents
    BY <1>2, <2>3, ConstantsAssumption DEF Known, Means, Unread, NoEntry, SizeHash
  <2>4. QED
    BY <1>1, <1>4, <2>1, <2>2, <2>3
<1>6. PathChanged(p, fp)'
  <2>1. BuildReadsContent(p) /\ p # Schema
    BY ConstantsAssumption DEF BuildReadsContent
  <2>2. FreshHash(disk'[p]) # RecordedContent(fp, p)
    BY <1>4, <1>5, ConstantsAssumption
    DEF FreshHash, RecordedContent, Unread, NoEntry, Absent, Unreadable, Oversize
  <2>3. PathChanged(p, fp)' <=> FreshHash(disk'[p]) # RecordedContent(fp, p)
    BY <1>1, <2>1 DEF PathChanged, RecordedContent
  <2>4. QED
    BY <2>2, <2>3
<1>7. QED
  BY <1>1, <1>6 DEF Moved

LEMMA ReasonOutside ==
    ASSUME TypeOK, TypeOK', GateInv, GoneInv, GoneInv', Assets = {}, Outside,
           NEW t \in Threads, Reason(t)
    PROVE  Reason(t)'
<1>1. UNCHANGED <<fp, version, snap, todo, acc, ignored>>
  BY DEF Outside, Onwards
<1>2. CASE stage'[t] \in {"burst", "want", "idle"}
  BY <1>2 DEF Reason, Later
<1>3. CASE UNCHANGED <<stage[t], full[t], dirty[t]>>
  <2>1. version > 0 => \A p \in Files : Moved(p) => Moved(p)'
    BY MovedStays
  <2>2. version > 0 => \A ps \in SUBSET Paths : SeenMoved(t, ps) => SeenMoved(t, ps)'
    BY <1>1, <2>1 DEF SeenMoved, Moved
  <2>3. dirty[t] \in SUBSET Paths /\ Files \in SUBSET Paths
    BY DEF TypeOK, Paths
  <2>4. stage[t] \in {"recompute", "build"} /\ (stage[t] = "build" => ~full[t]) => version > 0
    BY DEF GateInv, ReadTrue
  <2>6. QED
    BY <1>1, <1>3, <2>1, <2>2, <2>3, <2>4 DEF Reason, SeenMoved
<1>4. QED
  BY <1>2, <1>3 DEF Outside

\* What the expansion and the filter leave of files are files.
LEMMA FilesStayFiles ==
    ASSUME NEW ps \in SUBSET Files
    PROVE  ExpandRemovedDirectories(ScopeFilterDirty(ps)) \subseteq Files
BY ConstantsAssumption DEF ExpandRemovedDirectories, ScopeFilterDirty

\* A walk reads later what is there; what is not there has been read.
LEMMA WalkReason ==
    ASSUME TypeOK, HeldGone, Assets = {}, NEW t \in Threads, UNCHANGED <<disk, ignored, fp>>,
           NEW p \in Files, Moved(p),
           Walk(t, OnDisk) \/ Walk(t, OnDisk \ ignored)
    PROVE  Moved(p)' /\ (p \notin todo'[t] => acc'[t][p] # fp'[p])
<1>1. /\ todo'[t] \in {OnDisk, OnDisk \ ignored} /\ acc'[t][p] = NoEntry
  BY DEF Walk, Nothing, TypeOK
<1>2. p \notin todo'[t] => disk[p] = Absent
  BY <1>1 DEF OnDisk, Moved
<1>3. QED
  BY <1>1, <1>2, MovedReads DEF Moved, PathChanged, FreshHash, RecordedContent

LEMMA ReadsReason ==
    ASSUME TypeOK, GateInv, HeldGone, Assets = {}, NEW t \in Threads, Reason(t),
           NEW g \in Files,
           ReadForFingerprint(t, g) \/ ReadForBuild(t, g)
             \/ (ReadDirty(t, g) /\ ~Refused(g, disk[g]))
    PROVE  Reason(t)'
<1> USE DEF TypeOK, Catalogs
<1>1. /\ UNCHANGED <<disk, ignored, fp, full, snap, dirty, stage, version>>
      /\ stage[t] \in {"fingerprint", "confirm", "recompute", "build"}
      /\ todo'[t] = todo[t] \ {g}
  BY DEF ReadForFingerprint, ReadForBuild, ReadDirty, diskVars, heldVars
<1>2. PICK h : /\ acc'[t] = [acc[t] EXCEPT ![g] = h]
               /\ \/ h = FpOf(g, disk[g]) /\ stage[t] \in {"fingerprint", "confirm"}
                  \/ h = Acquired(t, g) /\ stage[t] = "build"
                  \/ h = Spliced(g, disk[g]) /\ stage[t] = "recompute"
  BY DEF ReadForFingerprint, ReadForBuild, ReadDirty
<1>3. \A p \in Files : Moved(p)' <=> Moved(p)
  BY <1>1 DEF Moved, PathChanged, FreshHash, RecordedContent
<1>4. ASSUME Moved(g), stage[t] = "build" => ~full[t] /\ g \in dirty[t]
      PROVE  h # fp[g]
  <2>1. stage[t] = "build" => Acquired(t, g) = EntryOf(g, disk[g])
    BY <1>4, UnreadIsNoContent DEF Acquired, KnownHash
  <2>2. QED
    BY <1>2, <1>4, <2>1, MovedReads
<1>5. ASSUME NEW ps, SeenMoved(t, ps), ps \subseteq Files \cup dirty[t],
             stage[t] = "build" => ~full[t] /\ ps \subseteq dirty[t]
      PROVE  SeenMoved(t, ps)'
  <2>1. PICK p \in ps : Moved(p) /\ (p \notin todo[t] => acc[t][p] # fp[p])
    BY <1>5 DEF SeenMoved
  <2>2. p \in Files /\ Moved(p)'
    BY <1>3, <2>1 DEF Moved
  <2>3. p \notin todo'[t] => acc'[t][p] # fp'[p]
    <3>1. CASE p = g
      BY <1>1, <1>2, <1>4, <1>5, <2>1, <2>2, <3>1
    <3>2. CASE p # g
      BY <1>1, <1>2, <2>1, <2>2, <3>2
    <3>3. QED
      BY <3>1, <3>2
  <2>4. SeenMoved(t, ps)' <=> \E q \in ps : Moved(q)' /\ (q \notin todo'[t] => acc'[t][q] # fp'[q])
    BY DEF SeenMoved
  <2>5. QED
    BY <2>1, <2>2, <2>3, <2>4
<1>6. QED
  BY <1>1, <1>3, <1>5 DEF Reason, SeenMoved, Later

\* The steps of a rebuild that swap nothing in.
LEMMA StepReason ==
    ASSUME TypeOK, GateInv, HeldGone, ScopeKept, Assets = {}, NEW t \in Threads,
           Reason(t), Rebuild(t), ~CommitSplice(t), ~CommitScoped(t), ~CommitFull(t)
    PROVE  Reason(t)'
<1> USE DEF TypeOK
<1>1. ReadTrue(t) /\ UNCHANGED <<disk, ignored>>
  BY DiskStands DEF GateInv
<1>2. ASSUME stage'[t] \in {"fingerprint", "filter", "gate", "done", "wait", "respond"}
      PROVE  Reason(t)'
  BY <1>2 DEF Reason, Later
<1>3. ASSUME UNCHANGED <<kb, fp, version>>
      PROVE  \A p \in Files : Moved(p)' <=> Moved(p)
  BY <1>1, <1>3 DEF Moved, PathChanged, FreshHash, RecordedContent
<1>4. ASSUME UNCHANGED <<kb, fp, version, full, snap, dirty>>, stage[t] \in {"splice", "recompute"},
             Decline(t)
      PROVE  Reason(t)'
  <2>1. CASE full[t]
    <3>1. stage'[t] = "build" /\ full'[t]
      BY <1>4, <2>1 DEF Decline, Goto
    <3>2. version > 0 => fp # snap[t] \/ \E p \in Files : Moved(p)
      BY <1>4, <2>1 DEF Reason, SeenMoved, Moved
    <3>3. dirty[t] \subseteq Files
      BY <1>4, <2>1 DEF Reason, Later
    <3>4. QED
      BY <1>3, <1>4, <3>1, <3>2, <3>3 DEF Reason, Later
  <2>2. CASE ~full[t]
    BY <1>2, <1>4, <2>2 DEF Decline, Goto
  <2>3. QED
    BY <2>1, <2>2
<1>5. ASSUME NEW p \in StillMoving(dirty[t], fp), p # Schema,
             stage[t] \in {"splice", "settle", "gate"}
      PROVE  Moved(p)
  BY <1>5 DEF StillMoving, PathChanged, Moved, ScopeKept
<1>6. CASE Acquire(t) \/ Release(t) \/ Filter(t)
  BY <1>1, <1>2, <1>6 DEF Acquire, Release, Filter, Goto, ReadTrue, Reason, Later, heldVars
<1>7. CASE Diff(t)
  <2>1. /\ UNCHANGED <<kb, fp, version, full>> /\ full[t] /\ snap'[t] = acc[t]
        /\ dirty'[t] \subseteq Files
        /\ stage'[t] \in {"done", "splice", "build"}
        /\ version > 0 /\ stage'[t] # "done" => fp # acc[t]
    BY <1>1, <1>7, FilesStayFiles DEF Diff, heldVars, Goto, FingerprintDiff, ReadTrue
  <2>2. QED
    BY <2>1 DEF Reason, Later
<1>8. CASE Gate(t)
  <2>1. /\ UNCHANGED <<kb, fp, version, full, dirty>> /\ ~full[t] /\ stage[t] = "gate"
        /\ \/ stage'[t] = "done"
           \/ /\ stage'[t] = "build" /\ Walk(t, OnDisk \ ignored)
              /\ StillMoving(dirty[t], fp) # {}
    BY <1>1, <1>8 DEF Gate, heldVars, Goto, ReadTrue
  <2>2. CASE stage'[t] = "build" /\ Schema \notin dirty[t]
    <3>1. PICK p \in StillMoving(dirty[t], fp) : p \in dirty[t] /\ Moved(p)
      BY <1>5, <2>1, <2>2 DEF StillMoving
    <3>2. Moved(p)' /\ (p \notin todo'[t] => acc'[t][p] # fp'[p])
      BY <1>1, <2>1, <2>2, <3>1, WalkReason DEF Moved
    <3>3. SeenMoved(t, dirty[t])'
      BY <2>1, <3>1, <3>2 DEF SeenMoved
    <3>4. QED
      BY <2>1, <2>2, <3>3 DEF Reason, Later
  <2>3. QED
    BY <2>1, <2>2 DEF Reason, Later
<1>9. CASE TrySplice(t)
  <2>1. /\ UNCHANGED <<kb, fp, version, full, dirty, snap>> /\ stage[t] = "splice"
        /\ \/ Decline(t)
           \/ stage'[t] = "done"
           \/ stage'[t] = "settle"
           \/ /\ stage'[t] = "recompute" /\ todo'[t] = dirty[t] \cap Files
              /\ StillMoving(dirty[t], fp) # {} /\ Schema \notin dirty[t]
    BY <1>9 DEF TrySplice, heldVars, Goto, NeedsFull
  <2>2. CASE stage'[t] = "recompute" /\ ~Decline(t)
    <3>1. PICK p \in StillMoving(dirty[t], fp) : p \in dirty[t] /\ Moved(p)
      BY <1>5, <2>1, <2>2 DEF StillMoving
    <3>2. Moved(p)' /\ p \in todo'[t]
      BY <1>3, <2>1, <2>2, <3>1 DEF Moved
    <3>3. SeenMoved(t, dirty[t])'
      BY <2>1, <3>1, <3>2 DEF SeenMoved
    <3>4. QED
      BY <2>1, <2>2, <3>3 DEF Reason, Later
  <2>3. CASE stage'[t] = "settle"
    BY <2>1, <2>3 DEF Reason, Later
  <2>4. QED
    BY <1>2, <1>4, <2>1, <2>2, <2>3
<1>10. CASE RecomputeDeclines(t) \/ (\E f \in Files : ReadDirty(t, f) /\ Refused(f, disk[f]))
  BY <1>4, <1>10 DEF RecomputeDeclines, ReadDirty, heldVars
<1>11. CASE Settle(t)
  <2>1. /\ UNCHANGED <<kb, fp, version, full, snap>> /\ stage[t] = "settle"
        /\ \/ stage'[t] = "done"
           \/ /\ stage'[t] = "splice" /\ dirty'[t] = StillMoving(dirty[t], fp)
              /\ StillMoving(dirty[t], fp) # {}
    BY <1>11 DEF Settle, heldVars, Goto
  <2>2. CASE stage'[t] = "splice" /\ full[t]
    <3>1. dirty[t] \subseteq Files
      BY <2>1, <2>2 DEF Reason, Later
    <3>2. PICK p \in StillMoving(dirty[t], fp) : p \in Files
      BY <2>1, <2>2, <3>1 DEF StillMoving
    <3>3. Moved(p)'
      BY <1>3, <1>5, <2>1, <3>2, ConstantsAssumption
    <3>4. QED
      BY <2>1, <2>2, <3>1, <3>2, <3>3 DEF Reason, Later, StillMoving
  <2>3. QED
    BY <1>2, <2>1, <2>2 DEF Reason, Later
<1>12. CASE BuildFails(t) \/ Retry(t)
  BY <1>2, <1>12 DEF BuildFails, Retry, NextPass, Goto
<1>13. CASE BeginConfirm(t)
  <2>1. /\ UNCHANGED <<kb, fp, version, full, dirty, snap>> /\ full[t]
        /\ stage[t] = "build" /\ stage'[t] = "confirm" /\ Walk(t, OnDisk)
    BY <1>13 DEF BeginConfirm, heldVars, Goto
  <2>2. ASSUME NEW p \in Files, Moved(p)
        PROVE  SeenMoved(t, Files)'
    BY <1>1, <2>1, <2>2, WalkReason DEF SeenMoved
  <2>3. QED
    BY <2>1, <2>2 DEF Reason, Later
<1>14. CASE Send(t)
  BY <1>2, <1>14 DEF Send, heldVars, jobVars, Goto, Reason, Later
<1>15. CASE \E f \in Files : \/ ReadForFingerprint(t, f) \/ ReadForBuild(t, f)
                             \/ ReadDirty(t, f) /\ ~Refused(f, disk[f])
  BY <1>15, ReadsReason
<1>16. QED
  BY <1>6, <1>7, <1>8, <1>9, <1>10, <1>11, <1>12, <1>13, <1>14, <1>15 DEF Rebuild

\* The three swaps: each is for something.
LEMMA CommitReason ==
    ASSUME TypeOK, NEW t \in Threads, Reason(t),
           CommitSplice(t) \/ CommitScoped(t) \/ CommitFull(t)
    PROVE  /\ Reason(t)'
           /\ version > 0 => fp' # fp \/ (stage'[t] # stage[t] /\ Schema \in dirty[t])
<1> USE DEF TypeOK, Catalogs
<1>1. /\ UNCHANGED <<full, dirty>> /\ stage[t] \in Later /\ stage[t] # "send"
      /\ stage'[t] = "send" /\ todo[t] = {}
  BY DEF CommitSplice, CommitScoped, CommitFull, Goto, jobVars, Later
<1>2. Reason(t)'
  BY <1>1 DEF Reason, Later
<1>3. ASSUME NEW ps, SeenMoved(t, ps)
      PROVE  \E p \in ps \cap Files : acc[t][p] # fp[p]
  BY <1>1, <1>3 DEF SeenMoved, Moved
<1>4. CASE CommitSplice(t) \/ CommitScoped(t)
  <2>1. /\ fp' = UpdatedFingerprint(fp, dirty[t], acc[t])
        /\ stage[t] = "recompute" \/ (stage[t] = "build" /\ ~full[t])
    BY <1>4 DEF CommitSplice, CommitScoped, Swap
  <2>2. CASE Schema \in dirty[t]
    BY <1>1, <1>2, <2>2 DEF Later
  <2>3. CASE Schema \notin dirty[t]
    <3>1. PICK p \in dirty[t] \cap Files : acc[t][p] # fp[p]
      BY <1>3, <2>1, <2>3 DEF Reason
    <3>2. fp' # fp
      BY <2>1, <3>1 DEF UpdatedFingerprint
    <3>3. QED
      BY <1>2, <3>2
  <2>4. QED
    BY <2>2, <2>3
<1>5. CASE CommitFull(t)
  <2>1. fp' = snap[t] /\ acc[t] = snap[t] /\ stage[t] = "confirm"
    BY <1>5 DEF CommitFull, Swap
  <2>2. version > 0 => fp # snap[t]
    BY <1>3, <2>1 DEF Reason
  <2>3. QED
    BY <1>2, <2>1, <2>2
<1>6. QED
  BY <1>4, <1>5

\* Every rebuild at work has a reason, its pass not yet at the gate excepted.
Reasons == \A t \in Threads : Reason(t)

LEMMA ReasonsNext ==
    ASSUME Rescopes = {}, CanReturn = FALSE, Assets = {}, TypeOK, TypeOK',
           SerialRebuilds, ScopeKept, GateInv, GoneInv, GoneInv', Reasons, [Next]_vars
    PROVE  Reasons'
<1>1. HeldGone
  BY DEF GoneInv
<1>2. ASSUME Outside
      PROVE  Reasons'
  BY <1>2, ReasonOutside DEF Reasons
<1>3. CASE \/ Environment \/ (\E e \in inbox : Receive(e)) \/ Quiesce
           \/ IdleReconcile \/ NewRequest \/ Respond
  BY <1>2, <1>3, OutsideSteps DEF GateInv, HeldTrue
<1>4. ASSUME NEW t \in Threads, Rebuild(t)
      PROVE  Reasons'
  <2>1. Reason(t)'
    BY <1>1, <1>4, StepReason, CommitReason DEF Reasons
  <2>2. ASSUME NEW u \in Threads \ {t}
        PROVE  Reason(u)'
    <3>1. stage'[u] \notin Working
      BY <1>4, OthersIdle
    <3>2. QED
      BY <3>1 DEF Reason, Working, Later
  <2>3. QED
    BY <2>1, <2>2 DEF Reasons
<1>5. CASE UNCHANGED vars
  <2>1. Outside
    BY <1>5 DEF vars, Outside, Onwards, GateInv, HeldTrue
  <2>2. QED
    BY <1>2, <2>1
<1>6. QED
  BY <1>3, <1>4, <1>5, ConstantsAssumption DEF Next, Watcher, Writer

\* The version advances, and subscribers are woken, only for a change of what
\* is held: each gate lets a rebuild through for a path that moved off its
\* entry, such a path stays moved until the swap, and what is read of it is
\* new.  A rewalk the schema path forces is the exception, in the code too.
\* Files can be read or are not there and none returns to a state it left:
\* otherwise a file that moved can be back by the time it is read, as an asset,
\* recorded by its presence alone, can when it is removed and put back.
THEOREM VersionsAreForSomething ==
    ASSUME Rescopes = {}, CanReturn = FALSE, Assets = {}, Readable
    PROVE  Spec => NoPhantomVersion
<1>1. Init => Reasons
  BY DEF Init, Reasons, Reason, Later
<1>2. /\ TypeOK /\ TypeOK' /\ SerialRebuilds /\ ScopeKept /\ GateInv /\ GoneInv
      /\ GoneInv' /\ Reasons /\ [Next]_vars
      => Reasons'
  BY ReasonsNext
<1>3. ASSUME TypeOK, Reasons, [Next]_vars, version' # version
      PROVE  ForSomething
  <2>1. PICK t \in Threads : CommitSplice(t) \/ CommitScoped(t) \/ CommitFull(t)
    BY <1>3, OnlySwapsChangeVersion
  <2>2. version > 0 => fp' # fp \/ (stage'[t] # stage[t] /\ Schema \in dirty[t])
    BY <1>3, <2>1, CommitReason DEF Reasons
  <2>3. version \in Nat
    BY <1>3 DEF TypeOK
  <2>4. QED
    BY <2>2, <2>3 DEF ForSomething
<1>4. Spec => [](TypeOK /\ SerialRebuilds /\ ScopeKept /\ GateInv /\ GoneInv)
  BY TypeCorrect, RebuildsAreSerial, ScopeIsKept, GateIsKept, GoneIsKept, PTL
<1>5. TypeOK /\ Reasons /\ [Next]_vars => ForSomething
  BY <1>3 DEF ForSomething
<1> QED
  BY <1>1, <1>2, <1>4, <1>5, PTL DEF Spec, NoPhantomVersion

-----------------------------------------------------------------------------
(* The channel alone.  With no other writer, only the mutation not yet     *)
(* answered can have left a file behind: everything else is held and read  *)
(* as it is, and the rebuild of that file runs on a disk that stands still.*)

\* The mutation channel is the only writer, so no directory is removed either
\* and no event names one, and every build succeeds.
ChannelAlone ==
    Rescopes = {} /\ WriteStates = {} /\ Dirs = {} /\ CanFail = FALSE /\ Readable

\* Events name files, so no rebuild is forced that finds nothing changed.
EventsNameFiles ==
    /\ inbox \cup burst \subseteq Files \cup {Rescan}
    /\ \A t \in Threads : dirty[t] \subseteq Files

\* The stages fit what is held and the scope of the rebuild.
StagesFit(t) ==
    /\ (\/ stage[t] \in {"splice", "recompute", "settle", "gate", "send"}
        \/ stage[t] = "build" /\ ~full[t]) => version > 0
    /\ stage[t] \in {"fingerprint", "confirm", "settle"} => full[t]
    /\ stage[t] \in {"filter", "gate"} => ~full[t]

\* What may be recorded of a file, and catalogued with it.
Plainly(h, f) == h \in IF f \in Assets THEN {NoEntry, Unread} ELSE Contents \cup {NoEntry}

\* The file is the mutation's, and its rebuild is not done.
Behind(f) == f = mutation.file /\ stage["writer"] \notin {"send", "done", "respond", "idle"}

\* The file is held, and recorded if it is not excluded, as it is on disk.
HeldExact(f) ==
    version > 0 => kb[f] = View[f] /\ (f \notin ignored => fp[f] = Fingerprint[f])

\* What a rebuild has read of the file is there, and what it has yet to read exists.
ReadsExactly(t, f) ==
    /\ stage[t] \in {"fingerprint", "confirm"} =>
         IF f \in todo[t] THEN disk[f] # Absent ELSE acc[t][f] = Fingerprint[f]
    /\ full[t] /\ stage[t] \in Later => snap[t][f] = Fingerprint[f]
    /\ stage[t] = "build" =>
         IF f \in todo[t] THEN disk[f] # Absent /\ f \notin ignored
         ELSE acc[t][f] = View[f]
    /\ stage[t] = "confirm" => built[t][f] = View[f]

\* What a splice has read is there, whichever file it is.
SplicesExactly(t, f) ==
    stage[t] = "recompute" =>
      /\ f \notin dirty[t] => f \notin todo[t] /\ acc[t][f] = kb[f]
      /\ f \in dirty[t] /\ f \notin todo[t] => acc[t][f] = View[f]

\* A watcher's rebuild that the mutation of f overtook: either its first
\* fingerprint is of the new state, and so is the rest, or what it has read of
\* the old state will not pass the confirm, or is all of it of the old state.
ReadsEither(t, f) ==
    /\ stage[t] = "build" /\ ~full[t] => f \in dirty[t]
    /\ stage[t] = "build" /\ (full[t] => snap[t][f] = Fingerprint[f]) =>
         IF f \in todo[t] THEN disk[f] # Absent /\ f \notin ignored
         ELSE acc[t][f] = View[f]
    /\ stage[t] = "confirm" =>
         IF snap[t][f] = Fingerprint[f] THEN built[t][f] = View[f]
         ELSE (IF f \in todo[t] THEN FpOf(f, disk[f]) ELSE acc[t][f]) = snap[t][f]
                => built[t][f] = snap[t][f] /\ Plainly(snap[t][f], f)

\* The mutation may have come between two reads of the rebuild.
Overtaken(t, f) == t = "watcher" /\ Behind(f)

\* At what stages a mutation is pending, and that a scoped rebuild of the watcher
\* reads only while the mutation waits for the lock.
WriterInv ==
    /\ stage["writer"] \notin {"wait", "burst"}
    /\ stage["writer"] = "idle" => mutation = NoMutation
    /\ stage["writer"] \in {"send", "done", "respond", "idle"} => version > 0
    /\ full["writer"] => mutation = NoMutation
    /\ ~full["writer"] /\ stage["writer"] \in {"want", "filter", "splice", "recompute",
                                              "gate", "build"} =>
         mutation.file \in Files /\ dirty["writer"] = {mutation.file} /\ version > 0
    /\ (\/ stage["watcher"] = "recompute"
        \/ stage["watcher"] = "build" /\ ~full["watcher"]) => stage["writer"] = "want"

\* Every file can be read, or is not there.
Legible == \A f \in Plain : disk[f] \in Contents \cup {Absent}

\* What is recorded of the file is what is catalogued.
HeldAlike(f) == version > 0 /\ f \notin ignored => fp[f] = kb[f] /\ Plainly(kb[f], f)

\* What a rebuild has read of the file, by whether the mutation may have overtaken it.
ReadsRightly(t, f) ==
    /\ SplicesExactly(t, f)
    /\ IF Overtaken(t, f) THEN f \notin ignored => ReadsEither(t, f)
       ELSE ReadsExactly(t, f)

\* All that is known of one file, then of all: the inductive invariant.
AllFit == \A t \in Threads : StagesFit(t)

FileInv(f) ==
    /\ HeldAlike(f)
    /\ ~Behind(f) => HeldExact(f)
    /\ \A t \in Threads : ReadsRightly(t, f)

ChannelInv ==
    EventsNameFiles /\ AllFit /\ Legible /\ WriterInv /\ \A f \in Files : FileInv(f)


LEMMA EventsInit == Init => EventsNameFiles
BY DEF Init, EventsNameFiles

LEMMA EventsNext ==
    ASSUME ChannelAlone, TypeOK, EventsNameFiles, [Next]_vars
    PROVE  EventsNameFiles'
<1> USE DEF EventsNameFiles, TypeOK
<1>1. CASE Environment
  BY <1>1, ConstantsAssumption
  DEF ChannelAlone, Environment, ExternalWrite, Touch, RemoveDirectory, EditIgnores,
      Overflow, FlagRescan, LoseEvent, watchVars, jobVars
<1>2. CASE (\E e \in inbox : Receive(e)) \/ Quiesce \/ IdleReconcile
  BY <1>2 DEF Receive, Quiesce, IdleReconcile, diskVars, jobVars
<1>3. CASE NewRequest \/ Respond
  BY <1>3 DEF ChannelAlone, NewRequest, MutateFile, SetIgnores, Register, Respond, ChangeDisk,
              diskVars, watchVars, jobVars
<1>4. ASSUME NEW t \in Threads, Rebuild(t)
      PROVE  EventsNameFiles'
  <2>1. UNCHANGED <<inbox, burst>>
    BY <1>4 DEF Rebuild, Acquire, Release, Diff, Filter, Gate, TrySplice,
       RecomputeDeclines, CommitSplice, Settle, BuildFails, CommitScoped, BeginConfirm,
       CommitFull, Retry, Send, ReadForFingerprint, ReadDirty, ReadForBuild, diskVars,
       watchVars
  <2>2. CASE Diff(t) \/ Filter(t) \/ Settle(t) \/ Release(t)
    <3>1. ExpandRemovedDirectories(ScopeFilterDirty(FingerprintDiff(fp, acc[t]))) \subseteq Files
      BY FilesStayFiles DEF FingerprintDiff
    <3>2. ExpandRemovedDirectories(ScopeFilterDirty(dirty[t])) \subseteq Files
      BY FilesStayFiles
    <3>3. StillMoving(dirty[t], fp) \subseteq Files
      BY DEF StillMoving
    <3>4. dirty'[t] \subseteq Files /\ \A u \in Threads : u # t => dirty'[u] = dirty[u]
      BY <2>2, <3>1, <3>2, <3>3 DEF Diff, Filter, Settle, Release
    <3>5. QED
      BY <2>1, <3>4
  <2>3. CASE ~(Diff(t) \/ Filter(t) \/ Settle(t) \/ Release(t))
    <3>1. UNCHANGED dirty
      BY <1>4, <2>3 DEF Rebuild, Acquire, Gate, TrySplice,
       RecomputeDeclines, CommitSplice, BuildFails, CommitScoped, BeginConfirm,
       CommitFull, Retry, Send, ReadForFingerprint, ReadDirty, ReadForBuild, jobVars
    <3>2. QED
      BY <2>1, <3>1
  <2>4. QED
    BY <2>2, <2>3
<1>5. CASE UNCHANGED vars
  BY <1>5 DEF vars
<1>6. QED
  BY <1>1, <1>2, <1>3, <1>4, <1>5, ConstantsAssumption DEF Next, Watcher, Writer

\* The steps that are no thread's rebuild leave what is held and read alone.
LEMMA AsideSteps ==
    ASSUME TypeOK, \/ Environment \/ (\E e \in inbox : Receive(e)) \/ Quiesce
                   \/ IdleReconcile \/ NewRequest \/ Respond
    PROVE  /\ UNCHANGED <<kb, fp, version, lock, snap, todo, acc, built>>
           /\ \A t \in Threads : \/ UNCHANGED <<stage[t], full[t], dirty[t]>>
                                 \/ stage'[t] \in {"burst", "want", "idle"}
<1>1. CASE Environment
  BY <1>1 DEF Environment, ExternalWrite, Touch, RemoveDirectory, EditIgnores, Overflow,
              FlagRescan, LoseEvent, heldVars, jobVars
<1>2. CASE (\E e \in inbox : Receive(e)) \/ Quiesce \/ IdleReconcile
  BY <1>2, ConstantsAssumption
  DEF TypeOK, Receive, Quiesce, IdleReconcile, heldVars, jobVars
<1>3. ASSUME (\E f \in Files : MutateFile(f)) \/ SetIgnores
      PROVE  /\ UNCHANGED <<kb, fp, version, lock, snap, todo, acc, built>>
             /\ stage' = [stage EXCEPT !["writer"] = "want"]
             /\ \E b \in BOOLEAN, ps \in SUBSET Paths :
                  /\ full' = [full EXCEPT !["writer"] = b]
                  /\ dirty' = [dirty EXCEPT !["writer"] = ps]
  BY <1>3 DEF MutateFile, SetIgnores, heldVars, Paths
<1>4. CASE Register \/ Respond
  BY <1>4, ConstantsAssumption DEF TypeOK, Register, Respond, heldVars, jobVars
<1>5. QED
  BY <1>1, <1>2, <1>3, <1>4, ConstantsAssumption DEF NewRequest, TypeOK

LEMMA FitInit == Init => AllFit
BY DEF Init, AllFit, StagesFit

LEMMA FitNext ==
    ASSUME TypeOK, SerialRebuilds, AllFit, [Next]_vars
    PROVE  AllFit'
<1> USE DEF AllFit, StagesFit
<1>1. CASE \/ Environment \/ (\E e \in inbox : Receive(e)) \/ Quiesce
           \/ IdleReconcile \/ NewRequest \/ Respond
  BY <1>1, AsideSteps
<1>2. ASSUME NEW t \in Threads, Rebuild(t)
      PROVE  AllFit'
  <2>1. StagesFit(t)'
    <3> USE DEF TypeOK, Goto, heldVars, jobVars, Swap
    <3>1. CASE Acquire(t) \/ Release(t) \/ Diff(t) \/ Filter(t) \/ Gate(t)
      BY <3>1 DEF Acquire, Release, Diff, Filter, Gate
    <3>2. CASE TrySplice(t) \/ RecomputeDeclines(t) \/ (\E f \in Files : ReadDirty(t, f))
      BY <3>2 DEF TrySplice, RecomputeDeclines, ReadDirty, Decline
    <3>3. CASE CommitSplice(t) \/ CommitScoped(t) \/ CommitFull(t)
      BY <3>3 DEF CommitSplice, CommitScoped, CommitFull
    <3>4. CASE BuildFails(t) \/ Retry(t)
      BY <3>4 DEF BuildFails, Retry, NextPass
    <3>5. CASE \/ Settle(t) \/ BeginConfirm(t) \/ Send(t)
               \/ \E f \in Files : ReadForFingerprint(t, f) \/ ReadForBuild(t, f)
      BY <3>5 DEF Settle, BeginConfirm, Send, ReadForFingerprint, ReadForBuild
    <3>6. QED
      BY <1>2, <3>1, <3>2, <3>3, <3>4, <3>5 DEF Rebuild
  <2>2. ASSUME NEW u \in Threads \ {t}
        PROVE  StagesFit(u)'
    BY <1>2, OthersIdle DEF Working
  <2>3. QED
    BY <2>1, <2>2
<1>3. CASE UNCHANGED vars
  BY <1>3 DEF vars
<1>4. QED
  BY <1>1, <1>2, <1>3, ConstantsAssumption DEF Next, Watcher, Writer


-----------------------------------------------------------------------------
(* What a rebuild reads of one file while the disk stands still.           *)

\* A file in scope that can be read is catalogued as it is recorded.
LEMMA LegibleFile ==
    ASSUME TypeOK, Legible, NEW f \in Files, f \notin ignored
    PROVE  /\ View[f] = Fingerprint[f] /\ Plainly(View[f], f)
           /\ disk[f] = Absent <=> View[f] = NoEntry
           /\ disk[f] # Absent => FpOf(f, disk[f]) = View[f] /\ EntryOf(f, disk[f]) = View[f]
           /\ Spliced(f, disk[f]) = View[f] /\ ~Refused(f, disk[f])
<1>1. CASE f \in Assets
  BY <1>1 DEF View, Fingerprint, Plainly, FpOf, EntryOf, Spliced, Refused, BuildReadsContent,
              NoEntry, Unread
<1>2. CASE f \notin Assets /\ disk[f] = Absent
  BY <1>2, ConstantsAssumption
  DEF View, Fingerprint, Plainly, FpOf, EntryOf, Spliced, Refused, BuildReadsContent,
      NoEntry, Unread, Absent, Oversize, Unreadable
<1>3. CASE f \notin Assets /\ disk[f] \in Contents
  BY <1>3, ConstantsAssumption
  DEF View, Fingerprint, Plainly, FpOf, EntryOf, Spliced, Refused, BuildReadsContent,
      NoEntry, Unread, Absent, Oversize, Unreadable
<1>4. QED
  BY <1>1, <1>2, <1>3 DEF Legible, Plain

\* The gate tells whether such a file is held as it is.
LEMMA GateTells ==
    ASSUME TypeOK, Legible, NEW f \in Files, f \notin ignored, HeldAlike(f), version > 0
    PROVE  PathChanged(f, fp) <=> kb[f] # View[f]
<1>1. fp[f] = kb[f] /\ Plainly(kb[f], f) /\ f # Schema
  BY ConstantsAssumption DEF HeldAlike
<1>2. CASE f \in Assets
  BY <1>1, <1>2 DEF PathChanged, BuildReadsContent, View, EntryOf, Plainly, NoEntry, Unread
<1>3. CASE f \notin Assets /\ disk[f] = Absent
  BY <1>1, <1>3, ConstantsAssumption
  DEF PathChanged, BuildReadsContent, View, Plainly, FreshHash, RecordedContent,
      NoEntry, Unread, Absent
<1>4. CASE f \notin Assets /\ disk[f] \in Contents
  BY <1>1, <1>4, ConstantsAssumption
  DEF PathChanged, BuildReadsContent, View, EntryOf, Plainly, FreshHash, RecordedContent,
      NoEntry, Unread, Absent, Oversize, Unreadable
<1>5. QED
  BY <1>2, <1>3, <1>4 DEF Legible, Plain

\* A parse that is reused is of what is there.
LEMMA AcquiredIsView ==
    ASSUME TypeOK, Legible, NEW t \in Threads, NEW f \in Files, f \notin ignored,
           disk[f] # Absent, full[t] => snap[t][f] = Fingerprint[f],
           ~full[t] => f \in dirty[t] \/ fp[f] = Fingerprint[f]
    PROVE  Acquired(t, f) = View[f]
<1>1. KnownHash(t, f) = NoEntry \/ KnownHash(t, f) = View[f]
  BY LegibleFile DEF KnownHash
<1>2. EntryOf(f, disk[f]) = View[f]
  BY LegibleFile
<1>3. QED
  BY <1>1, <1>2, UnreadIsNoContent DEF Acquired

\* The walks: what is there is to be read, of the rest nothing is recorded.
LEMMA WalkExactly ==
    ASSUME TypeOK, NEW t \in Threads, NEW f \in Files, UNCHANGED <<disk, ignored>>
    PROVE  /\ Walk(t, OnDisk) => IF f \in todo'[t] THEN disk'[f] # Absent
                                 ELSE acc'[t][f] = Fingerprint'[f]
           /\ Walk(t, OnDisk \ ignored) =>
                IF f \in todo'[t] THEN disk'[f] # Absent /\ f \notin ignored'
                ELSE acc'[t][f] = View'[f]
BY DEF Walk, OnDisk, Nothing, Fingerprint, View, TypeOK


\* What has been read of a file stays exact as the rebuild goes on.
LEMMA ReadsExactlyNext ==
    ASSUME TypeOK, Legible, NEW t \in Threads, NEW f \in Files, StagesFit(t), Rebuild(t),
           ~CommitSplice(t), ~CommitScoped(t), ~CommitFull(t), CanFail = FALSE,
           stage[t] = "build" /\ ~full[t] => f \in dirty[t] \/ HeldExact(f),
           ReadsExactly(t, f)
    PROVE  ReadsExactly(t, f)'
<1> USE DEF TypeOK, Catalogs
<1>1. UNCHANGED <<disk, ignored>> /\ View' = View /\ Fingerprint' = Fingerprint
  BY DiskStands DEF View, Fingerprint
<1>2. ASSUME stage'[t] \in {"filter", "gate", "done", "wait", "respond"}
      PROVE  ReadsExactly(t, f)'
  BY <1>2 DEF ReadsExactly, Later
<1>3. ASSUME stage'[t] = "fingerprint", Walk(t, OnDisk)
      PROVE  ReadsExactly(t, f)'
  BY <1>1, <1>3, WalkExactly DEF ReadsExactly, Later
<1>4. ASSUME stage'[t] = "build", Walk(t, OnDisk \ ignored),
             full'[t] => snap'[t][f] = Fingerprint[f]
      PROVE  ReadsExactly(t, f)'
  BY <1>1, <1>4, WalkExactly DEF ReadsExactly, Later
<1>5. CASE Acquire(t) \/ Retry(t) \/ BuildFails(t) \/ Release(t)
  BY <1>2, <1>3, <1>5 DEF Acquire, Retry, BuildFails, NextPass, Release, Goto
<1>6. CASE Diff(t)
  <2>1. snap'[t][f] = Fingerprint[f]
    BY <1>6 DEF Diff, ReadsExactly
  <2>2. \/ stage'[t] \in {"done", "splice"}
        \/ stage'[t] = "build" /\ Walk(t, OnDisk \ ignored)
    BY <1>6 DEF Diff, Goto
  <2>3. QED
    BY <1>1, <1>2, <1>4, <2>1, <2>2 DEF ReadsExactly, Later
<1>7. CASE Filter(t)
  <2>1. \/ stage'[t] = "fingerprint" /\ Walk(t, OnDisk)
        \/ stage'[t] \in {"done", "splice"} /\ ~full'[t]
    BY <1>7 DEF Filter, Goto, StagesFit
  <2>2. QED
    BY <1>2, <1>3, <2>1 DEF ReadsExactly
<1>8. CASE Gate(t)
  <2>1. \/ stage'[t] = "done"
        \/ stage'[t] = "build" /\ Walk(t, OnDisk \ ignored) /\ ~full'[t]
    BY <1>8 DEF Gate, Goto, StagesFit
  <2>2. QED
    BY <1>2, <1>4, <2>1
<1>9. ASSUME UNCHANGED <<full, snap>>, stage[t] \in {"splice", "recompute"}, Decline(t)
      PROVE  ReadsExactly(t, f)'
  <2>1. full[t] => snap[t][f] = Fingerprint[f]
    BY <1>9 DEF ReadsExactly, Later
  <2>2. QED
    BY <1>2, <1>4, <1>9, <2>1 DEF Decline, Goto
<1>10. ASSUME UNCHANGED <<full, snap>>, stage[t] \in Later,
              stage'[t] \in {"recompute", "settle", "splice"}
       PROVE  ReadsExactly(t, f)'
  BY <1>1, <1>10 DEF ReadsExactly, Later
<1>11. CASE TrySplice(t) \/ RecomputeDeclines(t) \/ (\E g \in Files : ReadDirty(t, g))
  <2>1. UNCHANGED <<full, snap>> /\ stage[t] \in {"splice", "recompute"}
    BY <1>11 DEF TrySplice, RecomputeDeclines, ReadDirty
  <2>2. Decline(t) \/ stage'[t] \in {"settle", "done", "recompute"}
    BY <1>11 DEF TrySplice, RecomputeDeclines, ReadDirty, Goto
  <2>3. QED
    BY <1>2, <1>9, <1>10, <2>1, <2>2 DEF Later
<1>12. CASE Settle(t) \/ Send(t)
  <2>1. UNCHANGED <<full, snap>> /\ stage[t] \in {"settle", "send"}
    BY <1>12 DEF Settle, Send, jobVars
  <2>2. stage'[t] \in {"done", "splice", "settle"}
    BY <1>12 DEF Settle, Send, Goto
  <2>3. QED
    BY <1>2, <1>10, <2>1, <2>2 DEF Later
<1>13. CASE BeginConfirm(t)
  <2>1. /\ UNCHANGED <<full, snap>> /\ stage[t] = "build" /\ full[t] /\ todo[t] = {}
        /\ built'[t] = acc[t] /\ stage'[t] = "confirm" /\ Walk(t, OnDisk)
    BY <1>13 DEF BeginConfirm, Goto
  <2>2. QED
    BY <1>1, <2>1, WalkExactly DEF ReadsExactly, Later
<1>14. ASSUME NEW g \in Files, ReadForFingerprint(t, g)
       PROVE  ReadsExactly(t, f)'
  <2>1. /\ UNCHANGED <<full, snap, built, stage>> /\ stage[t] \in {"fingerprint", "confirm"}
        /\ g \in todo[t] /\ todo'[t] = todo[t] \ {g}
        /\ acc'[t] = [acc[t] EXCEPT ![g] = FpOf(g, disk[g])]
    BY <1>14 DEF ReadForFingerprint
  <2>2. f = g => FpOf(g, disk[g]) = Fingerprint[f]
    BY <2>1 DEF ReadsExactly, Fingerprint
  <2>3. QED
    BY <1>1, <2>1, <2>2 DEF ReadsExactly
<1>15. ASSUME NEW g \in Files, ReadForBuild(t, g)
       PROVE  ReadsExactly(t, f)'
  <2>1. /\ UNCHANGED <<full, snap, stage>> /\ stage[t] = "build"
        /\ g \in todo[t] /\ todo'[t] = todo[t] \ {g}
        /\ acc'[t] = [acc[t] EXCEPT ![g] = Acquired(t, g)]
    BY <1>15 DEF ReadForBuild
  <2>2. ~full[t] => f \in dirty[t] \/ (f \notin ignored => fp[f] = Fingerprint[f])
    BY <2>1 DEF StagesFit, HeldExact
  <2>3. f = g => Acquired(t, g) = View[f]
    BY <2>1, <2>2, AcquiredIsView DEF ReadsExactly, Later
  <2>4. QED
    BY <1>1, <2>1, <2>3 DEF ReadsExactly
<1>16. QED
  BY <1>5, <1>6, <1>7, <1>8, <1>11, <1>12, <1>13, <1>14, <1>15 DEF Rebuild


\* What a splice has read of a file is exact as long as it goes on.
LEMMA SplicesExactlyNext ==
    ASSUME TypeOK, Legible, ScopeKept, NEW t \in Threads, NEW f \in Files, Rebuild(t),
           SplicesExactly(t, f)
    PROVE  SplicesExactly(t, f)'
<1> USE DEF TypeOK, Catalogs
<1>1. UNCHANGED <<disk, ignored>> /\ View' = View
  BY DiskStands DEF View
<1>2. CASE TrySplice(t)
  BY <1>1, <1>2 DEF TrySplice, Decline, Goto, SplicesExactly, heldVars
<1>3. ASSUME NEW g \in Files, ReadDirty(t, g)
      PROVE  SplicesExactly(t, f)'
  <2>1. stage[t] = "recompute" /\ g \in todo[t] /\ g \notin ignored
    BY <1>3 DEF ReadDirty, ScopeKept
  <2>2. ~Refused(g, disk[g]) /\ Spliced(g, disk[g]) = View[g]
    BY <2>1, LegibleFile
  <2>3. /\ UNCHANGED <<kb, dirty, stage>> /\ todo'[t] = todo[t] \ {g}
        /\ acc'[t] = [acc[t] EXCEPT ![g] = View[g]]
    BY <1>3, <2>2 DEF ReadDirty, heldVars
  <2>4. QED
    BY <1>1, <2>1, <2>3 DEF SplicesExactly
<1>4. CASE ~TrySplice(t) /\ ~\E g \in Files : ReadDirty(t, g)
  <2>1. stage'[t] # "recompute"
    BY <1>4 DEF Rebuild, Acquire, Release, Diff, Filter, Gate, RecomputeDeclines,
       CommitSplice, Settle, BuildFails, CommitScoped, BeginConfirm, CommitFull, Retry,
       Send, ReadForFingerprint, ReadForBuild, Goto, Decline, NextPass
  <2>2. QED
    BY <2>1 DEF SplicesExactly
<1>5. QED
  BY <1>2, <1>3, <1>4

\* What a rebuild of the watcher has read of a file the mutation has overtaken.
LEMMA ReadsEitherNext ==
    ASSUME TypeOK, Legible, ScopeKept, NEW t \in Threads, NEW f \in Files, StagesFit(t),
           Rebuild(t), ~CommitSplice(t), ~CommitScoped(t), ~CommitFull(t), CanFail = FALSE,
           f \notin ignored, ReadsEither(t, f),
           stage'[t] = "build" /\ ~full'[t] /\ stage[t] # "build" => f \in dirty[t]
    PROVE  ReadsEither(t, f)'
<1> USE DEF TypeOK, Catalogs
<1>1. UNCHANGED <<disk, ignored>> /\ View' = View /\ Fingerprint' = Fingerprint
  BY DiskStands DEF View, Fingerprint
<1>2. ASSUME stage'[t] \notin {"build", "confirm"}
      PROVE  ReadsEither(t, f)'
  BY <1>2 DEF ReadsEither
<1>3. ASSUME stage'[t] = "build", Walk(t, OnDisk \ ignored), ~full'[t] => f \in dirty'[t]
      PROVE  ReadsEither(t, f)'
  BY <1>1, <1>3, WalkExactly DEF ReadsEither
<1>4. CASE Gate(t) \/ Diff(t)
  <2>1. \/ stage'[t] = "done" \/ stage'[t] = "splice"
        \/ stage'[t] = "build" /\ Walk(t, OnDisk \ ignored)
    BY <1>4 DEF Gate, Diff, Goto
  <2>2. ~full'[t] => Gate(t) /\ UNCHANGED dirty
    BY <1>4 DEF Gate, Diff, StagesFit
  <2>3. QED
    BY <1>2, <1>3, <2>1, <2>2, <1>4 DEF Gate, Diff
<1>5. CASE TrySplice(t) \/ RecomputeDeclines(t) \/ (\E g \in Files : ReadDirty(t, g))
  <2>1. \/ stage'[t] \notin {"build", "confirm"}
        \/ stage'[t] = "build" /\ Walk(t, OnDisk \ ignored) /\ full'[t]
    BY <1>5 DEF TrySplice, RecomputeDeclines, ReadDirty, Decline, Goto
  <2>2. QED
    BY <1>2, <1>3, <2>1
<1>6. CASE \/ Acquire(t) \/ Release(t) \/ Filter(t) \/ Settle(t) \/ BuildFails(t)
           \/ Retry(t) \/ Send(t)
  BY <1>2, <1>6 DEF Acquire, Release, Filter, Settle, BuildFails, Retry, Send, NextPass, Goto
<1>7. CASE BeginConfirm(t)
  <2>1. /\ UNCHANGED <<full, snap>> /\ stage[t] = "build" /\ full[t] /\ todo[t] = {}
        /\ built'[t] = acc[t] /\ stage'[t] = "confirm" /\ Walk(t, OnDisk)
    BY <1>7 DEF BeginConfirm, Goto
  <2>2. snap[t][f] = Fingerprint[f] => built'[t][f] = View[f]
    BY <2>1 DEF ReadsEither
  <2>3. (IF f \in todo'[t] THEN FpOf(f, disk[f]) ELSE acc'[t][f]) = Fingerprint[f]
    BY <1>1, <2>1, WalkExactly DEF Fingerprint
  <2>4. QED
    BY <1>1, <2>1, <2>2, <2>3 DEF ReadsEither
<1>8. ASSUME NEW g \in Files, ReadForFingerprint(t, g)
      PROVE  ReadsEither(t, f)'
  <2>1. /\ UNCHANGED <<full, snap, built, stage>> /\ stage[t] \in {"fingerprint", "confirm"}
        /\ g \in todo[t] /\ todo'[t] = todo[t] \ {g}
        /\ acc'[t] = [acc[t] EXCEPT ![g] = FpOf(g, disk[g])]
    BY <1>8 DEF ReadForFingerprint
  <2>2. QED
    BY <1>1, <2>1 DEF ReadsEither, Plainly
<1>9. ASSUME NEW g \in Files, ReadForBuild(t, g)
      PROVE  ReadsEither(t, f)'
  <2>1. /\ UNCHANGED <<full, snap, dirty, stage>> /\ stage[t] = "build"
        /\ g \in todo[t] /\ todo'[t] = todo[t] \ {g}
        /\ acc'[t] = [acc[t] EXCEPT ![g] = Acquired(t, g)]
    BY <1>9 DEF ReadForBuild
  <2>2. CASE full[t] => snap[t][f] = Fingerprint[f]
    <3>1. f = g => Acquired(t, g) = View[f]
      BY <2>1, <2>2, AcquiredIsView DEF ReadsEither
    <3>2. QED
      BY <1>1, <2>1, <2>2, <3>1 DEF ReadsEither
  <2>3. CASE ~(full[t] => snap[t][f] = Fingerprint[f])
    BY <1>1, <2>1, <2>3 DEF ReadsEither
  <2>4. QED
    BY <2>2, <2>3
<1>10. QED
  BY <1>4, <1>5, <1>6, <1>7, <1>8, <1>9 DEF Rebuild


\* What is swapped in.
LEMMA CommitsExactly ==
    ASSUME TypeOK, Legible, ScopeKept, NEW t \in Threads, NEW f \in Files, StagesFit(t),
           CommitSplice(t) \/ CommitScoped(t) \/ CommitFull(t),
           HeldAlike(f), SplicesExactly(t, f), ReadsExactly(t, f),
           f \in dirty[t] \/ HeldExact(f)
    PROVE  HeldAlike(f)' /\ HeldExact(f)'
<1> USE DEF TypeOK, Catalogs
<1>1. UNCHANGED <<disk, ignored>> /\ View' = View /\ Fingerprint' = Fingerprint
  BY DEF CommitSplice, CommitScoped, CommitFull, diskVars, View, Fingerprint
<1>2. f \notin ignored => View[f] = Fingerprint[f] /\ Plainly(View[f], f)
  BY LegibleFile
<1>3. kb'[f] = View[f] /\ (f \notin ignored => fp'[f] = Fingerprint[f])
  <2>1. CASE CommitSplice(t)
    <3>1. /\ kb' = acc[t] /\ fp' = UpdatedFingerprint(fp, dirty[t], acc[t])
          /\ stage[t] = "recompute" /\ todo[t] = {} /\ version > 0
      BY <2>1 DEF CommitSplice, Swap, StagesFit
    <3>2. QED
      BY <1>2, <3>1 DEF SplicesExactly, UpdatedFingerprint, HeldExact
  <2>2. CASE CommitScoped(t)
    <3>1. /\ kb' = acc[t] /\ fp' = UpdatedFingerprint(fp, dirty[t], acc[t])
          /\ stage[t] = "build" /\ todo[t] = {} /\ version > 0
      BY <2>2 DEF CommitScoped, Swap, StagesFit
    <3>2. QED
      BY <1>2, <3>1 DEF ReadsExactly, UpdatedFingerprint, HeldExact
  <2>3. CASE CommitFull(t)
    <3>1. kb' = built[t] /\ fp' = snap[t] /\ stage[t] = "confirm" /\ full[t]
      BY <2>3 DEF CommitFull, Swap, StagesFit
    <3>2. QED
      BY <3>1 DEF ReadsExactly, Later
  <2>4. QED
    BY <2>1, <2>2, <2>3
<1>4. QED
  BY <1>1, <1>2, <1>3 DEF HeldAlike, HeldExact, Plainly

LEMMA CommitsAlike ==
    ASSUME TypeOK, Legible, ScopeKept, NEW t \in Threads, NEW f \in Files, StagesFit(t),
           CommitSplice(t) \/ CommitScoped(t) \/ CommitFull(t),
           HeldAlike(f), SplicesExactly(t, f), f \notin ignored => ReadsEither(t, f)
    PROVE  HeldAlike(f)'
<1> USE DEF TypeOK, Catalogs
<1>1. UNCHANGED <<disk, ignored>> /\ View' = View /\ Fingerprint' = Fingerprint
  BY DEF CommitSplice, CommitScoped, CommitFull, diskVars, View, Fingerprint
<1>2. CASE f \notin ignored
  <2>1. View[f] = Fingerprint[f] /\ Plainly(View[f], f)
    BY <1>2, LegibleFile
  <2>2. kb'[f] = fp'[f] /\ Plainly(kb'[f], f)
    <3>1. CASE CommitSplice(t)
      <4>1. /\ kb' = acc[t] /\ fp' = UpdatedFingerprint(fp, dirty[t], acc[t])
            /\ stage[t] = "recompute" /\ todo[t] = {} /\ version > 0
        BY <3>1 DEF CommitSplice, Swap, StagesFit
      <4>2. QED
        BY <1>2, <2>1, <4>1 DEF SplicesExactly, UpdatedFingerprint, HeldAlike
    <3>2. CASE CommitScoped(t)
      <4>1. /\ kb' = acc[t] /\ fp' = UpdatedFingerprint(fp, dirty[t], acc[t])
            /\ stage[t] = "build" /\ todo[t] = {} /\ ~full[t]
        BY <3>2 DEF CommitScoped, Swap
      <4>2. QED
        BY <1>2, <2>1, <4>1 DEF ReadsEither, UpdatedFingerprint
    <3>3. CASE CommitFull(t)
      <4>1. /\ kb' = built[t] /\ fp' = snap[t] /\ stage[t] = "confirm" /\ todo[t] = {}
            /\ acc[t] = snap[t]
        BY <3>3 DEF CommitFull, Swap
      <4>2. QED
        BY <1>2, <2>1, <4>1 DEF ReadsEither
    <3>4. QED
      BY <3>1, <3>2, <3>3
  <2>3. QED
    BY <2>2 DEF HeldAlike, Plainly
<1>3. CASE f \in ignored
  BY <1>1, <1>3 DEF HeldAlike
<1>4. QED
  BY <1>2, <1>3

\* A path that moved is the mutation's, and the mutation waits for the lock.
LEMMA MovedIsBehind ==
    ASSUME TypeOK, SerialRebuilds, ScopeKept, ChannelInv, stage["watcher"] \in {"splice", "gate"},
           StillMoving(dirty["watcher"], fp) # {}
    PROVE  stage["writer"] = "want" /\ \A f \in Files : Behind(f) => f \in dirty["watcher"]
<1> USE ConstantsAssumption
<1>1. PICK p \in StillMoving(dirty["watcher"], fp) : TRUE
  OBVIOUS
<1>2. p \in dirty["watcher"] /\ p \in Files /\ p \notin ignored /\ PathChanged(p, fp)
  BY <1>1 DEF StillMoving, ChannelInv, FileInv, EventsNameFiles, ScopeKept
<1>3. version > 0 /\ HeldAlike(p)
  BY <1>2 DEF ChannelInv, FileInv, AllFit, StagesFit
<1>4. Behind(p)
  BY <1>2, <1>3, GateTells DEF ChannelInv, FileInv, HeldExact
<1>5. stage["writer"] \notin Working
  BY DEF SerialRebuilds, Working
<1>6. stage["writer"] = "want"
  BY <1>4, <1>5 DEF Behind, Working, ChannelInv, FileInv, WriterInv, TypeOK, Stages
<1>7. QED
  BY <1>2, <1>4, <1>6 DEF Behind

LEMMA WriterOnWatcher ==
    ASSUME TypeOK, SerialRebuilds, ScopeKept, ChannelInv, CanFail = FALSE, Rebuild("watcher")
    PROVE  WriterInv'
<1> USE ConstantsAssumption DEF TypeOK
<1>1. /\ UNCHANGED <<mutation, stage["writer"], full["writer"], dirty["writer"]>>
      /\ version > 0 => version' > 0
  <2>1. UNCHANGED <<mutation, stage["writer"]>>
    BY DEF Rebuild, Acquire, Release, Diff, Filter, Gate, TrySplice, RecomputeDeclines,
         CommitSplice, Settle, BuildFails, CommitScoped, BeginConfirm, CommitFull,
         Retry, Send, ReadForFingerprint, ReadDirty, ReadForBuild, Goto, Decline, NextPass,
         heldVars, jobVars, Swap
  <2>2. UNCHANGED <<full["writer"], dirty["writer"]>>
    BY DEF Rebuild, Acquire, Release, Diff, Filter, Gate, TrySplice, RecomputeDeclines,
         CommitSplice, Settle, BuildFails, CommitScoped, BeginConfirm, CommitFull,
         Retry, Send, ReadForFingerprint, ReadDirty, ReadForBuild, Goto, Decline, NextPass,
         heldVars, jobVars, Swap
  <2>3. version > 0 => version' > 0
    <3>1. version' = version \/ version' = version + 1
      BY DEF Rebuild, Acquire, Release, Diff, Filter, Gate, TrySplice, RecomputeDeclines,
         CommitSplice, Settle, BuildFails, CommitScoped, BeginConfirm, CommitFull,
         Retry, Send, ReadForFingerprint, ReadDirty, ReadForBuild, heldVars, Swap
    <3>2. QED
      BY <3>1
  <2>4. QED
    BY <2>1, <2>2, <2>3
<1>2. (\/ stage'["watcher"] = "recompute"
       \/ stage'["watcher"] = "build" /\ ~full'["watcher"]) => stage["writer"] = "want"
  <2>1. CASE TrySplice("watcher") \/ Gate("watcher")
    <3>1. \/ StillMoving(dirty["watcher"], fp) # {}
          \/ stage'["watcher"] \in {"done", "settle", "gate"}
          \/ stage'["watcher"] = "build" /\ full'["watcher"]
      BY <2>1 DEF TrySplice, Gate, Decline, Goto
    <3>2. stage["watcher"] \in {"splice", "gate"}
      BY <2>1 DEF TrySplice, Gate
    <3>3. QED
      BY <3>1, <3>2, MovedIsBehind
  <2>2. CASE \/ RecomputeDeclines("watcher")
             \/ \E f \in Files : ReadDirty("watcher", f) \/ ReadForBuild("watcher", f)
    <3>1. \/ stage["watcher"] = "recompute"
          \/ stage["watcher"] = "build" /\ UNCHANGED <<stage, full>>
      BY <2>2 DEF RecomputeDeclines, ReadDirty, ReadForBuild
    <3>2. QED
      BY <3>1 DEF ChannelInv, FileInv, WriterInv
  <2>3. CASE Diff("watcher")
    BY <2>3 DEF Diff, Goto, ChannelInv, FileInv, AllFit, StagesFit
  <2>4. CASE ~(\/ TrySplice("watcher") \/ Gate("watcher") \/ RecomputeDeclines("watcher")
               \/ Diff("watcher")
               \/ \E f \in Files : ReadDirty("watcher", f) \/ ReadForBuild("watcher", f))
    BY <2>4 DEF Rebuild, Acquire, Release, Filter, CommitSplice, Settle, BuildFails,
         CommitScoped, BeginConfirm, CommitFull, Retry, Send, ReadForFingerprint, Goto,
         NextPass
  <2>5. QED
    BY <2>1, <2>2, <2>3, <2>4
<1>3. QED
  BY <1>1, <1>2 DEF ChannelInv, FileInv, WriterInv, NoMutation

\* Where a filter, a splice and a gate lead.
LEMMA GateLeads ==
    ASSUME TypeOK, NEW t \in Threads
    PROVE  /\ Filter(t) /\ version > 0 =>
                LET kept == ExpandRemovedDirectories(ScopeFilterDirty(dirty[t])) IN
                dirty'[t] = kept /\ stage'[t] = (IF kept = {} THEN "done" ELSE "splice")
           /\ TrySplice(t) /\ StillMoving(dirty[t], fp) # {} =>
                stage'[t] \in {"gate", "recompute", "build"}
           /\ Gate(t) /\ StillMoving(dirty[t], fp) # {} => stage'[t] = "build"
<1> USE DEF TypeOK, Goto
<1>1. ASSUME Filter(t), version > 0
      PROVE  LET kept == ExpandRemovedDirectories(ScopeFilterDirty(dirty[t])) IN
             dirty'[t] = kept /\ stage'[t] = (IF kept = {} THEN "done" ELSE "splice")
  <2> DEFINE kept == ExpandRemovedDirectories(ScopeFilterDirty(dirty[t]))
  <2>1. /\ dirty' = [dirty EXCEPT ![t] = kept]
        /\ stage' = [stage EXCEPT ![t] = IF kept = {} THEN "done" ELSE "splice"]
    BY <1>1 DEF Filter
  <2> HIDE DEF kept
  <2>2. dirty'[t] = kept /\ stage'[t] = (IF kept = {} THEN "done" ELSE "splice")
    BY <2>1
  <2>3. QED
    BY <2>2 DEF kept
<1>2. TrySplice(t) /\ StillMoving(dirty[t], fp) # {} =>
        stage'[t] \in {"gate", "recompute", "build"}
  BY DEF TrySplice, Decline
<1>3. Gate(t) /\ StillMoving(dirty[t], fp) # {} => stage'[t] = "build"
  BY DEF Gate
<1>4. QED
  BY <1>1, <1>2, <1>3

\* A step that swaps nothing in gets the writer's rebuild done only with
\* everything held as it is.
LEMMA WriterIsDone ==
    ASSUME ChannelAlone, TypeOK, ScopeKept, ChannelInv, Rebuild("writer"),
           ~CommitSplice("writer"), ~CommitScoped("writer"), ~CommitFull("writer"),
           stage'["writer"] \in {"send", "done", "respond", "idle"}
    PROVE  version > 0 /\ \A f \in Files : HeldExact(f)
<1> USE ConstantsAssumption DEF TypeOK
<1>1. CASE stage["writer"] \in {"send", "done", "respond", "idle"}
  BY <1>1 DEF ChannelInv, FileInv, WriterInv, Behind
<1>2. CASE stage["writer"] \notin {"send", "done", "respond", "idle"}
  <2>1. stage["writer"] \in Working \cup {"want"}
    BY <1>2 DEF ChannelInv, FileInv, WriterInv, Stages, Working
  <2>2. CASE full["writer"]
    <3>1. \A f \in Files : HeldExact(f)
      BY <1>2, <2>1, <2>2 DEF ChannelInv, FileInv, WriterInv, Behind, NoMutation, Working
    <3>2. stage["writer"] = "confirm" /\ todo["writer"] = {} => acc["writer"] = snap["writer"]
      BY <2>2 DEF ChannelInv, FileInv, ReadsRightly, Overtaken, ReadsExactly, Later, Catalogs
    <3>3. version > 0
      <4>1. ~BuildFails("writer") /\ ~Retry("writer")
        BY <3>2 DEF ChannelAlone, BuildFails, Retry
      <4>2. \/ Diff("writer") \/ Filter("writer") \/ Gate("writer") \/ TrySplice("writer")
            \/ Settle("writer") \/ Send("writer") \/ Release("writer")
        BY <1>2, <2>1, <4>1 DEF Rebuild, Acquire, RecomputeDeclines, BeginConfirm,
           ReadForFingerprint, ReadDirty, ReadForBuild, Decline, Goto
      <4>3. QED
        BY <1>2, <4>2 DEF Diff, Filter, Gate, TrySplice, Settle, Send, Release, Goto,
           ChannelInv, FileInv, AllFit, StagesFit

    <3>4. QED
      BY <3>1, <3>3
  <2>3. CASE ~full["writer"]
    <3>1. /\ mutation.file \in Files /\ dirty["writer"] = {mutation.file} /\ version > 0
          /\ \A f \in Files : f # mutation.file => HeldExact(f)
      BY <1>2, <2>1, <2>3 DEF ChannelInv, FileInv, WriterInv, Behind, Working, AllFit, StagesFit
    <3>2. CASE mutation.file \in ignored
      BY <3>1, <3>2 DEF HeldExact, ScopeKept, Out, View
    <3>3. CASE mutation.file \notin ignored
      <4>1. ExpandRemovedDirectories(ScopeFilterDirty({mutation.file})) # {}
        BY <3>1, <3>3 DEF ExpandRemovedDirectories, ScopeFilterDirty
      <4>2. StillMoving({mutation.file}, fp) = {}
        <5>1. Filter("writer") \/ TrySplice("writer") \/ Gate("writer")
          <6>1. stage["writer"] \in {"want", "filter", "splice", "recompute", "gate", "build"}
            BY <1>2, <2>1, <2>3 DEF ChannelInv, FileInv, AllFit, StagesFit, Working
          <6>2. QED
            BY <6>1, <2>3 DEF Rebuild, Acquire, Release, Diff, RecomputeDeclines, Settle,
               BuildFails, BeginConfirm, Retry, Send, ReadForFingerprint, ReadDirty,
               ReadForBuild, Goto, Decline, ChannelAlone
        <5>2. QED
          BY <1>2, <3>1, <4>1, <5>1, GateLeads
      <4>3. kb[mutation.file] = View[mutation.file]
        BY <3>1, <3>3, <4>2, GateTells DEF StillMoving, ChannelInv, FileInv
      <4>4. HeldExact(mutation.file)
        BY <3>1, <3>3, <4>3, LegibleFile DEF HeldExact, HeldAlike, ChannelInv, FileInv
      <4>5. QED
        BY <3>1, <4>4
    <3>4. QED
      BY <3>2, <3>3
  <2>4. QED
    BY <2>2, <2>3
<1>3. QED
  BY <1>1, <1>2

LEMMA WriterOnWriter ==
    ASSUME ChannelAlone, TypeOK, TypeOK', SerialRebuilds, ScopeKept, ChannelInv, Rebuild("writer")
    PROVE  WriterInv'
<1> USE ConstantsAssumption DEF TypeOK
<1>1. mutation' = mutation /\ stage'["watcher"] = stage["watcher"]
      /\ stage["watcher"] \notin Working
  BY OthersIdle
  DEF Rebuild, Acquire, Release, Diff, Filter, Gate, TrySplice, RecomputeDeclines,
      CommitSplice, Settle, BuildFails, CommitScoped, BeginConfirm, CommitFull,
      Retry, Send, ReadForFingerprint, ReadDirty, ReadForBuild
<1>2. stage'["writer"] \notin {"wait", "burst", "idle"}
  <2>1. stage["writer"] \notin {"wait", "burst"}
    BY DEF ChannelInv, FileInv, WriterInv
  <2>2. CASE \/ Acquire("writer") \/ Release("writer") \/ Diff("writer") \/ Filter("writer")
             \/ Gate("writer") \/ TrySplice("writer") \/ RecomputeDeclines("writer")
             \/ CommitSplice("writer")
    BY <2>1, <2>2 DEF Acquire, Release, Diff, Filter, Gate, TrySplice, RecomputeDeclines,
       CommitSplice, Goto, Decline
  <2>3. CASE \/ Settle("writer") \/ BuildFails("writer") \/ CommitScoped("writer")
             \/ BeginConfirm("writer") \/ CommitFull("writer") \/ Retry("writer")
             \/ Send("writer")
    BY <2>1, <2>3 DEF Settle, BuildFails, CommitScoped, BeginConfirm, CommitFull, Retry, Send,
       Goto, NextPass
  <2>4. CASE \E f \in Files : \/ ReadForFingerprint("writer", f) \/ ReadDirty("writer", f)
                               \/ ReadForBuild("writer", f)
    BY <2>4 DEF ReadForFingerprint, ReadDirty, ReadForBuild, Decline, Goto
  <2>5. QED
    BY <2>2, <2>3, <2>4 DEF Rebuild
<1>3. version' = version \/ version' = version + 1
  BY DEF Rebuild, Acquire, Release, Diff, Filter, Gate, TrySplice, RecomputeDeclines,
       CommitSplice, Settle, BuildFails, CommitScoped, BeginConfirm, CommitFull,
       Retry, Send, ReadForFingerprint, ReadDirty, ReadForBuild, heldVars, Swap
<1>4. stage'["writer"] \in {"send", "done", "respond", "idle"} => version' > 0
  <2>1. CASE CommitSplice("writer") \/ CommitScoped("writer") \/ CommitFull("writer")
    BY <2>1 DEF CommitSplice, CommitScoped, CommitFull, Swap
  <2>2. CASE ~(CommitSplice("writer") \/ CommitScoped("writer") \/ CommitFull("writer"))
    BY <1>3, <2>2, WriterIsDone
  <2>3. QED
    BY <2>1, <2>2
<1>5. full'["writer"] => mutation = NoMutation
  <2>1. CASE Filter("writer")
    <3>1. version = 0 => full["writer"]
      BY <2>1 DEF Filter, ChannelInv, FileInv, WriterInv
    <3>2. version # 0 => full' = full
      BY <2>1 DEF Filter
    <3>3. QED
      BY <1>1, <3>1, <3>2 DEF ChannelInv, FileInv, WriterInv
  <2>2. CASE \/ Acquire("writer") \/ Release("writer") \/ Diff("writer") \/ Gate("writer")
             \/ TrySplice("writer") \/ RecomputeDeclines("writer") \/ CommitSplice("writer")
    <3>1. full'["writer"] => full["writer"]
      BY <2>2 DEF Acquire, Release, Diff, Gate, TrySplice, RecomputeDeclines, CommitSplice
    <3>2. QED
      BY <3>1 DEF ChannelInv, FileInv, WriterInv
  <2>3. CASE \/ Settle("writer") \/ BuildFails("writer") \/ CommitScoped("writer")
             \/ BeginConfirm("writer") \/ CommitFull("writer") \/ Retry("writer")
             \/ Send("writer")
             \/ \E f \in Files : \/ ReadForFingerprint("writer", f) \/ ReadDirty("writer", f)
                                \/ ReadForBuild("writer", f)
    <3>1. full'["writer"] => full["writer"]
      BY <2>3
      DEF Settle, BuildFails, CommitScoped, BeginConfirm, CommitFull, Retry, Send,
          ReadForFingerprint, ReadDirty, ReadForBuild, jobVars, ChannelAlone
    <3>2. QED
      BY <3>1 DEF ChannelInv, FileInv, WriterInv
  <2>4. QED
    BY <2>1, <2>2, <2>3 DEF Rebuild
<1>6. ASSUME ~full'["writer"],
             stage'["writer"] \in {"want", "filter", "splice", "recompute", "gate", "build"}
      PROVE  mutation.file \in Files /\ dirty'["writer"] = {mutation.file} /\ version' > 0
  <2>1. \/ Acquire("writer") \/ Filter("writer") \/ Gate("writer") \/ TrySplice("writer")
        \/ RecomputeDeclines("writer")
        \/ \E f \in Files : ReadDirty("writer", f) \/ ReadForBuild("writer", f)
    BY <1>6 DEF Rebuild, Release, Diff, CommitSplice, Settle, BuildFails, CommitScoped,
       BeginConfirm, CommitFull, Retry, Send, ReadForFingerprint, Goto, NextPass, jobVars,
       ChannelInv, FileInv, AllFit, StagesFit
  <2>2. /\ ~full["writer"] /\ version' = version
        /\ stage["writer"] \in {"want", "filter", "splice", "recompute", "gate", "build"}
    BY <1>6, <2>1 DEF Acquire, Filter, Gate, TrySplice, RecomputeDeclines, ReadDirty,
       ReadForBuild, heldVars
  <2>3. mutation.file \in Files /\ dirty["writer"] = {mutation.file} /\ version > 0
    BY <2>2 DEF ChannelInv, FileInv, WriterInv
  <2>4. CASE Filter("writer")
    <3>1. dirty'["writer"] = ExpandRemovedDirectories(ScopeFilterDirty({mutation.file}))
          /\ dirty'["writer"] # {}
      BY <1>6, <2>3, <2>4, GateLeads
    <3>2. QED
      BY <2>2, <2>3, <3>1 DEF ExpandRemovedDirectories, ScopeFilterDirty, ChannelAlone
  <2>5. CASE ~Filter("writer")
    BY <2>1, <2>2, <2>3, <2>5
    DEF Acquire, Gate, TrySplice, RecomputeDeclines, ReadDirty, ReadForBuild
  <2>6. QED
    BY <2>4, <2>5
<1>7. QED
  BY <1>1, <1>2, <1>4, <1>5, <1>6 DEF WriterInv, Working, NoMutation


\* Only a mutation changes the disk, and it begins with nothing behind.
LEMMA ChannelAside ==
    ASSUME ChannelAlone, TypeOK,
           \/ Environment \/ (\E e \in inbox : Receive(e)) \/ Quiesce
           \/ IdleReconcile \/ NewRequest \/ Respond
    PROVE  /\ UNCHANGED <<ignored>>
           /\ \/ UNCHANGED disk
              \/ \E f \in Files : MutateFile(f)
<1>1. CASE Environment
  BY <1>1 DEF ChannelAlone, Environment, ExternalWrite, Touch, RemoveDirectory, EditIgnores,
              Overflow, FlagRescan, LoseEvent
<1>2. CASE (\E e \in inbox : Receive(e)) \/ Quiesce \/ IdleReconcile
  BY <1>2 DEF Receive, Quiesce, IdleReconcile, diskVars
<1>3. CASE NewRequest \/ Respond
  BY <1>3 DEF ChannelAlone, NewRequest, MutateFile, SetIgnores, Register, Respond, diskVars
<1>4. QED
  BY <1>1, <1>2, <1>3

LEMMA WriterAside ==
    ASSUME ChannelAlone, TypeOK, WriterInv,
           \/ Environment \/ (\E e \in inbox : Receive(e)) \/ Quiesce
           \/ IdleReconcile \/ NewRequest \/ Respond
    PROVE  WriterInv'
<1> USE ConstantsAssumption DEF TypeOK, WriterInv, NoMutation
<1>1. CASE Environment
  BY <1>1 DEF ChannelAlone, Environment, ExternalWrite, Touch, RemoveDirectory, EditIgnores,
              Overflow, FlagRescan, LoseEvent, heldVars, jobVars
<1>2. CASE (\E e \in inbox : Receive(e)) \/ Quiesce \/ IdleReconcile
  <2>1. /\ UNCHANGED <<mutation, version, stage["writer"], full["writer"], dirty["writer"]>>
        /\ stage'["watcher"] \in {"burst", "want"}
    BY <1>2 DEF Receive, Quiesce, IdleReconcile, heldVars, jobVars
  <2>2. QED
    BY <2>1
<1>3. ASSUME NEW f \in Files, MutateFile(f)
      PROVE  WriterInv'
  BY <1>3 DEF MutateFile, WriterIdle, heldVars
<1>4. CASE SetIgnores
  BY <1>4 DEF SetIgnores, ChannelAlone
<1>5. CASE Register
  BY <1>5 DEF Register, WriterIdle, heldVars
<1>6. CASE Respond
  BY <1>6 DEF Respond, heldVars, jobVars
<1>7. QED
  BY <1>1, <1>2, <1>3, <1>4, <1>5, <1>6 DEF NewRequest

LEMMA LegibleNext ==
    ASSUME ChannelAlone, TypeOK, Legible, [Next]_vars
    PROVE  Legible'
<1>1. CASE \/ Environment \/ (\E e \in inbox : Receive(e)) \/ Quiesce
           \/ IdleReconcile \/ NewRequest \/ Respond
  <2>1. CASE UNCHANGED disk
    BY <2>1 DEF Legible
  <2>2. ASSUME NEW f \in Files, MutateFile(f)
        PROVE  Legible'
    BY <2>2, ConstantsAssumption DEF MutateFile, ChangeDisk, Legible, Plain, TypeOK
  <2>3. QED
    BY <1>1, <2>1, <2>2, ChannelAside
<1>2. ASSUME NEW t \in Threads, Rebuild(t)
      PROVE  Legible'
  BY <1>2, DiskStands DEF Legible
<1>3. CASE UNCHANGED vars
  BY <1>3 DEF vars, Legible
<1>4. QED
  BY <1>1, <1>2, <1>3, ConstantsAssumption DEF Next, Watcher, Writer

\* A thread that is not at work has read nothing.
LEMMA IdleReadsRightly ==
    ASSUME NEW t, NEW f, stage[t] \notin Working
    PROVE  ReadsRightly(t, f)
BY DEF ReadsRightly, SplicesExactly, ReadsExactly, ReadsEither, Working, Later

\* While the disk stands still.
LEMMA FileStill ==
    ASSUME TypeOK, NEW f \in Files, FileInv(f), Behind(f)' <=> Behind(f),
           UNCHANGED <<disk, ignored, kb, fp, version, snap, todo, acc, built>>,
           \A t \in Threads : \/ UNCHANGED <<stage[t], full[t], dirty[t]>>
                              \/ stage'[t] \in {"burst", "want", "idle"}
    PROVE  FileInv(f)'
<1>1. View' = View /\ Fingerprint' = Fingerprint
  BY DEF View, Fingerprint
<1>2. HeldAlike(f)' /\ (~Behind(f)' => HeldExact(f)')
  BY <1>1 DEF FileInv, HeldAlike, HeldExact, Plainly
<1>3. ASSUME NEW t \in Threads
      PROVE  ReadsRightly(t, f)'
  <2>1. CASE stage'[t] \in {"burst", "want", "idle"}
    BY <2>1 DEF ReadsRightly, SplicesExactly, ReadsExactly, ReadsEither, Later
  <2>2. CASE UNCHANGED <<stage[t], full[t], dirty[t]>>
    BY <1>1, <2>2 DEF FileInv, ReadsRightly, SplicesExactly, ReadsExactly, ReadsEither,
                      Overtaken, Plainly
  <2>3. QED
    BY <2>1, <2>2
<1>4. QED
  BY <1>2, <1>3 DEF FileInv

\* The mutation of a file overtakes what the watcher's rebuild has read of it.
LEMMA FileMutated ==
    ASSUME ChannelAlone, TypeOK, TypeOK', Legible, Legible', AllFit, WriterInv, NEW f \in Files,
           FileInv(f), NEW g \in Files, MutateFile(g)
    PROVE  FileInv(f)'
<1> USE ConstantsAssumption DEF TypeOK
<1>1. /\ stage["writer"] = "idle" /\ stage'["writer"] = "want" /\ mutation = NoMutation
      /\ mutation'.file = g /\ version > 0 /\ disk'[g] # disk[g]
      /\ \A h \in Files : h # g => disk'[h] = disk[h]
      /\ UNCHANGED <<ignored, kb, fp, version, snap, todo, acc, built, stage["watcher"],
                     full["watcher"], dirty["watcher"]>>
  BY DEF MutateFile, WriterIdle, ChangeDisk, MayBecome, heldVars, WriterInv
<1>2. /\ ~Behind(f) /\ HeldExact(f) /\ ReadsExactly("watcher", f)
      /\ SplicesExactly("watcher", f)
  BY <1>1 DEF FileInv, Behind, ReadsRightly, Overtaken
<1>3. HeldAlike(f)'
  BY <1>1 DEF FileInv, HeldAlike, Plainly
<1>4. ReadsRightly("writer", f)'
  BY <1>1 DEF ReadsRightly, SplicesExactly, ReadsExactly, ReadsEither, Later, Overtaken
<1>5. CASE f # g
  <2>1. View'[f] = View[f] /\ Fingerprint'[f] = Fingerprint[f] /\ ~Behind(f)'
    BY <1>1, <1>5 DEF View, Fingerprint, Behind
  <2>2. HeldExact(f)' /\ ReadsExactly("watcher", f)' /\ SplicesExactly("watcher", f)'
    BY <1>1, <1>2, <1>5, <2>1 DEF HeldExact, ReadsExactly, SplicesExactly
  <2>3. QED
    BY <1>3, <1>4, <2>1, <2>2 DEF FileInv, ReadsRightly, Overtaken
<1>6. CASE f = g
  <2>1. Behind(f)'
    BY <1>1, <1>6 DEF Behind
  <2>2. stage["watcher"] # "recompute" /\ (stage["watcher"] = "build" => full["watcher"])
    BY <1>1 DEF WriterInv
  <2>3. SplicesExactly("watcher", f)'
    BY <1>1, <2>2 DEF SplicesExactly
  <2>4. ASSUME f \notin ignored
        PROVE  ReadsEither("watcher", f)'
    <3>1. /\ View[f] = Fingerprint[f] /\ Plainly(View[f], f)
          /\ View'[f] = Fingerprint'[f]
      <4>1. View[f] = Fingerprint[f] /\ Plainly(View[f], f)
        BY <2>4, LegibleFile
      <4>2. f \in Assets \/ disk'[f] \in Contents \cup {Absent}
        BY DEF Legible, Plain
      <4>3. View'[f] = Fingerprint'[f]
        BY <1>1, <2>4, <4>2
        DEF View, Fingerprint, FpOf, EntryOf, BuildReadsContent, Absent, Unreadable, Oversize
      <4>4. QED
        BY <4>1, <4>3
    <3>2. Fingerprint'[f] = Fingerprint[f] => disk[f] # Absent /\ disk'[f] # Absent
      <4>1. CASE f \in Assets
        BY <1>1, <1>6, <4>1 DEF Fingerprint, FpOf, BuildReadsContent, NoEntry, Unread
      <4>2. CASE f \notin Assets
        BY <1>1, <1>6, <4>2
        DEF Fingerprint, FpOf, BuildReadsContent, Legible, Plain, NoEntry, Absent,
            Unreadable, Oversize
      <4>3. QED
        BY <4>1, <4>2
    <3>3. CASE stage["watcher"] = "build"
      <4>1. full["watcher"] /\ snap["watcher"][f] = Fingerprint[f]
        BY <1>2, <2>2, <3>3 DEF ReadsExactly, Later
      <4>2. QED
        BY <1>1, <1>2, <3>1, <3>2, <3>3, <4>1 DEF ReadsExactly, ReadsEither
    <3>4. CASE stage["watcher"] = "confirm"
      <4>1. snap["watcher"][f] = Fingerprint[f] /\ built["watcher"][f] = View[f]
        BY <1>2, <3>4 DEF ReadsExactly, Later, AllFit, StagesFit
      <4>2. QED
        BY <1>1, <3>1, <3>4, <4>1 DEF ReadsEither, Plainly
    <3>5. QED
      BY <1>1, <3>3, <3>4 DEF ReadsEither
  <2>5. QED
    BY <1>1, <1>3, <1>4, <2>1, <2>3, <2>4 DEF FileInv, ReadsRightly, Overtaken
<1>7. QED
  BY <1>5, <1>6

\* A scoped build of the watcher's that the mutation has overtaken was told of
\* its file: the gate found it moved.
LEMMA OvertakenIsDirty ==
    ASSUME TypeOK, SerialRebuilds, ScopeKept, ChannelInv, CanFail = FALSE, Rebuild("watcher"),
           stage'["watcher"] = "build", ~full'["watcher"], stage["watcher"] # "build",
           NEW f \in Files, Behind(f)
    PROVE  f \in dirty["watcher"]
<1> USE ConstantsAssumption
<1>1. Gate("watcher")
  BY DEF Rebuild, Acquire, Release, Diff, Filter, TrySplice, RecomputeDeclines, CommitSplice,
     Settle, BuildFails, CommitScoped, BeginConfirm, CommitFull, Retry, Send,
     ReadForFingerprint, ReadDirty, ReadForBuild, Goto, Decline, NextPass, TypeOK,
     ChannelInv, FileInv, AllFit, StagesFit
<1>2. stage["watcher"] = "gate" /\ StillMoving(dirty["watcher"], fp) # {}
  BY <1>1 DEF Gate, Goto, TypeOK
<1>3. QED
  BY <1>2, MovedIsBehind

\* A step of a rebuild.
LEMMA FileRebuilt ==
    ASSUME ChannelAlone, TypeOK, TypeOK', SerialRebuilds, ScopeKept, ChannelInv, WriterInv',
           NEW t \in Threads, Rebuild(t), NEW f \in Files
    PROVE  FileInv(f)'
<1> USE ConstantsAssumption
<1> DEFINE Commits == CommitSplice(t) \/ CommitScoped(t) \/ CommitFull(t)
<1>1. /\ UNCHANGED <<disk, ignored, mutation>>
      /\ \A u \in Threads \ {t} : stage[u] \notin Working /\ stage'[u] = stage[u]
  BY OthersIdle, DiskStands
  DEF Rebuild, Acquire, Release, Diff, Filter, Gate, TrySplice, RecomputeDeclines,
      CommitSplice, Settle, BuildFails, CommitScoped, BeginConfirm, CommitFull,
      Retry, Send, ReadForFingerprint, ReadDirty, ReadForBuild
<1>2. View' = View /\ Fingerprint' = Fingerprint
  BY <1>1 DEF View, Fingerprint
<1>3. ~Commits => UNCHANGED <<kb, fp, version>>
  BY DEF Rebuild, Acquire, Release, Diff, Filter, Gate, TrySplice, RecomputeDeclines,
         Settle, BuildFails, BeginConfirm, Retry, Send, ReadForFingerprint, ReadDirty,
         ReadForBuild, heldVars
<1>4. \A u \in Threads \ {t} : ReadsRightly(u, f)'
  BY <1>1, IdleReadsRightly DEF ReadsRightly, SplicesExactly, ReadsExactly, ReadsEither,
     Working, Later
<1>5. /\ HeldAlike(f) /\ SplicesExactly(t, f) /\ SplicesExactly(t, f)' /\ StagesFit(t)
      /\ Legible /\ (~Behind(f) => HeldExact(f))
      /\ IF Overtaken(t, f) THEN f \notin ignored => ReadsEither(t, f) ELSE ReadsExactly(t, f)
  BY SplicesExactlyNext DEF ChannelInv, FileInv, AllFit, ReadsRightly
<1>6. CASE Overtaken(t, f)
  <2>1. t = "watcher" /\ Behind(f) /\ Behind(f)'
    BY <1>1, <1>6 DEF Overtaken, Behind
  <2>2. CASE Commits
    <3>1. HeldAlike(f)'
      BY <1>5, <1>6, <2>2, CommitsAlike
    <3>2. stage'[t] = "send"
      BY <2>2 DEF CommitSplice, CommitScoped, CommitFull, Goto, TypeOK
    <3>3. QED
      BY <1>4, <1>5, <2>1, <3>1, <3>2 DEF FileInv, ReadsRightly, Overtaken, ReadsEither
  <2>3. CASE ~Commits
    <3>1. HeldAlike(f)'
      BY <1>1, <1>3, <1>5, <2>3 DEF HeldAlike, Plainly
    <3>2. stage'[t] = "build" /\ ~full'[t] /\ stage[t] # "build" => f \in dirty[t]
      <4>1. Rebuild("watcher") /\ CanFail = FALSE
        BY <2>1 DEF ChannelAlone
      <4>2. QED
        BY <2>1, <4>1, OvertakenIsDirty
    <3>3. f \notin ignored => ReadsEither(t, f)'
      BY <1>5, <1>6, <2>3, <3>2, ReadsEitherNext DEF ChannelAlone
    <3>4. QED
      BY <1>1, <1>4, <1>5, <2>1, <3>1, <3>3 DEF FileInv, ReadsRightly, Overtaken
  <2>4. QED
    BY <2>2, <2>3
<1>7. CASE ~Overtaken(t, f)
  <2>1. stage[t] \in {"recompute", "build", "confirm"} => f \in dirty[t] \/ HeldExact(f)
    <3>1. CASE Behind(f)
      <4>1. t = "writer" /\ f = mutation.file /\ mutation # NoMutation
        BY <1>7, <3>1 DEF Overtaken, Behind, NoMutation
      <4>2. QED
        BY <1>5, <4>1 DEF ChannelInv, FileInv, WriterInv, StagesFit
    <3>2. QED
      BY <1>5, <3>1
  <2>2. ~Overtaken(t, f)'
    BY <1>1, <1>7 DEF Overtaken, Behind
  <2>3. CASE Commits
    <3>1. HeldAlike(f)' /\ HeldExact(f)'
      BY <1>5, <1>7, <2>1, <2>3, CommitsExactly
      DEF CommitSplice, CommitScoped, CommitFull
    <3>2. /\ stage'[t] = "send" /\ UNCHANGED <<full, snap>>
          /\ stage[t] \in Later
      BY <2>3 DEF CommitSplice, CommitScoped, CommitFull, Goto, TypeOK, jobVars, Later
    <3>3. ReadsExactly(t, f)'
      BY <1>2, <1>5, <1>7, <3>2 DEF ReadsExactly, Later
    <3>4. QED
      BY <1>4, <1>5, <2>2, <3>1, <3>3 DEF FileInv, ReadsRightly
  <2>4. CASE ~Commits
    <3>1. HeldAlike(f)'
      BY <1>1, <1>3, <1>5, <2>4 DEF HeldAlike, Plainly
    <3>2. ReadsExactly(t, f)'
      BY <1>5, <1>7, <2>1, <2>4, ReadsExactlyNext DEF ChannelAlone
    <3>3. ~Behind(f)' => HeldExact(f)
      <4>1. CASE ~Behind(f)
        BY <1>5, <4>1
      <4>2. CASE Behind(f) /\ ~Behind(f)'
        <5>1. t = "writer" /\ stage'["writer"] \in {"send", "done", "respond", "idle"}
          BY <1>1, <4>2 DEF Behind
        <5>2. QED
          BY <2>4, <5>1, WriterIsDone
      <4>3. QED
        BY <4>1, <4>2
    <3>4. ~Behind(f)' => HeldExact(f)'
      BY <1>1, <1>2, <1>3, <2>4, <3>3 DEF HeldExact
    <3>5. QED
      BY <1>4, <1>5, <2>2, <3>1, <3>2, <3>4 DEF FileInv, ReadsRightly
  <2>5. QED
    BY <2>3, <2>4
<1>8. QED
  BY <1>6, <1>7

LEMMA ChannelInit ==
    ASSUME ChannelAlone, Init PROVE ChannelInv
<1>1. EventsNameFiles /\ AllFit
  BY EventsInit, FitInit
<1>2. Legible
  BY ConstantsAssumption DEF ChannelAlone, Readable, Legible, Plain, Init
<1>3. WriterInv
  BY ConstantsAssumption DEF Init, WriterInv
<1>4. \A f \in Files : FileInv(f)
  BY ConstantsAssumption, IdleReadsRightly DEF Init, FileInv, HeldAlike, HeldExact, Working
<1>5. QED
  BY <1>1, <1>2, <1>3, <1>4 DEF ChannelInv, FileInv

LEMMA ChannelNext ==
    ASSUME ChannelAlone, TypeOK, TypeOK', SerialRebuilds, ScopeKept, ChannelInv, [Next]_vars
    PROVE  ChannelInv'
<1> USE ConstantsAssumption
<1>1. EventsNameFiles' /\ AllFit' /\ Legible'
  BY EventsNext, FitNext, LegibleNext DEF ChannelInv, FileInv
<1>2. CASE \/ Environment \/ (\E e \in inbox : Receive(e)) \/ Quiesce
           \/ IdleReconcile \/ NewRequest \/ Respond
  <2>1. WriterInv'
    BY <1>2, WriterAside DEF ChannelInv, FileInv
  <2>2. ASSUME NEW f \in Files
        PROVE  FileInv(f)'
    <3>1. FileInv(f)
      BY DEF ChannelInv, FileInv
    <3>2. CASE UNCHANGED disk /\ ~\E g \in Files : MutateFile(g)
      <4>1. Behind(f)' <=> Behind(f)
        <5>1. CASE Environment \/ (\E e \in inbox : Receive(e)) \/ Quiesce \/ IdleReconcile
          <6>1. Environment => UNCHANGED <<stage, mutation>>
            BY DEF ChannelAlone, Environment, ExternalWrite, Touch, RemoveDirectory,
               EditIgnores, Overflow, FlagRescan, LoseEvent
          <6>2. ~Environment => UNCHANGED <<stage["writer"], mutation>>
            BY <5>1 DEF Receive, Quiesce, IdleReconcile, TypeOK
          <6>3. QED
            BY <6>1, <6>2 DEF Behind
        <5>2. CASE Register \/ Respond \/ SetIgnores
          BY <5>2 DEF Register, Respond, SetIgnores, ChannelAlone, WriterIdle, Behind,
             NoMutation, ChannelInv, FileInv, WriterInv, TypeOK
        <5>3. QED
          BY <1>2, <3>2, <5>1, <5>2 DEF NewRequest
      <4>2. QED
        BY <1>2, <3>1, <3>2, <4>1, AsideSteps, ChannelAside, FileStill
    <3>3. ASSUME NEW g \in Files, MutateFile(g)
          PROVE  FileInv(f)'
      BY <1>1, <3>1, <3>3, FileMutated DEF ChannelInv, FileInv
    <3>4. QED
      BY <1>2, <3>2, <3>3, ChannelAside
  <2>3. QED
    BY <1>1, <2>1, <2>2 DEF ChannelInv, FileInv
<1>3. ASSUME NEW t \in Threads, Rebuild(t)
      PROVE  ChannelInv'
  <2>1. WriterInv'
    BY <1>3, WriterOnWatcher, WriterOnWriter DEF ChannelAlone
  <2>2. \A f \in Files : FileInv(f)'
    BY <1>3, <2>1, FileRebuilt
  <2>3. QED
    BY <1>1, <2>1, <2>2 DEF ChannelInv, FileInv
<1>4. CASE UNCHANGED vars
  <2>1. WriterInv'
    BY <1>4 DEF vars, ChannelInv, FileInv, WriterInv, NoMutation
  <2>2. \A f \in Files : FileInv(f) /\ (Behind(f)' <=> Behind(f))
    BY <1>4 DEF vars, ChannelInv, FileInv, Behind
  <2>3. \A f \in Files : FileInv(f)'
    BY <1>4, <2>2, FileStill DEF vars
  <2>4. QED
    BY <1>1, <2>1, <2>3 DEF ChannelInv, FileInv
<1>5. QED
  BY <1>2, <1>3, <1>4 DEF Next, Watcher, Writer

\* ReconcilePolicy::Off (engine.rs): "Correct when the mutation channel is the
\* only writer".  Whatever events are lost, late or spurious, and whatever the
\* watcher's rebuilds read and swap in beside the mutations, each answer is given
\* from exactly what is on disk, and so is what is held between mutations, though
\* files may return to what they were.  Files can be read or are not there, and
\* no build fails.
THEOREM ChannelLeavesCurrent ==
    ASSUME ChannelAlone PROVE Spec => []WriterLeavesCurrent
<1>1. ASSUME TypeOK, ChannelInv
      PROVE  WriterLeavesCurrent
  <2>1. CASE stage["writer"] \in {"respond", "idle"}
    <3>1. version > 0 /\ \A f \in Files : kb[f] = View[f]
      BY <1>1, <2>1 DEF ChannelInv, FileInv, WriterInv, Behind, HeldExact
    <3>2. kb = View
      BY <1>1, <3>1 DEF TypeOK, Catalogs, View
    <3>3. QED
      BY <3>1, <3>2 DEF WriterLeavesCurrent, Current
  <2>2. QED
    BY <2>1 DEF WriterLeavesCurrent
<1>2. Init => ChannelInv
  BY ChannelInit
<1>3. /\ TypeOK /\ TypeOK' /\ SerialRebuilds /\ ScopeKept /\ ChannelInv /\ [Next]_vars
      => ChannelInv'
  BY ChannelNext
<1>4. Spec => [](TypeOK /\ SerialRebuilds /\ ScopeKept)
  BY TypeCorrect, RebuildsAreSerial, ScopeIsKept, PTL DEF ChannelAlone
<1>5. TypeOK /\ ChannelInv => WriterLeavesCurrent
  BY <1>1
<1> QED
  BY <1>2, <1>3, <1>4, <1>5, PTL DEF Spec
=============================================================================
