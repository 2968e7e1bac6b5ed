----------------------------- MODULE SagaProofs -----------------------------
(***************************************************************************)
(* Theorems about Saga, for any trees, mutations and bounds: types and the *)
(* write-ahead rule first, then the promise of a saga: all trees or none,  *)
(* answers that stay true, and nobody's work thrown away; then that the    *)
(* saga implements AtomicMutation.                                         *)
(***************************************************************************)
EXTENDS Saga, TLAPS

USE DEF repoVars, fileVars, jobVars, countVars, histVars, Goto, Loop, Fault, NoFault

\* The phases of a request after its marker was written and before it closes.
Live == {"write", "commit", "staged", "made", "revert", "reverting", "restore"}

\* How the phases, the loops and the marker hang together: a request under way
\* has its whole marker on disk, naming every tree the loops will come to, and
\* so has a recovery.
Shape ==
    /\ pc \in Live /\ ~recovering =>
          /\ marker = [state |-> "whole", id |-> plan.id, trees |-> Members]
          /\ committed \subseteq Members /\ failed \subseteq Members
          /\ pc = "write" => todo \subseteq Written
          /\ pc # "write" => todo \subseteq Members
    /\ pc \in {"check", "mark"} => failed = {} /\ committed = {}
    /\ pc = "down" => failed = {}
    /\ pc \in Live \cup {"check", "mark"} /\ ~recovering => plan.id \in Mutations
    /\ pc \in {"staged", "made", "reverting"} => cur \in marker.trees
    /\ recovering => /\ pc \in {"classify", "reverting", "close"} /\ Whole(marker)
                     /\ todo \cup failed \subseteq marker.trees
    /\ pc = "classify" => recovering

\* Where uncommitted work of the engine may be when nothing is flagged.
MayBeDirty ==
    CASE pc = "down" -> IF Whole(marker) THEN marker.trees ELSE {}
      [] pc \in {"write", "revert"} -> Members
      [] pc \in {"commit", "made"} -> todo
      [] pc = "staged" -> todo \cup {cur}
      [] pc \in {"restore", "classify"} -> todo \cup failed
      [] pc = "reverting" -> IF recovering THEN todo \cup failed \cup {cur} ELSE Members
      [] OTHER -> {}

DebrisIsKnown == \A t \in GitTrees : Debris(t) => t \in MayBeDirty \/ flagged # {}

LEMMA WholeMarkers ==
    ASSUME marker \in Markers, Whole(marker)
    PROVE  marker.id \in Mutations /\ marker.trees \subseteq GitTrees
BY DEF Markers, Whole, NoMarker, Torn

\* No step breaks the types, as long as the phases hang together.
LEMMA TypeStep ==
    ASSUME TypeOK, Shape, [Next]_vars
    PROVE  TypeOK'
<1> USE SagaAssumption DEF TypeOK, Phases, Plans, CommitRecords, Markers, Contents,
        NoMarker, Torn, Shape, Live, Whole, Written, Members
<1>1. CASE Request
    BY <1>1 DEF Request
<1>2. CASE CreateMarker
    BY <1>2 DEF CreateMarker
<1>3. CASE WriteMarker
    BY <1>3 DEF WriteMarker
<1>4. CASE MarkerFails
    BY <1>4 DEF MarkerFails
<1>5. CASE WriteFails
    BY <1>5 DEF WriteFails
<1>6. CASE WriteDone
    BY <1>6 DEF WriteDone
<1>7. CASE StageFails
    BY <1>7 DEF StageFails, Compensate
<1>8. CASE MakeCommit
    BY <1>8 DEF MakeCommit, CommitWork
<1>9. CASE CommitFails
    BY <1>9 DEF CommitFails, Compensate
<1>10. CASE ReadSha
    BY <1>10 DEF ReadSha
<1>11. CASE ReadShaFails
    BY <1>11 DEF ReadShaFails, Compensate
<1>12. CASE CommitsDone
    BY <1>12 DEF CommitsDone
<1>13. CASE CommitRevert
    BY <1>13 DEF CommitRevert, CommitWork, RestorePaths
<1>14. CASE RevertsDone
    BY <1>14 DEF RevertsDone
<1>15. CASE NoteFailures
    BY <1>15 DEF NoteFailures, Id
<1>16. CASE Close
  <2>1. marker' \in Markers
      BY <1>16 DEF Close
  <2>2. recovering' = FALSE /\ open' = FALSE /\ pc' \in {"idle", "answer"} /\ faults' \in Nat
      BY <1>16 DEF Close
  <2>3. QED
      BY <1>16, <2>1, <2>2 DEF Close
<1>17. CASE Answer
    BY <1>17 DEF Answer
<1>18. CASE Crash
  <2>1. marker' = marker /\ marker' \in Markers
      BY <1>18 DEF Crash
  <2>2. pc' = "down" /\ todo' = {} /\ outcome' = "none" /\ crashes' \in Nat
      BY <1>18 DEF Crash
  <2>3. UNCHANGED <<head, index, work, made, flagged, plan, used, faults, humans>>
      BY <1>18 DEF Crash
  <2>4. UNCHANGED <<open, before, dirty, touched, answer>>
      BY <1>18 DEF Crash
  <2>5. cur' = NoTree /\ committed' = {} /\ failed' = {} /\ recovering' = FALSE
      BY <1>18 DEF Crash
  <2>6. QED
      BY <2>1, <2>2, <2>3, <2>4, <2>5
<1>19. CASE Start
  <2>1. marker' = marker /\ marker' \in Markers
      BY <1>19 DEF Start
  <2>2. todo' \subseteq Trees
    <3>1. CASE Whole(marker)
      <4>1. marker.trees \subseteq Trees
          BY <3>1, WholeMarkers, SagaAssumption DEF TypeOK
      <4>2. todo' = marker.trees
          BY <1>19, <3>1 DEF Start
      <4>3. QED
          BY <4>1, <4>2
    <3>2. CASE ~Whole(marker)
        BY <1>19, <3>2 DEF Start
    <3>3. QED
        BY <3>1, <3>2
  <2>3. pc' \in {"classify", "idle"} /\ recovering' \in BOOLEAN
      BY <1>19 DEF Start
  <2>4. QED
      BY <1>19, <2>1, <2>2, <2>3 DEF Start
<1>20. ASSUME NEW t \in Trees, Check(t) PROVE TypeOK'
    BY <1>20 DEF Check, Clean
<1>21. ASSUME NEW t \in Trees, Write(t) PROVE TypeOK'
    BY <1>21 DEF Write
<1>22. ASSUME NEW t \in Trees, Skip(t) PROVE TypeOK'
    BY <1>22 DEF Skip, Clean
<1>23. ASSUME NEW t \in Trees, Stage(t) PROVE TypeOK'
    BY <1>23 DEF Stage, Compensate, Clean
<1>24. ASSUME NEW t \in Trees, StageRevert(t) PROVE TypeOK'
    BY <1>24 DEF StageRevert, Reverts, Inverts, AlreadyInverted, Commits, Id
<1>25. ASSUME NEW t \in Trees, RevertFails(t) PROVE TypeOK'
    BY <1>25 DEF RevertFails, Reverts
<1>26. ASSUME NEW t \in Trees, RevertConflicts(t) PROVE TypeOK'
    BY <1>26 DEF RevertConflicts, Reverts, RestorePaths
<1>27. ASSUME NEW t \in Trees, Restore(t) PROVE TypeOK'
    BY <1>27 DEF Restore, Restores, RestorePaths
<1>28. ASSUME NEW t \in Trees, HumanEdit(t) PROVE TypeOK'
    BY <1>28 DEF HumanEdit, Touch
<1>29. ASSUME NEW t \in Trees, HumanCommit(t) PROVE TypeOK'
    BY <1>29 DEF HumanCommit, Touch, CommitWork
<1>30. ASSUME NEW t \in Trees, CherryPick(t) PROVE TypeOK'
    BY <1>30 DEF CherryPick, Touch, Clean
<1>31. CASE UNCHANGED vars
    BY <1>31 DEF vars
<1>32. QED
    BY <1>1, <1>2, <1>3, <1>4, <1>5, <1>6, <1>7, <1>8, <1>9, <1>10, <1>11, <1>12, <1>13,
        <1>14, <1>15, <1>16, <1>17, <1>18, <1>19, <1>20, <1>21, <1>22, <1>23, <1>24,
        <1>25, <1>26, <1>27, <1>28, <1>29, <1>30, <1>31 DEF Next, Proceed, Humans

\* No step breaks the shape.
LEMMA ShapeStep ==
    ASSUME TypeOK, TypeOK', Shape, [Next]_vars
    PROVE  Shape'
<1> USE SagaAssumption DEF TypeOK, Phases, Plans, CommitRecords, Markers, Contents,
        NoMarker, Torn, Shape, Live, Whole, Written, Members, Id
<1>1. CASE Request
    BY <1>1 DEF Request
<1>2. CASE CreateMarker
    BY <1>2 DEF CreateMarker
<1>3. CASE WriteMarker
    BY <1>3 DEF WriteMarker
<1>4. CASE MarkerFails
    BY <1>4 DEF MarkerFails
<1>5. CASE WriteFails
    BY <1>5 DEF WriteFails
<1>6. CASE WriteDone
    BY <1>6 DEF WriteDone
<1>7. CASE StageFails
    BY <1>7 DEF StageFails, Compensate
<1>8. CASE MakeCommit
    BY <1>8 DEF MakeCommit, CommitWork
<1>9. CASE CommitFails
    BY <1>9 DEF CommitFails, Compensate
<1>10. CASE ReadSha
    BY <1>10 DEF ReadSha
<1>11. CASE ReadShaFails
    BY <1>11 DEF ReadShaFails, Compensate
<1>12. CASE CommitsDone
    BY <1>12 DEF CommitsDone
<1>13. CASE CommitRevert
    BY <1>13 DEF CommitRevert, CommitWork, RestorePaths
<1>14. CASE RevertsDone
    BY <1>14 DEF RevertsDone
<1>15. CASE NoteFailures
    BY <1>15 DEF NoteFailures, Id
<1>16. CASE Close
    BY <1>16 DEF Close
<1>17. CASE Answer
    BY <1>17 DEF Answer
<1>18. CASE Crash
    BY <1>18 DEF Crash
<1>19. CASE Start
  <2>1. marker' = marker /\ pc' \in {"classify", "idle"}
      BY <1>19 DEF Start
  <2>2. recovering' => pc' = "classify" /\ Whole(marker') /\ todo' \subseteq marker'.trees
      BY <1>19 DEF Start
  <2>3. pc' = "classify" => recovering'
      BY <1>19 DEF Start
  <2>4. recovering' => failed' \subseteq marker'.trees
      BY <1>19 DEF Start
  <2>5. QED
      BY <2>1, <2>2, <2>3, <2>4
<1>20. ASSUME NEW t \in Trees, Check(t) PROVE Shape'
    BY <1>20 DEF Check, Clean
<1>21. ASSUME NEW t \in Trees, Write(t) PROVE Shape'
    BY <1>21 DEF Write
<1>22. ASSUME NEW t \in Trees, Skip(t) PROVE Shape'
    BY <1>22 DEF Skip, Clean
<1>23. ASSUME NEW t \in Trees, Stage(t) PROVE Shape'
    BY <1>23 DEF Stage, Compensate, Clean
<1>24. ASSUME NEW t \in Trees, StageRevert(t) PROVE Shape'
    BY <1>24 DEF StageRevert, Reverts, Inverts, AlreadyInverted, Commits, Id
<1>25. ASSUME NEW t \in Trees, RevertFails(t) PROVE Shape'
    BY <1>25 DEF RevertFails, Reverts
<1>26. ASSUME NEW t \in Trees, RevertConflicts(t) PROVE Shape'
    BY <1>26 DEF RevertConflicts, Reverts, RestorePaths
<1>27. ASSUME NEW t \in Trees, Restore(t) PROVE Shape'
    BY <1>27 DEF Restore, Restores, RestorePaths
<1>28. ASSUME NEW t \in Trees, HumanEdit(t) PROVE Shape'
    BY <1>28 DEF HumanEdit, Touch
<1>29. ASSUME NEW t \in Trees, HumanCommit(t) PROVE Shape'
    BY <1>29 DEF HumanCommit, Touch, CommitWork
<1>30. ASSUME NEW t \in Trees, CherryPick(t) PROVE Shape'
    BY <1>30 DEF CherryPick, Touch, Clean
<1>31. CASE UNCHANGED vars
    BY <1>31 DEF vars
<1>32. QED
    BY <1>1, <1>2, <1>3, <1>4, <1>5, <1>6, <1>7, <1>8, <1>9, <1>10, <1>11, <1>12, <1>13,
        <1>14, <1>15, <1>16, <1>17, <1>18, <1>19, <1>20, <1>21, <1>22, <1>23, <1>24,
        <1>25, <1>26, <1>27, <1>28, <1>29, <1>30, <1>31 DEF Next, Proceed, Humans

\* No step leaves uncommitted work where nobody would look.
LEMMA DebrisStep ==
    ASSUME TypeOK, TypeOK', Shape, Shape', DebrisIsKnown, [Next]_vars
    PROVE  DebrisIsKnown'
<1> USE SagaAssumption DEF TypeOK, Phases, Plans, CommitRecords, Markers, Contents,
        NoMarker, Torn, Shape, Live, Whole, Written, Members, Id, DebrisIsKnown, Debris,
        MayBeDirty
<1>1. CASE Request
    BY <1>1 DEF Request
<1>2. CASE CreateMarker
    BY <1>2 DEF CreateMarker
<1>3. CASE WriteMarker
    BY <1>3 DEF WriteMarker
<1>4. CASE MarkerFails
    BY <1>4 DEF MarkerFails
<1>5. CASE WriteFails
    BY <1>5 DEF WriteFails
<1>6. CASE WriteDone
    BY <1>6 DEF WriteDone
<1>7. CASE StageFails
    BY <1>7 DEF StageFails, Compensate
<1>8. CASE MakeCommit
    BY <1>8 DEF MakeCommit, CommitWork
<1>9. CASE CommitFails
    BY <1>9 DEF CommitFails, Compensate
<1>10. CASE ReadSha
    BY <1>10 DEF ReadSha
<1>11. CASE ReadShaFails
    BY <1>11 DEF ReadShaFails, Compensate
<1>12. CASE CommitsDone
    BY <1>12 DEF CommitsDone
<1>13. CASE CommitRevert
    BY <1>13 DEF CommitRevert, CommitWork, RestorePaths
<1>14. CASE RevertsDone
    BY <1>14 DEF RevertsDone
<1>15. CASE NoteFailures
    BY <1>15 DEF NoteFailures, Id
<1>16. CASE Close
    BY <1>16 DEF Close
<1>17. CASE Answer
    BY <1>17 DEF Answer
<1>18. CASE Crash
    BY <1>18 DEF Crash
<1>19. CASE Start
    BY <1>19 DEF Start
<1>20. ASSUME NEW t \in Trees, Check(t) PROVE DebrisIsKnown'
    BY <1>20 DEF Check, Clean
<1>21. ASSUME NEW t \in Trees, Write(t) PROVE DebrisIsKnown'
    BY <1>21 DEF Write
<1>22. ASSUME NEW t \in Trees, Skip(t) PROVE DebrisIsKnown'
    BY <1>22 DEF Skip, Clean
<1>23. ASSUME NEW t \in Trees, Stage(t) PROVE DebrisIsKnown'
    BY <1>23 DEF Stage, Compensate, Clean
<1>24. ASSUME NEW t \in Trees, StageRevert(t) PROVE DebrisIsKnown'
    BY <1>24 DEF StageRevert, Reverts, Inverts, AlreadyInverted, Commits, Id
<1>25. ASSUME NEW t \in Trees, RevertFails(t) PROVE DebrisIsKnown'
    BY <1>25 DEF RevertFails, Reverts
<1>26. ASSUME NEW t \in Trees, RevertConflicts(t) PROVE DebrisIsKnown'
    BY <1>26 DEF RevertConflicts, Reverts, RestorePaths
<1>27. ASSUME NEW t \in Trees, Restore(t) PROVE DebrisIsKnown'
    BY <1>27 DEF Restore, Restores, RestorePaths
<1>28. ASSUME NEW t \in Trees, HumanEdit(t) PROVE DebrisIsKnown'
    BY <1>28 DEF HumanEdit, Touch
<1>29. ASSUME NEW t \in Trees, HumanCommit(t) PROVE DebrisIsKnown'
    BY <1>29 DEF HumanCommit, Touch, CommitWork
<1>30. ASSUME NEW t \in Trees, CherryPick(t) PROVE DebrisIsKnown'
    BY <1>30 DEF CherryPick, Touch, Clean
<1>31. CASE UNCHANGED vars
    BY <1>31 DEF vars
<1>32. QED
    BY <1>1, <1>2, <1>3, <1>4, <1>5, <1>6, <1>7, <1>8, <1>9, <1>10, <1>11, <1>12, <1>13,
        <1>14, <1>15, <1>16, <1>17, <1>18, <1>19, <1>20, <1>21, <1>22, <1>23, <1>24,
        <1>25, <1>26, <1>27, <1>28, <1>29, <1>30, <1>31 DEF Next, Proceed, Humans

Inv == TypeOK /\ Shape /\ DebrisIsKnown

LEMMA InvInit ==
    Init => Inv
<1> USE SagaAssumption
<1> SUFFICES ASSUME Init PROVE Inv
    OBVIOUS
<1>1. TypeOK
    BY DEF Init, TypeOK, Phases, Plans, CommitRecords, Markers, Contents, NoMarker, Torn,
           NoPlan
<1>2. Shape
    BY DEF Init, Shape, Live
<1>3. DebrisIsKnown
    BY DEF Init, DebrisIsKnown, Debris
<1>4. QED
    BY <1>1, <1>2, <1>3 DEF Inv

LEMMA InvStep ==
    Inv /\ [Next]_vars => Inv'
BY TypeStep, ShapeStep, DebrisStep DEF Inv

\* Every variable keeps its type, whatever fails, crashes or interferes.
THEOREM SagaTypeCorrect ==
    Spec => []TypeOK
<1>1. Spec => []Inv
    BY InvInit, InvStep, PTL DEF Spec
<1>2. Inv => TypeOK
    BY DEF Inv
<1>3. QED
    BY <1>1, <1>2, PTL

\* Write-ahead: what the engine wrote and did not commit is named by the intent
\* marker on disk, so a start can undo it; or a sentinel tells of it.
THEOREM WorkIsCovered ==
    Spec => []MarkerCoversWork
<1>1. Spec => []Inv
    BY InvInit, InvStep, PTL DEF Spec
<1>2. Inv => MarkerCoversWork
  <2>1. SUFFICES ASSUME Inv, NEW t \in GitTrees, Debris(t), flagged = {}
                 PROVE  Whole(marker) /\ t \in marker.trees
      BY DEF MarkerCoversWork
  <2>2. t \in MayBeDirty
      BY <2>1 DEF Inv, DebrisIsKnown
  <2>3. CASE pc = "down" \/ recovering
      BY <2>1, <2>2, <2>3 DEF Inv, Shape, MayBeDirty
  <2>4. CASE pc \in Live /\ ~recovering
    <3>1. MayBeDirty \subseteq Members
        BY <2>1, <2>4 DEF Inv, Shape, MayBeDirty, Live
    <3>2. QED
        BY <2>1, <2>2, <2>4, <3>1 DEF Inv, Shape, Whole
  <2>5. CASE pc # "down" /\ ~recovering /\ pc \notin Live
      BY <2>1, <2>2, <2>5 DEF Inv, Shape, MayBeDirty, Live
  <2>6. QED
      BY <2>3, <2>4, <2>5
<1>3. QED
    BY <1>1, <1>2, PTL

-----------------------------------------------------------------------------
(* The promise.                                                            *)

\* The faults after which the engine itself loses track: a commit whose sha it
\* could not read, a marker it could not remove.
Traceable == {"sha", "close"} \cap Faults = {}

\* A bound tree without a commit of the mutation is as the request found it.
Fresh(t) == Commits(t, plan.id) = {} /\ head[t] = before[t]

\* One with a commit of the mutation has exactly the one the engine made, holds
\* one of its two contents, and has nothing in the way of its compensation.
OneCommit(t) ==
    \E c \in made :
        /\ Commits(t, plan.id) = {c}
        /\ c.from = before[t] /\ c.to = plan.target[t]
        /\ head[t] \in {c.from, c.to} /\ work[t] \in {c.from, head[t]}

BoundAreSound == \A t \in Bound : Fresh(t) \/ OneCommit(t)

Undone(t)  == head[t] = before[t] \/ t \in failed
Done(t)    == head[t] = plan.target[t]
Staged(t)  == Fresh(t) /\ work[t] = plan.target[t]
Settled(t) == Done(t) /\ (t \in committed \/ Fresh(t))

\* What the loops have achieved for a bound tree.
Progress(t) ==
    /\ pc \in {"check", "mark"} => Fresh(t)
    /\ pc = "write" => Fresh(t) /\ (t \in todo \/ work[t] = plan.target[t])
    /\ pc \in {"commit", "staged", "made"} /\ t \in todo => Staged(t)
    /\ pc = "commit" /\ t \notin todo => Settled(t)
    /\ pc \in {"staged", "made"} /\ t \notin todo \cup {cur} => Settled(t)
    /\ pc = "staged" /\ t = cur => Staged(t)
    /\ pc = "made" /\ t = cur => Done(t)
    /\ pc \in {"revert", "classify"} => t \in todo \/ Undone(t)
    /\ pc = "reverting" => IF t = cur THEN OneCommit(t) ELSE t \in todo \/ Undone(t)
    /\ pc = "restore" => Undone(t)

LoopsProgress ==
    /\ pc \in {"staged", "made"} => cur \notin todo
    /\ \A t \in Bound : Progress(t)

\* What the saga is about to say of its outcome is so.
VerdictIsSo ==
    pc \in {"close", "answer"} =>
       CASE outcome = "ok"         -> Applied
         [] outcome = "rejected"   -> RolledBack
         [] outcome = "incomplete" -> plan.id \in flagged
         [] OTHER                  -> FALSE

\* A saga is open exactly while there is a whole marker, which is its own.
MarkerIsOwn ==
    /\ open <=> Whole(marker)
    /\ open => marker.id = plan.id /\ marker.trees = Members
    /\ pc \in Live \cup {"classify", "close"} => open
    /\ pc \in {"idle", "answer", "check", "mark"} => ~open
    /\ answer # "none" => pc \in {"idle", "down"} /\ ~open

\* No id is met before it is given out.
IdsAreUsed ==
    /\ \A c \in made : c.by \in used
    /\ flagged \subseteq used
    /\ pc \in {"check", "mark"} => plan.id \notin flagged
    /\ pc \in {"check", "mark"} \/ open => plan.id \in used

Promises == AllOrNothing /\ AnswersAreTrue

Atomicity ==
    MarkerIsOwn /\ IdsAreUsed /\ BoundAreSound /\ LoopsProgress /\ VerdictIsSo /\ Promises

\* Uncommitted work is in no tree a saga has.
WorkIsElsewhere ==
    \A t \in dirty \ touched :
       /\ work[t] # head[t]
       /\ pc = "check" => t \in todo \/ t \notin Members
       /\ pc = "mark" \/ open => t \notin Members

\* No step leaves a marker that is not the open saga's.
LEMMA MarkerStep ==
    ASSUME TypeOK, TypeOK', Shape, Traceable, MarkerIsOwn, [Next]_vars
    PROVE  MarkerIsOwn'
<1> USE SagaAssumption DEF TypeOK, Phases, Plans, CommitRecords, Markers, Contents,
        NoMarker, Torn, Whole, Written, Members, Shape, Live, MarkerIsOwn, Traceable, Id
<1>1. CASE Request
    BY <1>1 DEF Request
<1>2. CASE CreateMarker
    BY <1>2 DEF CreateMarker
<1>3. CASE WriteMarker
    BY <1>3 DEF WriteMarker
<1>4. CASE MarkerFails
    BY <1>4 DEF MarkerFails
<1>5. CASE WriteFails
    BY <1>5 DEF WriteFails
<1>6. CASE WriteDone
    BY <1>6 DEF WriteDone
<1>7. CASE StageFails
    BY <1>7 DEF StageFails, Compensate
<1>8. CASE MakeCommit
    BY <1>8 DEF MakeCommit, CommitWork
<1>9. CASE CommitFails
    BY <1>9 DEF CommitFails, Compensate
<1>10. CASE ReadSha
    BY <1>10 DEF ReadSha
<1>11. CASE ReadShaFails
    BY <1>11 DEF ReadShaFails, Compensate
<1>12. CASE CommitsDone
    BY <1>12 DEF CommitsDone
<1>13. CASE CommitRevert
    BY <1>13 DEF CommitRevert, CommitWork, RestorePaths
<1>14. CASE RevertsDone
    BY <1>14 DEF RevertsDone
<1>15. CASE NoteFailures
    BY <1>15 DEF NoteFailures, Id
<1>16. CASE Close
    BY <1>16 DEF Close
<1>17. CASE Answer
    BY <1>17 DEF Answer
<1>18. CASE Crash
    BY <1>18 DEF Crash
<1>19. CASE Start
    BY <1>19 DEF Start
<1>20. ASSUME NEW t \in Trees, Check(t) PROVE MarkerIsOwn'
    BY <1>20 DEF Check, Clean
<1>21. ASSUME NEW t \in Trees, Write(t) PROVE MarkerIsOwn'
    BY <1>21 DEF Write
<1>22. ASSUME NEW t \in Trees, Skip(t) PROVE MarkerIsOwn'
    BY <1>22 DEF Skip, Clean
<1>23. ASSUME NEW t \in Trees, Stage(t) PROVE MarkerIsOwn'
    BY <1>23 DEF Stage, Compensate, Clean
<1>24. ASSUME NEW t \in Trees, StageRevert(t) PROVE MarkerIsOwn'
    BY <1>24 DEF StageRevert, Reverts, Inverts, AlreadyInverted, Commits, Id
<1>25. ASSUME NEW t \in Trees, RevertFails(t) PROVE MarkerIsOwn'
    BY <1>25 DEF RevertFails, Reverts
<1>26. ASSUME NEW t \in Trees, RevertConflicts(t) PROVE MarkerIsOwn'
    BY <1>26 DEF RevertConflicts, Reverts, RestorePaths
<1>27. ASSUME NEW t \in Trees, Restore(t) PROVE MarkerIsOwn'
    BY <1>27 DEF Restore, Restores, RestorePaths
<1>28. ASSUME NEW t \in Trees, HumanEdit(t) PROVE MarkerIsOwn'
    BY <1>28 DEF HumanEdit, Touch
<1>29. ASSUME NEW t \in Trees, HumanCommit(t) PROVE MarkerIsOwn'
    BY <1>29 DEF HumanCommit, Touch, CommitWork
<1>30. ASSUME NEW t \in Trees, CherryPick(t) PROVE MarkerIsOwn'
    BY <1>30 DEF CherryPick, Touch, Clean
<1>31. CASE UNCHANGED vars
    BY <1>31 DEF vars
<1>32. QED
    BY <1>1, <1>2, <1>3, <1>4, <1>5, <1>6, <1>7, <1>8, <1>9, <1>10, <1>11, <1>12, <1>13,
        <1>14, <1>15, <1>16, <1>17, <1>18, <1>19, <1>20, <1>21, <1>22, <1>23, <1>24,
        <1>25, <1>26, <1>27, <1>28, <1>29, <1>30, <1>31 DEF Next, Proceed, Humans

\* No step makes or flags anything under an id that was not given out.
LEMMA IdsStep ==
    ASSUME TypeOK, TypeOK', Shape, MarkerIsOwn, IdsAreUsed, [Next]_vars
    PROVE  IdsAreUsed'
<1> USE SagaAssumption DEF TypeOK, Phases, Plans, CommitRecords, Markers, Contents,
        NoMarker, Torn, Whole, Written, Members, Shape, Live, IdsAreUsed, MarkerIsOwn,
        NoPlan, Id
<1>1. CASE Request
    BY <1>1 DEF Request
<1>2. CASE CreateMarker
    BY <1>2 DEF CreateMarker
<1>3. CASE WriteMarker
    BY <1>3 DEF WriteMarker
<1>4. CASE MarkerFails
    BY <1>4 DEF MarkerFails
<1>5. CASE WriteFails
    BY <1>5 DEF WriteFails
<1>6. CASE WriteDone
    BY <1>6 DEF WriteDone
<1>7. CASE StageFails
    BY <1>7 DEF StageFails, Compensate
<1>8. CASE MakeCommit
    BY <1>8 DEF MakeCommit, CommitWork
<1>9. CASE CommitFails
    BY <1>9 DEF CommitFails, Compensate
<1>10. CASE ReadSha
    BY <1>10 DEF ReadSha
<1>11. CASE ReadShaFails
    BY <1>11 DEF ReadShaFails, Compensate
<1>12. CASE CommitsDone
    BY <1>12 DEF CommitsDone
<1>13. CASE CommitRevert
    BY <1>13 DEF CommitRevert, CommitWork, RestorePaths
<1>14. CASE RevertsDone
    BY <1>14 DEF RevertsDone
<1>15. CASE NoteFailures
    BY <1>15 DEF NoteFailures, Id
<1>16. CASE Close
    BY <1>16 DEF Close
<1>17. CASE Answer
    BY <1>17 DEF Answer
<1>18. CASE Crash
    BY <1>18 DEF Crash
<1>19. CASE Start
    BY <1>19 DEF Start
<1>20. ASSUME NEW t \in Trees, Check(t) PROVE IdsAreUsed'
    BY <1>20 DEF Check, Clean
<1>21. ASSUME NEW t \in Trees, Write(t) PROVE IdsAreUsed'
    BY <1>21 DEF Write
<1>22. ASSUME NEW t \in Trees, Skip(t) PROVE IdsAreUsed'
    BY <1>22 DEF Skip, Clean
<1>23. ASSUME NEW t \in Trees, Stage(t) PROVE IdsAreUsed'
    BY <1>23 DEF Stage, Compensate, Clean
<1>24. ASSUME NEW t \in Trees, StageRevert(t) PROVE IdsAreUsed'
    BY <1>24 DEF StageRevert, Reverts, Inverts, AlreadyInverted, Commits, Id
<1>25. ASSUME NEW t \in Trees, RevertFails(t) PROVE IdsAreUsed'
    BY <1>25 DEF RevertFails, Reverts
<1>26. ASSUME NEW t \in Trees, RevertConflicts(t) PROVE IdsAreUsed'
    BY <1>26 DEF RevertConflicts, Reverts, RestorePaths
<1>27. ASSUME NEW t \in Trees, Restore(t) PROVE IdsAreUsed'
    BY <1>27 DEF Restore, Restores, RestorePaths
<1>28. ASSUME NEW t \in Trees, HumanEdit(t) PROVE IdsAreUsed'
    BY <1>28 DEF HumanEdit, Touch
<1>29. ASSUME NEW t \in Trees, HumanCommit(t) PROVE IdsAreUsed'
    BY <1>29 DEF HumanCommit, Touch, CommitWork
<1>30. ASSUME NEW t \in Trees, CherryPick(t) PROVE IdsAreUsed'
    BY <1>30 DEF CherryPick, Touch, Clean
<1>31. CASE UNCHANGED vars
    BY <1>31 DEF vars
<1>32. QED
    BY <1>1, <1>2, <1>3, <1>4, <1>5, <1>6, <1>7, <1>8, <1>9, <1>10, <1>11, <1>12, <1>13,
        <1>14, <1>15, <1>16, <1>17, <1>18, <1>19, <1>20, <1>21, <1>22, <1>23, <1>24,
        <1>25, <1>26, <1>27, <1>28, <1>29, <1>30, <1>31 DEF Next, Proceed, Humans

\* No step gives a bound tree anything but the mutation's one commit.
LEMMA SoundStep ==
    ASSUME TypeOK, TypeOK', Shape, Traceable, MarkerIsOwn, IdsAreUsed,
           BoundAreSound, LoopsProgress, [Next]_vars
    PROVE  BoundAreSound'
<1> USE SagaAssumption DEF TypeOK, Plans, Phases, Live, CommitRecords, Whole, Written,
        Members, BoundAreSound, LoopsProgress, Progress, MarkerIsOwn, IdsAreUsed, Bound,
        Fresh, OneCommit, Undone, Done, Staged, Settled, Commits, Id
<1>1. CASE Request
    BY <1>1 DEF Request
<1>2. CASE CreateMarker
    BY <1>2 DEF CreateMarker
<1>3. CASE WriteMarker
    BY <1>3 DEF WriteMarker
<1>4. CASE MarkerFails
    BY <1>4 DEF MarkerFails
<1>5. CASE WriteFails
    BY <1>5 DEF WriteFails
<1>6. CASE WriteDone
    BY <1>6 DEF WriteDone
<1>7. CASE StageFails
    BY <1>7 DEF StageFails, Compensate
<1>8. CASE MakeCommit
  <2> DEFINE c == [tree |-> cur, by |-> plan.id, from |-> head[cur], to |-> work[cur],
                   copy |-> 0]
  <2>1. /\ made' = made \cup {c} /\ head' = [head EXCEPT ![cur] = work[cur]]
        /\ UNCHANGED <<work, plan, before, touched>> /\ cur \in Trees
      BY <1>8 DEF MakeCommit, CommitWork
  <2>2. SUFFICES ASSUME NEW t \in Bound PROVE Fresh(t)' \/ OneCommit(t)'
      BY <2>1
  <2>3. CASE t # cur
    <3>1. Commits(t, plan.id)' = Commits(t, plan.id)
        BY <2>1, <2>3
    <3>2. QED
        BY <2>1, <2>3, <3>1
  <2>4. CASE t = cur
    <3>1. Staged(t)
        BY <1>8, <2>4 DEF MakeCommit
    <3>2. Commits(t, plan.id)' = {c}
        BY <2>1, <2>4, <3>1
    <3>3. c \in made' /\ c.from = before[t] /\ c.to = plan.target[t]
        BY <2>1, <2>4, <3>1
    <3>4. head'[t] = c.to /\ work'[t] = head'[t]
        BY <2>1, <2>4
    <3>5. QED
        BY <2>1, <3>2, <3>3, <3>4
  <2>5. QED
      BY <2>3, <2>4
<1>9. CASE CommitFails
    BY <1>9 DEF CommitFails, Compensate
<1>10. CASE ReadSha
    BY <1>10 DEF ReadSha
<1>11. CASE ReadShaFails
    BY <1>11 DEF ReadShaFails, Compensate
<1>12. CASE CommitsDone
    BY <1>12 DEF CommitsDone
<1>13. CASE CommitRevert
    BY <1>13 DEF CommitRevert, CommitWork, RestorePaths
<1>14. CASE RevertsDone
    BY <1>14 DEF RevertsDone
<1>15. CASE NoteFailures
    BY <1>15 DEF NoteFailures, Id
<1>16. CASE Close
    BY <1>16 DEF Close
<1>17. CASE Answer
    BY <1>17 DEF Answer
<1>18. CASE Crash
    BY <1>18 DEF Crash
<1>19. CASE Start
    BY <1>19 DEF Start
<1>20. ASSUME NEW t \in Trees, Check(t) PROVE BoundAreSound'
    BY <1>20 DEF Check, Clean
<1>21. ASSUME NEW t \in Trees, Write(t) PROVE BoundAreSound'
    BY <1>21 DEF Write
<1>22. ASSUME NEW t \in Trees, Skip(t) PROVE BoundAreSound'
    BY <1>22 DEF Skip, Clean
<1>23. ASSUME NEW t \in Trees, Stage(t) PROVE BoundAreSound'
    BY <1>23 DEF Stage, Compensate, Clean
<1>24. ASSUME NEW t \in Trees, StageRevert(t) PROVE BoundAreSound'
    BY <1>24 DEF StageRevert, Reverts, Inverts, AlreadyInverted, Commits, Id
<1>25. ASSUME NEW t \in Trees, RevertFails(t) PROVE BoundAreSound'
    BY <1>25 DEF RevertFails, Reverts
<1>26. ASSUME NEW t \in Trees, RevertConflicts(t) PROVE BoundAreSound'
    BY <1>26 DEF RevertConflicts, Reverts, RestorePaths
<1>27. ASSUME NEW t \in Trees, Restore(t) PROVE BoundAreSound'
    BY <1>27 DEF Restore, Restores, RestorePaths
<1>28. ASSUME NEW t \in Trees, HumanEdit(t) PROVE BoundAreSound'
    BY <1>28 DEF HumanEdit, Touch
<1>29. ASSUME NEW t \in Trees, HumanCommit(t) PROVE BoundAreSound'
    BY <1>29 DEF HumanCommit, Touch, CommitWork
<1>30. ASSUME NEW t \in Trees, CherryPick(t) PROVE BoundAreSound'
    BY <1>30 DEF CherryPick, Touch, Clean
<1>31. CASE UNCHANGED vars
    BY <1>31 DEF vars
<1>32. QED
    BY <1>1, <1>2, <1>3, <1>4, <1>5, <1>6, <1>7, <1>8, <1>9, <1>10, <1>11, <1>12, <1>13,
        <1>14, <1>15, <1>16, <1>17, <1>18, <1>19, <1>20, <1>21, <1>22, <1>23, <1>24,
        <1>25, <1>26, <1>27, <1>28, <1>29, <1>30, <1>31 DEF Next, Proceed, Humans

\* What the loops have achieved for a tree stands while the saga and the tree do.
LEMMA ProgressStands ==
    ASSUME NEW u, Progress(u), UNCHANGED <<pc, plan, todo, cur, committed, failed, before>>,
           head'[u] = head[u], work'[u] = work[u], Commits(u, plan.id)' = Commits(u, plan.id)
    PROVE  Progress(u)'
<1>1. (Fresh(u)' <=> Fresh(u)) /\ (Undone(u)' <=> Undone(u)) /\ (Done(u)' <=> Done(u))
  BY DEF Fresh, Undone, Done
<1>2. OneCommit(u) => OneCommit(u)'
  <2>1. ASSUME NEW c, Commits(u, plan.id)' = {c} PROVE c \in made'
    BY <2>1 DEF Commits
  <2>2. QED
    BY <2>1 DEF OneCommit
<1>3. QED
  BY <1>1, <1>2 DEF Progress, Staged, Settled

\* What the loops have achieved stands while the saga and every bound tree do.
LEMMA LoopsStand ==
    ASSUME LoopsProgress, UNCHANGED <<pc, plan, todo, cur, committed, failed, before>>,
           \A u \in Bound' : /\ u \in Bound
                            /\ head'[u] = head[u]
                            /\ work'[u] = work[u]
                            /\ Commits(u, plan.id)' = Commits(u, plan.id)
    PROVE  LoopsProgress'
<1>1. ASSUME NEW u \in Bound' PROVE Progress(u)'
  <2>1. Progress(u)
    BY DEF LoopsProgress
  <2>2. QED
    BY <2>1, ProgressStands
<1>2. QED
  BY <1>1 DEF LoopsProgress

\* No step takes back what the loops have achieved.
LEMMA ProgressStep ==
    ASSUME TypeOK, TypeOK', Shape, Shape', Traceable, MarkerIsOwn, IdsAreUsed,
           BoundAreSound, BoundAreSound', LoopsProgress, [Next]_vars
    PROVE  LoopsProgress'
<1> USE SagaAssumption DEF TypeOK, Plans, Phases, Live, CommitRecords, Whole, Written,
        Members, BoundAreSound, LoopsProgress, Progress, MarkerIsOwn, IdsAreUsed, Bound,
        Fresh, OneCommit, Undone, Done, Staged, Settled, Commits, Id, Shape, Traceable
<1>1. CASE Request
    BY <1>1 DEF Request
<1>2. CASE CreateMarker
    BY <1>2 DEF CreateMarker
<1>3. CASE WriteMarker
    BY <1>3 DEF WriteMarker
<1>4. CASE MarkerFails
    BY <1>4 DEF MarkerFails
<1>5. CASE WriteFails
    BY <1>5 DEF WriteFails
<1>6. CASE WriteDone
    BY <1>6 DEF WriteDone
<1>7. CASE StageFails
    BY <1>7 DEF StageFails, Compensate
<1>8. CASE MakeCommit
    BY <1>8 DEF MakeCommit, CommitWork
<1>9. CASE CommitFails
    BY <1>9 DEF CommitFails, Compensate
<1>10. CASE ReadSha
    BY <1>10 DEF ReadSha
<1>11. CASE ReadShaFails
    BY <1>11 DEF ReadShaFails, Compensate
<1>12. CASE CommitsDone
    BY <1>12 DEF CommitsDone
<1>13. CASE CommitRevert
    BY <1>13 DEF CommitRevert, CommitWork, RestorePaths
<1>14. CASE RevertsDone
    BY <1>14 DEF RevertsDone
<1>15. CASE NoteFailures
    BY <1>15 DEF NoteFailures, Id
<1>16. CASE Close
    BY <1>16 DEF Close
<1>17. CASE Answer
    BY <1>17 DEF Answer
<1>18. CASE Crash
    BY <1>18 DEF Crash
<1>19. CASE Start
    BY <1>19 DEF Start
<1>20. ASSUME NEW t \in Trees, Check(t) PROVE LoopsProgress'
    BY <1>20 DEF Check, Clean
<1>21. ASSUME NEW t \in Trees, Write(t) PROVE LoopsProgress'
    BY <1>21 DEF Write
<1>22. ASSUME NEW t \in Trees, Skip(t) PROVE LoopsProgress'
    BY <1>22 DEF Skip, Clean
<1>23. ASSUME NEW t \in Trees, Stage(t) PROVE LoopsProgress'
    BY <1>23 DEF Stage, Compensate, Clean
<1>24. ASSUME NEW t \in Trees, StageRevert(t) PROVE LoopsProgress'
    BY <1>24 DEF StageRevert, Reverts, Inverts, AlreadyInverted, Commits, Id
<1>25. ASSUME NEW t \in Trees, RevertFails(t) PROVE LoopsProgress'
    BY <1>25 DEF RevertFails, Reverts
<1>26. ASSUME NEW t \in Trees, RevertConflicts(t) PROVE LoopsProgress'
  <2>1. /\ pc \in {"revert", "classify"} /\ pc' = pc
        /\ todo' = todo \ {t} /\ failed' = failed \cup {t}
        /\ UNCHANGED <<head, before, touched, plan>>
    BY <1>26 DEF RevertConflicts, Reverts, histVars
  <2>2. QED
    BY <2>1
<1>27. ASSUME NEW t \in Trees, Restore(t) PROVE LoopsProgress'
    BY <1>27 DEF Restore, Restores, RestorePaths
<1>28. ASSUME NEW t \in Trees, HumanEdit(t) PROVE LoopsProgress'
  <2>1. /\ UNCHANGED <<pc, plan, todo, cur, committed, failed, before, head, made>>
        /\ touched' = touched \cup {t} /\ \A u \in Trees \ {t} : work'[u] = work[u]
    BY <1>28 DEF HumanEdit, Touch, jobVars
  <2>2. \A u \in Bound' : /\ u \in Bound
                         /\ head'[u] = head[u]
                         /\ work'[u] = work[u]
                         /\ Commits(u, plan.id)' = Commits(u, plan.id)
    BY <2>1
  <2> HIDE DEF TypeOK, Shape, Traceable, MarkerIsOwn, IdsAreUsed, BoundAreSound,
           LoopsProgress, Progress, Bound, Commits
  <2>3. QED
    BY <2>1, <2>2, LoopsStand
<1>29. ASSUME NEW t \in Trees, HumanCommit(t) PROVE LoopsProgress'
  <2>1. /\ UNCHANGED <<pc, plan, todo, cur, committed, failed, before, work, made>>
        /\ touched' = touched \cup {t} /\ \A u \in Trees \ {t} : head'[u] = head[u]
    BY <1>29 DEF HumanCommit, Touch, CommitWork, jobVars
  <2>2. \A u \in Bound' : /\ u \in Bound
                         /\ head'[u] = head[u]
                         /\ work'[u] = work[u]
                         /\ Commits(u, plan.id)' = Commits(u, plan.id)
    BY <2>1
  <2> HIDE DEF TypeOK, Shape, Traceable, MarkerIsOwn, IdsAreUsed, BoundAreSound,
           LoopsProgress, Progress, Bound, Commits
  <2>3. QED
    BY <2>1, <2>2, LoopsStand
<1>30. ASSUME NEW t \in Trees, CherryPick(t) PROVE LoopsProgress'
  <2>1. /\ UNCHANGED <<pc, plan, todo, cur, committed, failed, before>>
        /\ touched' = touched \cup {t}
        /\ \A u \in Trees \ {t} : head'[u] = head[u] /\ work'[u] = work[u]
    BY <1>30 DEF CherryPick, Touch, jobVars
  <2>2. \A u \in Trees \ {t} : Commits(u, plan.id)' = Commits(u, plan.id)
    BY <1>30 DEF CherryPick, jobVars
  <2>3. \A u \in Bound' : /\ u \in Bound
                         /\ head'[u] = head[u]
                         /\ work'[u] = work[u]
                         /\ Commits(u, plan.id)' = Commits(u, plan.id)
    BY <2>1, <2>2
  <2> HIDE DEF TypeOK, Shape, Traceable, MarkerIsOwn, IdsAreUsed, BoundAreSound,
           LoopsProgress, Progress, Bound, Commits
  <2>4. QED
    BY <2>1, <2>3, LoopsStand
<1>31. CASE UNCHANGED vars
  <2>1. /\ UNCHANGED <<pc, plan, todo, cur, committed, failed, before, head, work, made, touched>>
    BY <1>31 DEF vars
  <2>2. \A u \in Bound' : /\ u \in Bound
                         /\ head'[u] = head[u]
                         /\ work'[u] = work[u]
                         /\ Commits(u, plan.id)' = Commits(u, plan.id)
    BY <2>1
  <2> HIDE DEF TypeOK, Shape, Traceable, MarkerIsOwn, IdsAreUsed, BoundAreSound,
           LoopsProgress, Progress, Bound, Commits
  <2>3. QED
    BY <2>1, <2>2, LoopsStand
<1>32. QED
    BY <1>1, <1>2, <1>3, <1>4, <1>5, <1>6, <1>7, <1>8, <1>9, <1>10, <1>11, <1>12, <1>13,
        <1>14, <1>15, <1>16, <1>17, <1>18, <1>19, <1>20, <1>21, <1>22, <1>23, <1>24,
        <1>25, <1>26, <1>27, <1>28, <1>29, <1>30, <1>31 DEF Next, Proceed, Humans

\* What a saga is about to answer is what its loops achieved.
LEMMA VerdictStep ==
    ASSUME TypeOK, TypeOK', Shape, Traceable, MarkerIsOwn, LoopsProgress, VerdictIsSo, [Next]_vars
    PROVE  VerdictIsSo'
<1> USE SagaAssumption DEF TypeOK, Plans, Phases, Live, Whole, Written, Members,
        LoopsProgress, Progress, Bound, Fresh, Undone, Done, Staged, Settled, Id,
        MarkerIsOwn, Shape, Traceable, VerdictIsSo, Applied, RolledBack
<1>1. CASE Request
    BY <1>1 DEF Request
<1>2. CASE CreateMarker
    BY <1>2 DEF CreateMarker
<1>3. CASE WriteMarker
    BY <1>3 DEF WriteMarker
<1>4. CASE MarkerFails
    BY <1>4 DEF MarkerFails
<1>5. CASE WriteFails
    BY <1>5 DEF WriteFails
<1>6. CASE WriteDone
    BY <1>6 DEF WriteDone
<1>7. CASE StageFails
    BY <1>7 DEF StageFails, Compensate
<1>8. CASE MakeCommit
    BY <1>8 DEF MakeCommit, CommitWork
<1>9. CASE CommitFails
    BY <1>9 DEF CommitFails, Compensate
<1>10. CASE ReadSha
    BY <1>10 DEF ReadSha
<1>11. CASE ReadShaFails
    BY <1>11 DEF ReadShaFails, Compensate
<1>12. CASE CommitsDone
    BY <1>12 DEF CommitsDone
<1>13. CASE CommitRevert
    BY <1>13 DEF CommitRevert, CommitWork, RestorePaths
<1>14. CASE RevertsDone
    BY <1>14 DEF RevertsDone
<1>15. CASE NoteFailures
    BY <1>15 DEF NoteFailures, Id
<1>16. CASE Close
    BY <1>16 DEF Close
<1>17. CASE Answer
    BY <1>17 DEF Answer
<1>18. CASE Crash
    BY <1>18 DEF Crash
<1>19. CASE Start
    BY <1>19 DEF Start
<1>20. ASSUME NEW t \in Trees, Check(t) PROVE VerdictIsSo'
    BY <1>20 DEF Check, Clean
<1>21. ASSUME NEW t \in Trees, Write(t) PROVE VerdictIsSo'
    BY <1>21 DEF Write
<1>22. ASSUME NEW t \in Trees, Skip(t) PROVE VerdictIsSo'
    BY <1>22 DEF Skip, Clean
<1>23. ASSUME NEW t \in Trees, Stage(t) PROVE VerdictIsSo'
    BY <1>23 DEF Stage, Compensate, Clean
<1>24. ASSUME NEW t \in Trees, StageRevert(t) PROVE VerdictIsSo'
    BY <1>24 DEF StageRevert, Reverts, Inverts, AlreadyInverted, Commits, Id
<1>25. ASSUME NEW t \in Trees, RevertFails(t) PROVE VerdictIsSo'
    BY <1>25 DEF RevertFails, Reverts
<1>26. ASSUME NEW t \in Trees, RevertConflicts(t) PROVE VerdictIsSo'
    BY <1>26 DEF RevertConflicts, Reverts, RestorePaths
<1>27. ASSUME NEW t \in Trees, Restore(t) PROVE VerdictIsSo'
    BY <1>27 DEF Restore, Restores, RestorePaths
<1>28. ASSUME NEW t \in Trees, HumanEdit(t) PROVE VerdictIsSo'
    BY <1>28 DEF HumanEdit, Touch
<1>29. ASSUME NEW t \in Trees, HumanCommit(t) PROVE VerdictIsSo'
    BY <1>29 DEF HumanCommit, Touch, CommitWork
<1>30. ASSUME NEW t \in Trees, CherryPick(t) PROVE VerdictIsSo'
    BY <1>30 DEF CherryPick, Touch, Clean
<1>31. CASE UNCHANGED vars
    BY <1>31 DEF vars
<1>32. QED
    BY <1>1, <1>2, <1>3, <1>4, <1>5, <1>6, <1>7, <1>8, <1>9, <1>10, <1>11, <1>12, <1>13,
        <1>14, <1>15, <1>16, <1>17, <1>18, <1>19, <1>20, <1>21, <1>22, <1>23, <1>24,
        <1>25, <1>26, <1>27, <1>28, <1>29, <1>30, <1>31 DEF Next, Proceed, Humans

\* What was achieved and what was answered stay so.
LEMMA PromiseStep ==
    ASSUME TypeOK, TypeOK', Shape, Traceable, MarkerIsOwn, LoopsProgress, VerdictIsSo,
           Promises, [Next]_vars
    PROVE  Promises'
<1> USE SagaAssumption DEF TypeOK, Plans, Phases, Live, Whole, Written, Members,
        LoopsProgress, Progress, Bound, Fresh, Undone, Done, Staged, Settled, Id,
        MarkerIsOwn, Shape, Traceable, VerdictIsSo, Applied, RolledBack, Promises,
        AllOrNothing, AnswersAreTrue
<1>1. CASE Request
    BY <1>1 DEF Request
<1>2. CASE CreateMarker
    BY <1>2 DEF CreateMarker
<1>3. CASE WriteMarker
    BY <1>3 DEF WriteMarker
<1>4. CASE MarkerFails
    BY <1>4 DEF MarkerFails
<1>5. CASE WriteFails
    BY <1>5 DEF WriteFails
<1>6. CASE WriteDone
    BY <1>6 DEF WriteDone
<1>7. CASE StageFails
    BY <1>7 DEF StageFails, Compensate
<1>8. CASE MakeCommit
    BY <1>8 DEF MakeCommit, CommitWork
<1>9. CASE CommitFails
    BY <1>9 DEF CommitFails, Compensate
<1>10. CASE ReadSha
    BY <1>10 DEF ReadSha
<1>11. CASE ReadShaFails
    BY <1>11 DEF ReadShaFails, Compensate
<1>12. CASE CommitsDone
    BY <1>12 DEF CommitsDone
<1>13. CASE CommitRevert
    BY <1>13 DEF CommitRevert, CommitWork, RestorePaths
<1>14. CASE RevertsDone
    BY <1>14 DEF RevertsDone
<1>15. CASE NoteFailures
    BY <1>15 DEF NoteFailures, Id
<1>16. CASE Close
    BY <1>16 DEF Close
<1>17. CASE Answer
    BY <1>17 DEF Answer
<1>18. CASE Crash
    BY <1>18 DEF Crash
<1>19. CASE Start
    BY <1>19 DEF Start
<1>20. ASSUME NEW t \in Trees, Check(t) PROVE Promises'
    BY <1>20 DEF Check, Clean
<1>21. ASSUME NEW t \in Trees, Write(t) PROVE Promises'
    BY <1>21 DEF Write
<1>22. ASSUME NEW t \in Trees, Skip(t) PROVE Promises'
    BY <1>22 DEF Skip, Clean
<1>23. ASSUME NEW t \in Trees, Stage(t) PROVE Promises'
    BY <1>23 DEF Stage, Compensate, Clean
<1>24. ASSUME NEW t \in Trees, StageRevert(t) PROVE Promises'
    BY <1>24 DEF StageRevert, Reverts, Inverts, AlreadyInverted, Commits, Id
<1>25. ASSUME NEW t \in Trees, RevertFails(t) PROVE Promises'
    BY <1>25 DEF RevertFails, Reverts
<1>26. ASSUME NEW t \in Trees, RevertConflicts(t) PROVE Promises'
    BY <1>26 DEF RevertConflicts, Reverts, RestorePaths
<1>27. ASSUME NEW t \in Trees, Restore(t) PROVE Promises'
    BY <1>27 DEF Restore, Restores, RestorePaths
<1>28. ASSUME NEW t \in Trees, HumanEdit(t) PROVE Promises'
    BY <1>28 DEF HumanEdit, Touch
<1>29. ASSUME NEW t \in Trees, HumanCommit(t) PROVE Promises'
    BY <1>29 DEF HumanCommit, Touch, CommitWork
<1>30. ASSUME NEW t \in Trees, CherryPick(t) PROVE Promises'
    BY <1>30 DEF CherryPick, Touch, Clean
<1>31. CASE UNCHANGED vars
    BY <1>31 DEF vars
<1>32. QED
    BY <1>1, <1>2, <1>3, <1>4, <1>5, <1>6, <1>7, <1>8, <1>9, <1>10, <1>11, <1>12, <1>13,
        <1>14, <1>15, <1>16, <1>17, <1>18, <1>19, <1>20, <1>21, <1>22, <1>23, <1>24,
        <1>25, <1>26, <1>27, <1>28, <1>29, <1>30, <1>31 DEF Next, Proceed, Humans

\* No step takes a tree with somebody's uncommitted work into a saga.
LEMMA ElsewhereStep ==
    ASSUME TypeOK, TypeOK', Shape, MarkerIsOwn, ~CanExempt, WorkIsElsewhere, [Next]_vars
    PROVE  WorkIsElsewhere'
<1> USE SagaAssumption DEF TypeOK, Plans, Phases, Live, Whole, Written, Members,
        MarkerIsOwn, Shape, WorkIsElsewhere
<1>1. CASE Request
    BY <1>1 DEF Request
<1>2. CASE CreateMarker
    BY <1>2 DEF CreateMarker
<1>3. CASE WriteMarker
    BY <1>3 DEF WriteMarker
<1>4. CASE MarkerFails
    BY <1>4 DEF MarkerFails
<1>5. CASE WriteFails
    BY <1>5 DEF WriteFails
<1>6. CASE WriteDone
    BY <1>6 DEF WriteDone
<1>7. CASE StageFails
    BY <1>7 DEF StageFails, Compensate
<1>8. CASE MakeCommit
    BY <1>8 DEF MakeCommit, CommitWork
<1>9. CASE CommitFails
    BY <1>9 DEF CommitFails, Compensate
<1>10. CASE ReadSha
    BY <1>10 DEF ReadSha
<1>11. CASE ReadShaFails
    BY <1>11 DEF ReadShaFails, Compensate
<1>12. CASE CommitsDone
    BY <1>12 DEF CommitsDone
<1>13. CASE CommitRevert
    BY <1>13 DEF CommitRevert, CommitWork, RestorePaths
<1>14. CASE RevertsDone
    BY <1>14 DEF RevertsDone
<1>15. CASE NoteFailures
    BY <1>15 DEF NoteFailures, Id
<1>16. CASE Close
    BY <1>16 DEF Close
<1>17. CASE Answer
    BY <1>17 DEF Answer
<1>18. CASE Crash
    BY <1>18 DEF Crash
<1>19. CASE Start
    BY <1>19 DEF Start
<1>20. ASSUME NEW t \in Trees, Check(t) PROVE WorkIsElsewhere'
    BY <1>20 DEF Check, Clean
<1>21. ASSUME NEW t \in Trees, Write(t) PROVE WorkIsElsewhere'
    BY <1>21 DEF Write
<1>22. ASSUME NEW t \in Trees, Skip(t) PROVE WorkIsElsewhere'
    BY <1>22 DEF Skip, Clean
<1>23. ASSUME NEW t \in Trees, Stage(t) PROVE WorkIsElsewhere'
    BY <1>23 DEF Stage, Compensate, Clean
<1>24. ASSUME NEW t \in Trees, StageRevert(t) PROVE WorkIsElsewhere'
    BY <1>24 DEF StageRevert, Reverts, Inverts, AlreadyInverted, Commits, Id
<1>25. ASSUME NEW t \in Trees, RevertFails(t) PROVE WorkIsElsewhere'
    BY <1>25 DEF RevertFails, Reverts
<1>26. ASSUME NEW t \in Trees, RevertConflicts(t) PROVE WorkIsElsewhere'
    BY <1>26 DEF RevertConflicts, Reverts, RestorePaths
<1>27. ASSUME NEW t \in Trees, Restore(t) PROVE WorkIsElsewhere'
    BY <1>27 DEF Restore, Restores, RestorePaths
<1>28. ASSUME NEW t \in Trees, HumanEdit(t) PROVE WorkIsElsewhere'
    BY <1>28 DEF HumanEdit, Touch
<1>29. ASSUME NEW t \in Trees, HumanCommit(t) PROVE WorkIsElsewhere'
    BY <1>29 DEF HumanCommit, Touch, CommitWork
<1>30. ASSUME NEW t \in Trees, CherryPick(t) PROVE WorkIsElsewhere'
    BY <1>30 DEF CherryPick, Touch, Clean
<1>31. CASE UNCHANGED vars
    BY <1>31 DEF vars
<1>32. QED
    BY <1>1, <1>2, <1>3, <1>4, <1>5, <1>6, <1>7, <1>8, <1>9, <1>10, <1>11, <1>12, <1>13,
        <1>14, <1>15, <1>16, <1>17, <1>18, <1>19, <1>20, <1>21, <1>22, <1>23, <1>24,
        <1>25, <1>26, <1>27, <1>28, <1>29, <1>30, <1>31 DEF Next, Proceed, Humans

\* The frame of an engine step: humans are not counted up.
WorkStays ==
    \A t \in dirty \ touched :
        humans' = humans => work'[t] = work[t] /\ head'[t] = head[t]

\* No step of the engine touches a tree the saga does not have.
LEMMA WorkStep ==
    ASSUME TypeOK, Shape, MarkerIsOwn, WorkIsElsewhere, [Next]_vars
    PROVE  WorkStays
<1> USE SagaAssumption DEF TypeOK, Plans, Phases, Live, Whole, Written, Members,
        MarkerIsOwn, Shape, WorkIsElsewhere, WorkStays
<1>1. CASE Request
    BY <1>1 DEF Request
<1>2. CASE CreateMarker
    BY <1>2 DEF CreateMarker
<1>3. CASE WriteMarker
    BY <1>3 DEF WriteMarker
<1>4. CASE MarkerFails
    BY <1>4 DEF MarkerFails
<1>5. CASE WriteFails
    BY <1>5 DEF WriteFails
<1>6. CASE WriteDone
    BY <1>6 DEF WriteDone
<1>7. CASE StageFails
    BY <1>7 DEF StageFails, Compensate
<1>8. CASE MakeCommit
    BY <1>8 DEF MakeCommit, CommitWork
<1>9. CASE CommitFails
    BY <1>9 DEF CommitFails, Compensate
<1>10. CASE ReadSha
    BY <1>10 DEF ReadSha
<1>11. CASE ReadShaFails
    BY <1>11 DEF ReadShaFails, Compensate
<1>12. CASE CommitsDone
    BY <1>12 DEF CommitsDone
<1>13. CASE CommitRevert
    BY <1>13 DEF CommitRevert, CommitWork, RestorePaths
<1>14. CASE RevertsDone
    BY <1>14 DEF RevertsDone
<1>15. CASE NoteFailures
    BY <1>15 DEF NoteFailures, Id
<1>16. CASE Close
    BY <1>16 DEF Close
<1>17. CASE Answer
    BY <1>17 DEF Answer
<1>18. CASE Crash
    BY <1>18 DEF Crash
<1>19. CASE Start
    BY <1>19 DEF Start
<1>20. ASSUME NEW t \in Trees, Check(t) PROVE WorkStays
    BY <1>20 DEF Check, Clean
<1>21. ASSUME NEW t \in Trees, Write(t) PROVE WorkStays
    BY <1>21 DEF Write
<1>22. ASSUME NEW t \in Trees, Skip(t) PROVE WorkStays
    BY <1>22 DEF Skip, Clean
<1>23. ASSUME NEW t \in Trees, Stage(t) PROVE WorkStays
    BY <1>23 DEF Stage, Compensate, Clean
<1>24. ASSUME NEW t \in Trees, StageRevert(t) PROVE WorkStays
    BY <1>24 DEF StageRevert, Reverts, Inverts, AlreadyInverted, Commits, Id
<1>25. ASSUME NEW t \in Trees, RevertFails(t) PROVE WorkStays
    BY <1>25 DEF RevertFails, Reverts
<1>26. ASSUME NEW t \in Trees, RevertConflicts(t) PROVE WorkStays
    BY <1>26 DEF RevertConflicts, Reverts, RestorePaths
<1>27. ASSUME NEW t \in Trees, Restore(t) PROVE WorkStays
    BY <1>27 DEF Restore, Restores, RestorePaths
<1>28. ASSUME NEW t \in Trees, HumanEdit(t) PROVE WorkStays
    BY <1>28 DEF HumanEdit, Touch
<1>29. ASSUME NEW t \in Trees, HumanCommit(t) PROVE WorkStays
    BY <1>29 DEF HumanCommit, Touch, CommitWork
<1>30. ASSUME NEW t \in Trees, CherryPick(t) PROVE WorkStays
    BY <1>30 DEF CherryPick, Touch, Clean
<1>31. CASE UNCHANGED vars
    BY <1>31 DEF vars
<1>32. QED
    BY <1>1, <1>2, <1>3, <1>4, <1>5, <1>6, <1>7, <1>8, <1>9, <1>10, <1>11, <1>12, <1>13,
        <1>14, <1>15, <1>16, <1>17, <1>18, <1>19, <1>20, <1>21, <1>22, <1>23, <1>24,
        <1>25, <1>26, <1>27, <1>28, <1>29, <1>30, <1>31 DEF Next, Proceed, Humans

SagaInv == Inv /\ Atomicity

LEMMA SagaInvInit ==
    Init => SagaInv /\ WorkIsElsewhere
<1> SUFFICES ASSUME Init PROVE SagaInv /\ WorkIsElsewhere
    OBVIOUS
<1>1. Inv
    BY InvInit
<1>2. Bound = {}
    BY DEF Init, Bound, Written, NoPlan
<1>3. MarkerIsOwn /\ IdsAreUsed
    BY DEF Init, MarkerIsOwn, IdsAreUsed, Whole, NoMarker, Live
<1>4. BoundAreSound /\ LoopsProgress /\ VerdictIsSo
    BY <1>2 DEF Init, BoundAreSound, LoopsProgress, VerdictIsSo
<1>5. Promises
    BY <1>2 DEF Init, Promises, AllOrNothing, AnswersAreTrue, Applied, RolledBack
<1>6. WorkIsElsewhere
    BY DEF Init, WorkIsElsewhere
<1>7. QED
    BY <1>1, <1>3, <1>4, <1>5, <1>6 DEF SagaInv, Atomicity

LEMMA SagaInvStep ==
    ASSUME Traceable PROVE SagaInv /\ [Next]_vars => SagaInv'
<1> SUFFICES ASSUME SagaInv, [Next]_vars PROVE SagaInv'
    OBVIOUS
<1>1. TypeOK /\ TypeOK' /\ Shape /\ Shape' /\ Inv'
    BY InvStep DEF SagaInv, Inv
<1>2. MarkerIsOwn' /\ IdsAreUsed'
    BY <1>1, MarkerStep, IdsStep DEF SagaInv, Atomicity
<1>3. BoundAreSound'
    BY <1>1, SoundStep DEF SagaInv, Atomicity
<1>4. LoopsProgress'
    BY <1>1, <1>3, ProgressStep DEF SagaInv, Atomicity
<1>5. VerdictIsSo' /\ Promises'
    BY <1>1, VerdictStep, PromiseStep DEF SagaInv, Atomicity
<1>6. QED
    BY <1>1, <1>2, <1>3, <1>4, <1>5 DEF SagaInv, Atomicity

LEMMA SagaInvHolds ==
    ASSUME Traceable PROVE Spec => []SagaInv
<1>1. Init => SagaInv
    BY SagaInvInit
<1>2. SagaInv /\ [Next]_vars => SagaInv'
    BY SagaInvStep
<1>3. QED
    BY <1>1, <1>2, PTL DEF Spec

\* Whatever git command fails, wherever the daemon crashes and whatever humans
\* do, a closed saga is in every tree or in none, or flagged.
THEOREM SagaIsAllOrNothing ==
    ASSUME Traceable PROVE Spec => []AllOrNothing
<1>1. SagaInv => AllOrNothing
    BY DEF SagaInv, Atomicity, Promises
<1>2. QED
    BY <1>1, SagaInvHolds, PTL

\* What a client was told of a mutation is never made false by the engine.
THEOREM AnswersStayTrue ==
    ASSUME Traceable PROVE Spec => []AnswersAreTrue
<1>1. SagaInv => AnswersAreTrue
    BY DEF SagaInv, Atomicity, Promises
<1>2. QED
    BY <1>1, SagaInvHolds, PTL

\* Without exemptions from the clean check, no step of the engine discards or
\* commits what was uncommitted when the request came.
THEOREM WorkIsKept ==
    ASSUME Traceable, ~CanExempt PROVE Spec => HumanWorkKept
<1> DEFINE KeptInv == SagaInv /\ WorkIsElsewhere
<1>1. Init => KeptInv
    BY SagaInvInit
<1>2. KeptInv /\ [Next]_vars => KeptInv'
  <2> SUFFICES ASSUME KeptInv, [Next]_vars PROVE KeptInv'
      OBVIOUS
  <2>1. SagaInv'
      BY SagaInvStep
  <2>2. WorkIsElsewhere'
      BY <2>1, ElsewhereStep DEF SagaInv, Inv, Atomicity
  <2>3. QED
      BY <2>1, <2>2
<1>3. KeptInv /\ [Next]_vars => [WorkStays]_vars
    BY WorkStep DEF SagaInv, Inv, Atomicity
<1>4. Spec => [][WorkStays]_vars
    BY <1>1, <1>2, <1>3, PTL DEF Spec
<1>5. QED
    BY <1>4 DEF HumanWorkKept, WorkStays

-----------------------------------------------------------------------------
(* The saga implements an atomic mutation, for any trees, mutations and    *)
(* bounds, as long as a plan exempts nothing from the clean check.         *)

\* A tree the mutation has no content for, and no human has been in, is as the
\* request found it; if it is a member, it is clean once it was checked.
Steady(t) ==
    /\ Active => Commits(t, plan.id) = {} /\ head[t] = before[t]
    /\ pc = "check" /\ t \notin todo /\ t \in Members => work[t] = head[t]
    /\ (pc = "mark" \/ open) /\ t \in Members => work[t] = head[t]

OthersAreSteady ==
    /\ \A t \in Trees \ plan.trees : plan.target[t] = Keep
    /\ \A t \in (GitTrees \ Written) \ touched : Steady(t)

\* No step writes or commits in a tree the mutation leaves as it is.
LEMMA SteadyStep ==
    ASSUME TypeOK, TypeOK', Shape, MarkerIsOwn, IdsAreUsed, ~CanExempt, Traceable,
           OthersAreSteady, [Next]_vars
    PROVE  OthersAreSteady'
<1> USE SagaAssumption DEF TypeOK, Plans, Phases, Live, CommitRecords, Whole, Written,
        Members, MarkerIsOwn, IdsAreUsed, Shape, OthersAreSteady, Steady, Active, Commits,
        Id
<1>1. CASE Request
    BY <1>1 DEF Request
<1>2. CASE CreateMarker
    BY <1>2 DEF CreateMarker
<1>3. CASE WriteMarker
    BY <1>3 DEF WriteMarker
<1>4. CASE MarkerFails
    BY <1>4 DEF MarkerFails
<1>5. CASE WriteFails
    BY <1>5 DEF WriteFails
<1>6. CASE WriteDone
    BY <1>6 DEF WriteDone
<1>7. CASE StageFails
    BY <1>7 DEF StageFails, Compensate
<1>8. CASE MakeCommit
    BY <1>8 DEF MakeCommit, CommitWork
<1>9. CASE CommitFails
    BY <1>9 DEF CommitFails, Compensate
<1>10. CASE ReadSha
    BY <1>10 DEF ReadSha
<1>11. CASE ReadShaFails
    BY <1>11 DEF ReadShaFails, Compensate
<1>12. CASE CommitsDone
    BY <1>12 DEF CommitsDone
<1>13. CASE CommitRevert
    BY <1>13 DEF CommitRevert, CommitWork, RestorePaths
<1>14. CASE RevertsDone
    BY <1>14 DEF RevertsDone
<1>15. CASE NoteFailures
    BY <1>15 DEF NoteFailures, Id
<1>16. CASE Close
    BY <1>16 DEF Close
<1>17. CASE Answer
    BY <1>17 DEF Answer
<1>18. CASE Crash
    BY <1>18 DEF Crash
<1>19. CASE Start
    BY <1>19 DEF Start
<1>20. ASSUME NEW t \in Trees, Check(t) PROVE OthersAreSteady'
    BY <1>20 DEF Check, Clean
<1>21. ASSUME NEW t \in Trees, Write(t) PROVE OthersAreSteady'
    BY <1>21 DEF Write
<1>22. ASSUME NEW t \in Trees, Skip(t) PROVE OthersAreSteady'
    BY <1>22 DEF Skip, Clean
<1>23. ASSUME NEW t \in Trees, Stage(t) PROVE OthersAreSteady'
    BY <1>23 DEF Stage, Compensate, Clean
<1>24. ASSUME NEW t \in Trees, StageRevert(t) PROVE OthersAreSteady'
    BY <1>24 DEF StageRevert, Reverts, Inverts, AlreadyInverted, Commits, Id
<1>25. ASSUME NEW t \in Trees, RevertFails(t) PROVE OthersAreSteady'
    BY <1>25 DEF RevertFails, Reverts
<1>26. ASSUME NEW t \in Trees, RevertConflicts(t) PROVE OthersAreSteady'
    BY <1>26 DEF RevertConflicts, Reverts, RestorePaths
<1>27. ASSUME NEW t \in Trees, Restore(t) PROVE OthersAreSteady'
    BY <1>27 DEF Restore, Restores, RestorePaths
<1>28. ASSUME NEW t \in Trees, HumanEdit(t) PROVE OthersAreSteady'
    BY <1>28 DEF HumanEdit, Touch
<1>29. ASSUME NEW t \in Trees, HumanCommit(t) PROVE OthersAreSteady'
    BY <1>29 DEF HumanCommit, Touch, CommitWork
<1>30. ASSUME NEW t \in Trees, CherryPick(t) PROVE OthersAreSteady'
    BY <1>30 DEF CherryPick, Touch, Clean
<1>31. CASE UNCHANGED vars
    BY <1>31 DEF vars
<1>32. QED
    BY <1>1, <1>2, <1>3, <1>4, <1>5, <1>6, <1>7, <1>8, <1>9, <1>10, <1>11, <1>12, <1>13,
        <1>14, <1>15, <1>16, <1>17, <1>18, <1>19, <1>20, <1>21, <1>22, <1>23, <1>24,
        <1>25, <1>26, <1>27, <1>28, <1>29, <1>30, <1>31 DEF Next, Proceed, Humans

\* The abstract state.
content == [t \in GitTrees |-> IF Active THEN before[t] ELSE head[t]]
pending == IF Active THEN [id |-> plan.id, target |-> [t \in GitTrees |-> plan.target[t]]]
           ELSE [id |-> "none"]
edited  == IF Active THEN touched \cap GitTrees ELSE {}
visible == IF Active THEN flagged \ {plan.id} ELSE flagged

LEMMA AbstractState ==
    Atomic!vars = <<content, pending, edited, visible>>
BY DEF Atomic!vars, content, pending, edited, visible

\* The steps of an open saga, and those of a closed one, do not show.
LEMMA HiddenStep ==
    ASSUME TypeOK, TypeOK', Shape, Shape', MarkerIsOwn, MarkerIsOwn', IdsAreUsed,
           \/ CreateMarker \/ WriteMarker \/ WriteFails \/ WriteDone \/ StageFails
           \/ MakeCommit \/ CommitFails \/ ReadSha \/ ReadShaFails \/ CommitsDone
           \/ CommitRevert \/ RevertsDone \/ NoteFailures \/ Answer \/ Start
           \/ \E t \in Trees : \/ Write(t) \/ Skip(t) \/ Stage(t) \/ StageRevert(t)
                               \/ RevertFails(t) \/ RevertConflicts(t) \/ Restore(t)
    PROVE  UNCHANGED <<content, pending, edited, visible>>
<1> USE SagaAssumption DEF TypeOK, Plans, Phases, Live, Whole, Torn, Members, MarkerIsOwn,
        Shape, Active, content, pending, edited, visible, Id
<1>1. CASE CreateMarker
    BY <1>1 DEF CreateMarker
<1>2. CASE WriteMarker
    BY <1>2 DEF WriteMarker
<1>3. CASE WriteFails
    BY <1>3 DEF WriteFails
<1>4. CASE WriteDone
    BY <1>4 DEF WriteDone
<1>5. CASE StageFails
    BY <1>5 DEF StageFails, Compensate
<1>6. CASE MakeCommit
    BY <1>6 DEF MakeCommit, CommitWork
<1>7. CASE CommitFails
    BY <1>7 DEF CommitFails, Compensate
<1>8. CASE ReadSha
    BY <1>8 DEF ReadSha
<1>9. CASE ReadShaFails
    BY <1>9 DEF ReadShaFails, Compensate
<1>10. CASE CommitsDone
    BY <1>10 DEF CommitsDone
<1>11. CASE CommitRevert
    BY <1>11 DEF CommitRevert, CommitWork, RestorePaths
<1>12. CASE RevertsDone
    BY <1>12 DEF RevertsDone
<1>13. CASE NoteFailures
    BY <1>13 DEF NoteFailures, Id
<1>14. CASE Answer
    BY <1>14 DEF Answer
<1>15. CASE Start
    BY <1>15 DEF Start
<1>16. ASSUME NEW t \in Trees, Write(t)
       PROVE  UNCHANGED <<content, pending, edited, visible>>
    BY <1>16 DEF Write
<1>17. ASSUME NEW t \in Trees, Skip(t)
       PROVE  UNCHANGED <<content, pending, edited, visible>>
    BY <1>17 DEF Skip, Clean
<1>18. ASSUME NEW t \in Trees, Stage(t)
       PROVE  UNCHANGED <<content, pending, edited, visible>>
    BY <1>18 DEF Stage, Compensate, Clean
<1>19. ASSUME NEW t \in Trees, StageRevert(t)
       PROVE  UNCHANGED <<content, pending, edited, visible>>
    BY <1>19 DEF StageRevert, Reverts, Inverts, AlreadyInverted, Commits, Id
<1>20. ASSUME NEW t \in Trees, RevertFails(t)
       PROVE  UNCHANGED <<content, pending, edited, visible>>
    BY <1>20 DEF RevertFails, Reverts
<1>21. ASSUME NEW t \in Trees, RevertConflicts(t)
       PROVE  UNCHANGED <<content, pending, edited, visible>>
    BY <1>21 DEF RevertConflicts, Reverts, RestorePaths
<1>22. ASSUME NEW t \in Trees, Restore(t)
       PROVE  UNCHANGED <<content, pending, edited, visible>>
    BY <1>22 DEF Restore, Restores, RestorePaths
<1>23. QED
    BY <1>1, <1>2, <1>3, <1>4, <1>5, <1>6, <1>7, <1>8, <1>9, <1>10, <1>11, <1>12, <1>13,
        <1>14, <1>15, <1>16, <1>17, <1>18, <1>19, <1>20, <1>21, <1>22

LEMMA SomethingPending ==
    ASSUME Active PROVE pending # [id |-> "none"]
<1>1. "target" \in DOMAIN pending
    BY DEF pending
<1>2. "target" \notin DOMAIN [id |-> "none"]
    OBVIOUS
<1>3. QED
    BY <1>1, <1>2, Zenon

\* A saga that ends commits, aborts or fails, as a whole.
LEMMA EndSettles ==
    ASSUME TypeOK, TypeOK', Active, ~Active', plan.id \in Mutations, OthersAreSteady,
           UNCHANGED <<head, before, plan, touched, flagged>>,
           Applied \/ RolledBack \/ plan.id \in flagged
    PROVE  Atomic!Commit \/ Atomic!Abort \/ Atomic!Fail
<1> USE SagaAssumption DEF TypeOK
<1>1. pending = [id |-> plan.id, target |-> [t \in GitTrees |-> plan.target[t]]]
    BY DEF pending
<1>2. pending' = [id |-> "none"] /\ edited' = {} /\ edited = touched \cap GitTrees
    BY DEF pending, edited
<1>3. pending # [id |-> "none"]
    BY SomethingPending
<1>4. /\ content = [t \in GitTrees |-> before[t]] /\ content' = [t \in GitTrees |-> head[t]]
      /\ content' \in [GitTrees -> Contents]
    BY DEF content
<1>5. visible = flagged \ {plan.id} /\ visible' = flagged
    BY DEF visible
<1>6. Atomic!Settle
    BY <1>2, <1>3 DEF Atomic!Settle, Atomic!NoRequest, pending, edited
<1>7. \A t \in GitTrees \ edited :
         /\ t \in Bound \/ (plan.target[t] = Keep /\ head[t] = before[t])
         /\ t \in Bound => plan.target[t] # Keep
    BY <1>2 DEF OthersAreSteady, Steady, Bound, Written
<1>8. CASE plan.id \in flagged
  <2>1. visible' = visible \cup {pending.id}
      BY <1>1, <1>5, <1>8
  <2>2. \A t \in GitTrees \ edited : content'[t] # content[t] => pending.target[t] # Keep
      BY <1>1, <1>4, <1>7
  <2>3. Atomic!Fail
      BY <1>4, <1>6, <2>1, <2>2 DEF Atomic!Fail, content, pending, edited, visible
  <2>4. QED
      BY <2>3
<1>9. CASE plan.id \notin flagged /\ RolledBack
  <2>1. visible' = visible
      BY <1>5, <1>9
  <2>2. \A t \in GitTrees \ edited : content'[t] = content[t]
      BY <1>4, <1>7, <1>9 DEF RolledBack
  <2>3. Atomic!Abort
      BY <1>4, <1>6, <2>1, <2>2 DEF Atomic!Abort, content, pending, edited, visible
  <2>4. QED
      BY <2>3
<1>10. CASE plan.id \notin flagged /\ Applied
  <2>1. visible' = visible
      BY <1>5, <1>10
  <2>2. \A t \in GitTrees \ edited :
           content'[t] = IF pending.target[t] = Keep THEN content[t] ELSE pending.target[t]
      BY <1>1, <1>4, <1>7, <1>10 DEF Applied
  <2>3. Atomic!Commit
      BY <1>4, <1>6, <2>1, <2>2 DEF Atomic!Commit, Atomic!Target, content, pending,
          edited, visible
  <2>4. QED
      BY <2>3
<1>11. QED
    BY <1>8, <1>9, <1>10

\* A request is an abstract one.
LEMMA RequestAsks ==
    ASSUME TypeOK, TypeOK', MarkerIsOwn, IdsAreUsed, Request
    PROVE  Atomic!Ask
<1> USE SagaAssumption DEF TypeOK
<1>1. ~Active /\ Active' /\ plan'.id \notin flagged
    BY DEF Request, Active, MarkerIsOwn, IdsAreUsed
<1>2. plan'.id \in Mutations /\ plan'.target \in [Trees -> Contents \cup {Keep}]
    BY DEF Request, Contents
<1>3. pending = [id |-> "none"] /\ edited = {} /\ content = [t \in GitTrees |-> head[t]]
    BY <1>1 DEF pending, edited, content
<1>4. pending' = [id |-> plan'.id, target |-> [t \in GitTrees |-> plan'.target[t]]]
    BY <1>1 DEF pending
<1>5. edited' = {} /\ content' = content
    BY <1>1, <1>3 DEF Request, edited, content
<1>6. visible' = visible
    BY <1>1 DEF Request, visible
<1>7. pending' \in Atomic!Requests
    BY <1>2, <1>4 DEF Atomic!Requests
<1>8. QED
    BY <1>3, <1>5, <1>6, <1>7 DEF Atomic!Ask, Atomic!NoRequest, content, pending, edited,
        visible

\* What a human does in a tree is an edit of it, or does not show.
LEMMA HumanEdits ==
    ASSUME TypeOK, TypeOK', NEW t \in Trees,
           HumanEdit(t) \/ HumanCommit(t) \/ CherryPick(t)
    PROVE  (t \in GitTrees /\ Atomic!Edit(t)) \/ UNCHANGED <<content, pending, edited, visible>>
<1> USE SagaAssumption DEF TypeOK
<1>1. /\ UNCHANGED <<pc, open, plan, before, flagged>> /\ touched' = touched \cup {t}
      /\ head' \in [Trees -> Contents] /\ \A s \in Trees \ {t} : head'[s] = head[s]
    BY DEF HumanEdit, HumanCommit, CherryPick, Touch, CommitWork
<1>2. Active' = Active /\ pending' = pending /\ visible' = visible
    BY <1>1 DEF Active, pending, visible
<1>3. CASE ~Active
  <2>1. pending = [id |-> "none"] /\ edited = {} /\ edited' = {}
      BY <1>2, <1>3 DEF pending, edited
  <2>2. content = [s \in GitTrees |-> head[s]] /\ content' = [s \in GitTrees |-> head'[s]]
      BY <1>2, <1>3 DEF content
  <2>3. CASE t \in GitTrees
    <3>1. content' = [content EXCEPT ![t] = head'[t]] /\ head'[t] \in Contents
        BY <1>1, <2>2
    <3>2. Atomic!Edit(t)
        BY <1>2, <2>1, <3>1 DEF Atomic!Edit, Atomic!NoRequest, content, pending, edited,
            visible
    <3>3. QED
        BY <2>3, <3>2
  <2>4. CASE t \notin GitTrees
    <3>1. content' = content
        BY <1>1, <2>2, <2>4
    <3>2. QED
        BY <1>2, <2>1, <3>1
  <2>5. QED
      BY <2>3, <2>4
<1>4. CASE Active
  <2>1. content' = content
      BY <1>1, <1>2, <1>4 DEF content
  <2>2. edited = touched \cap GitTrees /\ edited' = touched' \cap GitTrees
      BY <1>2, <1>4 DEF edited
  <2>3. CASE t \in GitTrees
    <3>1. edited' = edited \cup {t}
        BY <1>1, <2>2, <2>3
    <3>2. pending # [id |-> "none"]
        BY <1>4, SomethingPending
    <3>3. Atomic!Edit(t)
        BY <1>2, <2>1, <3>1, <3>2 DEF Atomic!Edit, Atomic!NoRequest, content, pending,
            edited, visible
    <3>4. QED
        BY <2>3, <3>3
  <2>4. CASE t \notin GitTrees
    <3>1. edited' = edited
        BY <1>1, <2>2, <2>4
    <3>2. QED
        BY <1>2, <2>1, <3>1
  <2>5. QED
      BY <2>3, <2>4
<1>5. QED
    BY <1>3, <1>4

\* Every step is a step of the atomic mutation, or does not show.
LEMMA StepImplements ==
    ASSUME SagaInv, SagaInv', OthersAreSteady, [Next]_vars
    PROVE  [Atomic!Next]_(Atomic!vars)
<1> USE SagaAssumption
<1>1. /\ TypeOK /\ TypeOK' /\ Shape /\ Shape' /\ MarkerIsOwn /\ MarkerIsOwn'
      /\ IdsAreUsed /\ VerdictIsSo /\ LoopsProgress
    BY DEF SagaInv, Inv, Atomicity
<1>2. ASSUME UNCHANGED <<content, pending, edited, visible>>
      PROVE  [Atomic!Next]_(Atomic!vars)
    BY <1>2, AbstractState DEF Atomic!vars, content, pending, edited, visible
<1>3. CASE Request
    BY <1>1, <1>3, RequestAsks DEF Atomic!Next
<1>4. ASSUME NEW t \in Trees, HumanEdit(t) \/ HumanCommit(t) \/ CherryPick(t)
      PROVE  [Atomic!Next]_(Atomic!vars)
    BY <1>1, <1>2, <1>4, HumanEdits DEF Atomic!Next
<1>5. ASSUME Active, ~Active', UNCHANGED <<head, before, plan, touched, flagged>>,
             Applied \/ RolledBack \/ plan.id \in flagged
      PROVE  [Atomic!Next]_(Atomic!vars)
  <2>1. plan.id \in Mutations
      BY <1>1, <1>5 DEF Active, IdsAreUsed, TypeOK
  <2>2. QED
      BY <1>1, <1>5, <2>1, EndSettles DEF Atomic!Next
<1>6. ASSUME UNCHANGED <<before, plan, touched, flagged>>,
             Active' = Active, Active \/ UNCHANGED head
      PROVE  [Atomic!Next]_(Atomic!vars)
    BY <1>2, <1>6 DEF content, pending, edited, visible
<1>7. pc \in {"check", "mark"} => RolledBack
    BY <1>1 DEF LoopsProgress, Progress, Fresh, RolledBack
<1>8. CASE MarkerFails
  <2>1. Active /\ ~Active' /\ UNCHANGED <<head, before, plan, touched, flagged>>
      BY <1>1, <1>8 DEF MarkerFails, Active, MarkerIsOwn
  <2>2. QED
      BY <1>5, <1>7, <1>8, <2>1 DEF MarkerFails
<1>9. ASSUME NEW t \in Trees, Check(t) PROVE [Atomic!Next]_(Atomic!vars)
  <2>1. Active /\ UNCHANGED <<head, before, plan, touched, flagged, open>> /\ ~open
      BY <1>1, <1>9 DEF Check, Active, MarkerIsOwn
  <2>2. QED
      BY <1>5, <1>6, <1>7, <1>9, <2>1 DEF Check, Active
<1>10. CASE Crash
  <2>1. UNCHANGED <<head, before, plan, touched, flagged, open>> /\ pc' = "down"
      BY <1>10 DEF Crash
  <2>2. QED
      BY <1>5, <1>6, <1>7, <2>1 DEF Active
<1>11. CASE Close
  <2>1. /\ UNCHANGED <<head, before, plan, touched, flagged>>
        /\ open /\ ~open' /\ pc' \in {"idle", "answer"} /\ pc = "close"
      BY <1>1, <1>11 DEF Close, MarkerIsOwn
  <2>2. Active /\ ~Active'
      BY <2>1 DEF Active
  <2>3. Applied \/ RolledBack \/ plan.id \in flagged
      BY <1>1, <2>1 DEF VerdictIsSo
  <2>4. QED
      BY <1>5, <2>1, <2>2, <2>3
<1>12. CASE UNCHANGED vars
  <2>1. UNCHANGED <<head, before, plan, touched, flagged, open, pc>>
      BY <1>12 DEF vars
  <2>2. QED
      BY <1>6, <2>1 DEF Active
<1>13. QED
    BY <1>1, <1>2, <1>3, <1>4, <1>8, <1>9, <1>10, <1>11, <1>12, HiddenStep
       DEF Next, Proceed, Humans

LEMMA SteadyInit ==
    Init => OthersAreSteady
BY SagaAssumption DEF Init, OthersAreSteady, Steady, Active, NoPlan, Commits, Members

\* The saga, with its git commands, crashes, recoveries and humans, implements a
\* mutation that takes effect in one step, everywhere or nowhere.
THEOREM SagaIsAtomic ==
    ASSUME Traceable, ~CanExempt PROVE Spec => ImplementsAtomic
<1> DEFINE RInv == SagaInv /\ OthersAreSteady
<1>1. Init => RInv
    BY SagaInvInit, SteadyInit
<1>2. RInv /\ [Next]_vars => RInv' /\ SagaInv'
  <2> SUFFICES ASSUME RInv, [Next]_vars PROVE RInv'
      OBVIOUS
  <2>1. SagaInv'
      BY SagaInvStep
  <2>2. OthersAreSteady'
      BY <2>1, SteadyStep DEF SagaInv, Inv, Atomicity
  <2>3. QED
      BY <2>1, <2>2
<1>3. RInv /\ [Next]_vars => [Atomic!Next]_(Atomic!vars)
    BY <1>2, StepImplements
<1>4. Init => Atomic!Init
  <2> SUFFICES ASSUME Init PROVE Atomic!Init
      OBVIOUS
  <2>1. ~Active /\ head \in [Trees -> Contents] /\ flagged = {}
      BY SagaAssumption DEF Init, Active, Contents
  <2>2. content \in [GitTrees -> Contents] /\ pending = [id |-> "none"] /\ edited = {}
        /\ visible = {}
      BY <2>1, SagaAssumption DEF content, pending, edited, visible
  <2>3. QED
      BY <2>2 DEF Atomic!Init, Atomic!NoRequest, content, pending, edited, visible
<1>5. Spec => Atomic!Spec
    BY <1>1, <1>2, <1>3, <1>4, PTL DEF Spec, Atomic!Spec
<1>6. QED
    BY <1>5 DEF ImplementsAtomic
=============================================================================
