-------------------------------- MODULE Saga --------------------------------
(***************************************************************************)
(* One mutation as a saga over several git working trees, with the crash   *)
(* recovery that runs before the daemon serves (au-engine/src/serve.rs,    *)
(* apply_saga to compensate, and the ShellGit of gitwriter.rs).            *)
(*                                                                         *)
(* The paths a mutation touches in one tree are staged, committed,         *)
(* reverted and restored together, so they stand as one path per tree,     *)
(* with its content at HEAD, in the index and in the working tree.  The    *)
(* engine, each git command it runs, a crash and a human with the same     *)
(* trees interleave.  The order of the trees within one loop, which the    *)
(* code takes by root, is left open.                                       *)
(***************************************************************************)
EXTENDS Naturals

CONSTANTS
    Trees,       \* the working trees, and members outside any of them
    GitTrees,    \* those under git
    Mutations,   \* mutation ids; one content of its own each
    Human,       \* contents a human writes
    InitContent, \* what each tree holds at first
    Faults,      \* the kinds of operations that may fail
    MaxFaults,   \* bound on failing operations
    MaxCrashes,  \* bound on crashes of the daemon
    MaxHuman,    \* bound on what humans do
    CanExempt    \* TRUE: a plan may exempt paths from the clean check

Absent   == "absent"
Old      == "old"
Keep     == "keep"     \* a member the mutation leaves as it is
Contents == Mutations \cup Human \cup {Absent, Old}
NoTree   == "noTree"
NoMarker == [state |-> "none"]
Torn     == [state |-> "torn"]   \* created and not yet written
FaultKinds == {"status", "open", "add", "commit", "sha", "revert", "restore", "close"}

ASSUME SagaAssumption ==
    /\ GitTrees \subseteq Trees /\ NoTree \notin Trees
    /\ Mutations \cap Human = {}
    /\ (Mutations \cup Human) \cap {Absent, Old, Keep} = {}
    /\ InitContent \in [Trees -> {Absent, Old}]
    /\ Faults \subseteq FaultKinds /\ CanExempt \in BOOLEAN
    /\ MaxFaults \in Nat /\ MaxCrashes \in Nat /\ MaxHuman \in Nat

VARIABLES
    head,       \* what each tree holds at HEAD
    index,      \* what it has staged
    work,       \* what is in the working tree
    made,       \* the commits that carry a Mutation-Id: from, to
    marker,     \* saga.intent
    flagged,    \* the ids with a saga.failed sentinel
    pc,         \* where the daemon is
    recovering, \* TRUE: it is in recover_intent_marker
    plan,       \* SagaPlan of the last request
    todo,       \* the trees the current loop has not come to yet
    cur,        \* the tree a commit or a revert is under way in
    committed,  \* settle_saga's `committed`
    failed,     \* the trees in `errors`
    outcome,    \* what will be answered
    used,       \* ids given out
    faults, crashes, humans, \* bounded counts
    open,       \* history: the saga is between its marker and its close
    before,     \* history: what each tree held when the request came
    dirty,      \* history: the trees that had uncommitted work when it came
    touched,    \* history: the trees a human touched since
    answer      \* history: what the client was told of the last request

repoVars  == <<head, index, work, made>>
fileVars  == <<marker, flagged>>
jobVars   == <<recovering, plan, todo, cur, committed, failed, outcome, used>>
countVars == <<faults, crashes, humans>>
histVars  == <<open, before, dirty, touched, answer>>
vars == <<head, index, work, made, marker, flagged, pc, recovering, plan, todo, cur,
          committed, failed, outcome, used, faults, crashes, humans, open, before,
          dirty, touched, answer>>

NoPlan == [id |-> "none", trees |-> {}, target |-> [t \in Trees |-> Keep],
           exempt |-> {}]

Members == plan.trees \cap GitTrees
Written == {t \in plan.trees : plan.target[t] # Keep}
Id      == IF recovering THEN marker.id ELSE plan.id
Whole(m) == m.state = "whole"

-----------------------------------------------------------------------------
(* git.                                                                    *)

\* is_clean: `git status` has nothing to say of the path.
Clean(t) == work[t] = head[t] /\ index[t] = head[t]

Commits(t, id) == {c \in made : c.tree = t /\ c.by = id}

\* restore_paths: a path HEAD does not hold is removed from the working tree
\* only; any other is checked out, index and all.
RestorePaths(t) ==
    /\ work'  = [work EXCEPT ![t] = head[t]]
    /\ index' = IF head[t] = Absent THEN index ELSE [index EXCEPT ![t] = head[t]]

\* `git commit -- path` takes the path as it is in the working tree.
CommitWork(t) ==
    /\ head'  = [head EXCEPT ![t] = work[t]]
    /\ index' = [index EXCEPT ![t] = work[t]]

\* `git revert --no-commit` merges the inverse of c into the index.
Inverts(t, c) ==
    index[t] = c.to /\ (work[t] = c.to \/ (work[t] = Absent /\ c.from = Absent))
AlreadyInverted(t, c) == index[t] = c.from

Fault(k) == k \in Faults /\ faults < MaxFaults /\ faults' = faults + 1
NoFault == UNCHANGED faults

Goto(p) == pc' = p
Loop(p, ts) == pc' = p /\ todo' = ts

-----------------------------------------------------------------------------
(* apply_saga_with_moves up to the write.                                  *)

Request ==
    /\ pc = "idle"
    /\ \E m \in Mutations \ used, ts \in SUBSET Trees, ex \in SUBSET GitTrees :
         \E target \in [Trees -> {m, Absent, Keep}] :
            /\ \A t \in Trees \ ts : target[t] = Keep
            /\ \E t \in ts : target[t] # Keep
            /\ ex \subseteq {t \in ts : target[t] = Keep}
            /\ ex # {} => CanExempt /\ ts \subseteq GitTrees
            /\ plan' = [id |-> m, trees |-> ts, target |-> target, exempt |-> ex]
            /\ used' = used \cup {m}
            /\ Loop("check", (ts \cap GitTrees) \ ex)
    /\ committed' = {} /\ failed' = {} /\ outcome' = "none"
    /\ before' = head /\ dirty' = {t \in GitTrees : work[t] # head[t]}
    /\ touched' = {} /\ answer' = "none"
    /\ UNCHANGED <<repoVars, fileVars, recovering, cur, countVars, open>>

\* Mutant of Check: a tree that is not clean is let through.
CheckNothing(t) ==
    /\ pc = "check" /\ t \in todo
    /\ NoFault /\ Loop("check", todo \ {t})
    /\ UNCHANGED <<repoVars, fileVars, recovering, plan, cur, committed, failed,
                   outcome, used, crashes, humans, histVars>>

\* The clean-at-HEAD precondition, for one member.
Check(t) ==
    /\ pc = "check" /\ t \in todo
    /\ \/ Clean(t) /\ NoFault /\ Loop("check", todo \ {t}) /\ UNCHANGED outcome
       \/ /\ \/ ~Clean(t) /\ NoFault
             \/ Fault("status")
          /\ Loop("answer", {}) /\ outcome' = "rejected"
    /\ UNCHANGED <<repoVars, fileVars, recovering, plan, cur, committed, failed, used,
                   crashes, humans, histVars>>

\* write_intent_marker creates the file, then writes and syncs it.
CreateMarker ==
    /\ pc = "check" /\ todo = {}
    /\ marker' = Torn /\ Goto("mark")
    /\ UNCHANGED <<repoVars, flagged, jobVars, countVars, histVars>>

\* Mutant of WriteMarker: the last of several members is left out.
WriteMarkerShort ==
    /\ pc = "mark"
    /\ \E t \in Members :
         marker' = [state |-> "whole", id |-> plan.id, trees |-> Members \ {t}]
    /\ open' = TRUE
    /\ Loop("write", Written)
    /\ UNCHANGED <<repoVars, flagged, recovering, plan, cur, committed, failed, outcome,
                   used, countVars, before, dirty, touched, answer>>

WriteMarker ==
    /\ pc = "mark"
    /\ marker' = [state |-> "whole", id |-> plan.id, trees |-> Members]
    /\ open' = TRUE
    /\ Loop("write", Written)
    /\ UNCHANGED <<repoVars, flagged, recovering, plan, cur, committed, failed, outcome,
                   used, countVars, before, dirty, touched, answer>>

MarkerFails ==
    /\ pc = "mark" /\ Fault("open")
    /\ Goto("answer") /\ outcome' = "rejected"
    /\ UNCHANGED <<repoVars, fileVars, recovering, plan, todo, cur, committed, failed,
                   used, crashes, humans, histVars>>

-----------------------------------------------------------------------------
(* settle_saga.                                                            *)

Write(t) ==
    /\ pc = "write" /\ t \in todo
    /\ work' = [work EXCEPT ![t] = plan.target[t]]
    /\ todo' = todo \ {t}
    /\ UNCHANGED <<head, index, made, fileVars, pc, recovering, plan, cur, committed,
                   failed, outcome, used, countVars, histVars>>

\* The write is refused or fails half-way: nothing is committed yet.
WriteFails ==
    /\ pc = "write"
    /\ Loop("restore", Members)
    /\ UNCHANGED <<repoVars, fileVars, recovering, plan, cur, committed, failed, outcome,
                   used, countVars, histVars>>

WriteDone ==
    /\ pc = "write" /\ todo = {}
    /\ Loop("commit", Members)
    /\ UNCHANGED <<repoVars, fileVars, recovering, plan, cur, committed, failed, outcome,
                   used, countVars, histVars>>

\* A no-op write leaves the member clean and makes no commit.
Skip(t) ==
    /\ pc = "commit" /\ t \in todo /\ Clean(t)
    /\ todo' = todo \ {t}
    /\ UNCHANGED <<repoVars, fileVars, pc, recovering, plan, cur, committed, failed,
                   outcome, used, countVars, histVars>>

\* Mutant of Compensate: what was committed is not reverted.
CompensateNoRevert == Loop("revert", {})

Compensate == Loop("revert", committed)

\* commit, first command: `git add -A`.  A path that is nowhere is an error.
Stage(t) ==
    /\ pc = "commit" /\ t \in todo
    /\ \/ ~Clean(t) /\ NoFault
       \/ Clean(t) /\ Fault("status")
    /\ IF work[t] = Absent /\ index[t] = Absent
       THEN Compensate /\ UNCHANGED <<index, cur>>
       ELSE /\ index' = [index EXCEPT ![t] = work[t]]
            /\ cur' = t /\ Loop("staged", todo \ {t})
    /\ UNCHANGED <<head, work, made, fileVars, recovering, plan, committed, failed,
                   outcome, used, crashes, humans, histVars>>

StageFails ==
    /\ pc = "commit" /\ todo # {} /\ Fault("add")
    /\ Compensate
    /\ UNCHANGED <<repoVars, fileVars, recovering, plan, cur, committed, failed, outcome,
                   used, crashes, humans, histVars>>

\* commit, second command.  An empty commit is an error.
MakeCommit ==
    /\ pc = "staged" /\ work[cur] # head[cur]
    /\ CommitWork(cur)
    /\ made' = made \cup {[tree |-> cur, by |-> plan.id, from |-> head[cur],
                           to |-> work[cur], copy |-> 0]}
    /\ Goto("made")
    /\ UNCHANGED <<work, fileVars, jobVars, countVars, histVars>>

CommitFails ==
    /\ pc = "staged"
    /\ IF work[cur] = head[cur] THEN NoFault ELSE Fault("commit")
    /\ Compensate /\ cur' = NoTree
    /\ UNCHANGED <<repoVars, fileVars, recovering, plan, committed, failed, outcome, used,
                   crashes, humans, histVars>>

\* commit, third command: the sha is read back.
ReadSha ==
    /\ pc = "made" /\ Goto("commit")
    /\ committed' = committed \cup {cur} /\ cur' = NoTree
    /\ UNCHANGED <<repoVars, fileVars, recovering, plan, todo, failed, outcome, used,
                   countVars, histVars>>

ReadShaFails ==
    /\ pc = "made" /\ Fault("sha")
    /\ Compensate /\ cur' = NoTree
    /\ UNCHANGED <<repoVars, fileVars, recovering, plan, committed, failed, outcome, used,
                   crashes, humans, histVars>>

CommitsDone ==
    /\ pc = "commit" /\ todo = {}
    /\ Goto("close") /\ outcome' = "ok"
    /\ UNCHANGED <<repoVars, fileVars, recovering, plan, todo, cur, committed, failed,
                   used, countVars, histVars>>

-----------------------------------------------------------------------------
(* compensate, and the same for a tree the marker names at start.          *)

\* The loop that reverts t: over `committed`, or over the marker's trees.
Reverts(t) ==
    /\ t \in todo
    /\ \/ pc = "revert"
       \/ pc = "classify" /\ Commits(t, Id) # {}

\* revert_commit finds the one commit of the mutation and stages its inverse.
StageRevert(t) ==
    /\ Reverts(t)
    /\ \E c \in made :
         /\ Commits(t, Id) = {c}
         /\ \/ /\ Inverts(t, c)
               /\ work'  = [work EXCEPT ![t] = c.from]
               /\ index' = [index EXCEPT ![t] = c.from]
            \/ AlreadyInverted(t, c) /\ UNCHANGED <<work, index>>
    /\ cur' = t /\ todo' = todo \ {t} /\ Goto("reverting")
    /\ UNCHANGED <<head, made, fileVars, recovering, plan, committed, failed, outcome,
                   used, countVars, histVars>>

\* Mutant of RevertFails: the revert is tried again for ever.
RevertFailsRetry(t) ==
    /\ Reverts(t)
    /\ IF \E c \in made : Commits(t, Id) = {c} THEN Fault("revert") ELSE NoFault
    /\ failed' = failed \cup {t}
    /\ UNCHANGED <<repoVars, fileVars, pc, todo, recovering, plan, cur, committed, outcome,
                   used, crashes, humans, histVars>>

\* No commit, several, or a fault before anything is changed.
RevertFails(t) ==
    /\ Reverts(t)
    /\ IF \E c \in made : Commits(t, Id) = {c} THEN Fault("revert") ELSE NoFault
    /\ todo' = todo \ {t} /\ failed' = failed \cup {t}
    /\ UNCHANGED <<repoVars, fileVars, pc, recovering, plan, cur, committed, outcome, used,
                   crashes, humans, histVars>>

\* A conflict with a later commit, or uncommitted work in the way: unwind.
RevertConflicts(t) ==
    /\ Reverts(t)
    /\ \E c \in made : /\ Commits(t, Id) = {c}
                       /\ ~Inverts(t, c) /\ ~AlreadyInverted(t, c)
    /\ RestorePaths(t)
    /\ todo' = todo \ {t} /\ failed' = failed \cup {t}
    /\ UNCHANGED <<head, made, fileVars, pc, recovering, plan, cur, committed, outcome,
                   used, countVars, histVars>>

\* The compensating commit; when it is empty or fails, unwind.
CommitRevert ==
    /\ pc = "reverting"
    /\ \/ /\ work[cur] # head[cur]
          /\ CommitWork(cur) /\ NoFault
          /\ UNCHANGED <<work, failed>>
       \/ /\ IF work[cur] = head[cur] THEN NoFault ELSE Fault("revert")
          /\ RestorePaths(cur)
          /\ failed' = failed \cup {cur}
          /\ UNCHANGED head
    /\ Goto(IF recovering THEN "classify" ELSE "revert") /\ cur' = NoTree
    /\ UNCHANGED <<made, fileVars, recovering, plan, todo, committed, outcome, used,
                   crashes, humans, histVars>>

RevertsDone ==
    /\ pc = "revert" /\ todo = {}
    /\ Loop("restore", Members)
    /\ UNCHANGED <<repoVars, fileVars, recovering, plan, cur, committed, failed, outcome,
                   used, countVars, histVars>>

\* Live, every member is restored; at start, those without a commit.
Restores(t) ==
    /\ t \in todo
    /\ \/ pc = "restore"
       \/ pc = "classify" /\ Commits(t, Id) = {}

Restore(t) ==
    /\ Restores(t) /\ todo' = todo \ {t}
    /\ \/ RestorePaths(t) /\ NoFault /\ UNCHANGED failed
       \/ Fault("restore") /\ failed' = failed \cup {t} /\ UNCHANGED <<work, index>>
    /\ UNCHANGED <<head, made, fileVars, pc, recovering, plan, cur, committed, outcome,
                   used, crashes, humans, histVars>>

\* Mutant of NoteFailures: an incomplete rollback leaves no sentinel.
NoteNothing ==
    /\ pc \in {"restore", "classify"} /\ todo = {}
    /\ outcome' = IF failed = {} THEN "rejected" ELSE "incomplete"
    /\ Goto("close")
    /\ UNCHANGED <<repoVars, fileVars, recovering, plan, todo, cur, committed, failed,
                   used, countVars, histVars>>

\* note_incomplete_rollback, and the same at start.
NoteFailures ==
    /\ pc \in {"restore", "classify"} /\ todo = {}
    /\ flagged' = IF failed = {} THEN flagged ELSE flagged \cup {Id}
    /\ outcome' = IF failed = {} THEN "rejected" ELSE "incomplete"
    /\ Goto("close")
    /\ UNCHANGED <<repoVars, marker, recovering, plan, todo, cur, committed, failed, used,
                   countVars, histVars>>

\* Mutant of Close: only recovery removes the marker.
CloseLeavesMarker ==
    /\ pc = "close"
    /\ marker' = IF recovering THEN NoMarker ELSE marker
    /\ NoFault /\ open' = FALSE
    /\ Goto(IF recovering THEN "idle" ELSE "answer") /\ recovering' = FALSE
    /\ UNCHANGED <<repoVars, flagged, plan, todo, cur, committed, failed, outcome, used,
                   crashes, humans, before, dirty, touched, answer>>

\* remove_intent_marker; a failure is ignored.
Close ==
    /\ pc = "close"
    /\ \/ marker' = NoMarker /\ NoFault
       \/ Fault("close") /\ UNCHANGED marker
    /\ open' = FALSE
    /\ Goto(IF recovering THEN "idle" ELSE "answer") /\ recovering' = FALSE
    /\ UNCHANGED <<repoVars, flagged, plan, todo, cur, committed, failed, outcome, used,
                   crashes, humans, before, dirty, touched, answer>>

Answer ==
    /\ pc = "answer" /\ Goto("idle")
    /\ answer' = outcome
    /\ UNCHANGED <<repoVars, fileVars, jobVars, countVars, open, before, dirty, touched>>

-----------------------------------------------------------------------------
(* The daemon stops and starts.                                            *)

Crash ==
    /\ pc # "down" /\ crashes < MaxCrashes
    /\ crashes' = crashes + 1
    /\ Loop("down", {})
    /\ recovering' = FALSE /\ cur' = NoTree /\ committed' = {} /\ failed' = {}
    /\ outcome' = "none"
    /\ UNCHANGED <<repoVars, fileVars, plan, used, faults, humans, histVars>>

\* recover_crashed_saga, before the first build.  A marker without an id line
\* is left alone.
Start ==
    /\ pc = "down"
    /\ IF Whole(marker)
       THEN Loop("classify", marker.trees) /\ recovering' = TRUE
       ELSE Loop("idle", {}) /\ UNCHANGED recovering
    /\ UNCHANGED <<repoVars, fileVars, plan, cur, committed, failed, outcome, used,
                   countVars, histVars>>

-----------------------------------------------------------------------------
(* Humans with the same trees.                                             *)

Touch(t) == /\ humans < MaxHuman /\ humans' = humans + 1
            /\ touched' = touched \cup {t}

HumanEdit(t) ==
    /\ Touch(t)
    /\ \E h \in Human \ {work[t]} : work' = [work EXCEPT ![t] = h]
    /\ UNCHANGED <<head, index, made, fileVars, pc, jobVars, faults, crashes, open,
                   before, dirty, answer>>

HumanCommit(t) ==
    /\ Touch(t) /\ t \in GitTrees /\ work[t] # head[t]
    /\ CommitWork(t)
    /\ UNCHANGED <<work, made, fileVars, pc, jobVars, faults, crashes, open, before,
                   dirty, answer>>

\* A cherry-pick copies a Mutation-Id to a second commit.
CherryPick(t) ==
    /\ Touch(t) /\ Clean(t)
    /\ \E c \in made :
         /\ c.tree = t /\ c.from = head[t]
         /\ head'  = [head EXCEPT ![t] = c.to]
         /\ index' = [index EXCEPT ![t] = c.to]
         /\ work'  = [work EXCEPT ![t] = c.to]
         /\ made'  = made \cup {[c EXCEPT !.copy = @ + 1]}
    /\ UNCHANGED <<fileVars, pc, jobVars, faults, crashes, open, before, dirty, answer>>

-----------------------------------------------------------------------------

Init ==
    /\ head = InitContent /\ index = InitContent /\ work = InitContent
    /\ made = {} /\ marker = NoMarker /\ flagged = {}
    /\ pc = "down" /\ recovering = FALSE /\ plan = NoPlan /\ todo = {} /\ cur = NoTree
    /\ committed = {} /\ failed = {} /\ outcome = "none" /\ used = {}
    /\ faults = 0 /\ crashes = 0 /\ humans = 0
    /\ open = FALSE /\ before = InitContent /\ dirty = {} /\ touched = {}
    /\ answer = "none"

\* The steps of a saga under way.
Proceed ==
    \/ CreateMarker \/ WriteMarker \/ MarkerFails \/ WriteFails \/ WriteDone
    \/ StageFails \/ MakeCommit \/ CommitFails \/ ReadSha \/ ReadShaFails \/ CommitsDone
    \/ CommitRevert \/ RevertsDone \/ NoteFailures \/ Close \/ Answer
    \/ \E t \in Trees : \/ Check(t) \/ Write(t) \/ Skip(t) \/ Stage(t) \/ StageRevert(t)
                        \/ RevertFails(t) \/ RevertConflicts(t) \/ Restore(t)

Humans == \E t \in Trees : HumanEdit(t) \/ HumanCommit(t) \/ CherryPick(t)

Next == Request \/ Proceed \/ Crash \/ Start \/ Humans

Spec == Init /\ [][Next]_vars

\* The daemon's blocking task runs; nobody has to start it, or ask, or crash.
FairSpec == Spec /\ WF_vars(Proceed)

-----------------------------------------------------------------------------
(* Properties.                                                             *)

Phases == {"down", "idle", "check", "mark", "write", "commit", "staged", "made", "close",
           "answer", "revert", "reverting", "restore", "classify"}
Plans  == [id : Mutations \cup {"none"}, trees : SUBSET Trees,
           target : [Trees -> Contents \cup {Keep}], exempt : SUBSET Trees]
CommitRecords == [tree : Trees, by : Mutations, from : Contents, to : Contents,
                  copy : Nat]
Markers == {NoMarker, Torn}
             \cup [state : {"whole"}, id : Mutations, trees : SUBSET GitTrees]

\* The type of every variable.
TypeOK ==
    /\ head \in [Trees -> Contents] /\ index \in [Trees -> Contents]
    /\ work \in [Trees -> Contents] /\ made \subseteq CommitRecords
    /\ marker \in Markers /\ flagged \subseteq Mutations
    /\ pc \in Phases /\ recovering \in BOOLEAN /\ plan \in Plans
    /\ todo \subseteq Trees /\ cur \in Trees \cup {NoTree}
    /\ committed \subseteq Trees /\ failed \subseteq Trees
    /\ outcome \in {"none", "ok", "rejected", "incomplete"} /\ used \subseteq Mutations
    /\ faults \in Nat /\ crashes \in Nat /\ humans \in Nat
    /\ open \in BOOLEAN /\ before \in [Trees -> Contents] /\ dirty \subseteq GitTrees
    /\ touched \subseteq Trees
    /\ answer \in {"none", "ok", "rejected", "incomplete"}

\* The trees the last request's promise is about: written, under git, and left
\* alone by humans since the request.
Bound == (Written \cap GitTrees) \ touched

Applied    == \A t \in Bound : head[t] = plan.target[t]
RolledBack == \A t \in Bound : head[t] = before[t]

\* Once a saga is closed, by the request or by the recovery after a crash, its
\* mutation is in every tree or in none, or it has a sentinel.
AllOrNothing ==
    ~open => Applied \/ RolledBack \/ plan.id \in flagged

\* What the client was told stays true, through crashes and recoveries.
AnswersAreTrue ==
    /\ answer = "ok" => Applied
    /\ answer = "rejected" => RolledBack

\* What is in a working tree and neither at HEAD nor a human's.
Debris(t) == work[t] # head[t] /\ work[t] \notin Human

\* Recovery "never guesses from the working tree alone": whatever the engine
\* has written and not committed is named by a whole marker, or was flagged.
MarkerCoversWork ==
    \A t \in GitTrees :
        Debris(t) => (Whole(marker) /\ t \in marker.trees) \/ flagged # {}

\* "A referrer the refactor leaves byte-identical cannot have its work
\* clobbered": no step of the engine discards or commits what a human had in
\* a working tree, uncommitted, when the request came.
HumanWorkKept ==
    [][\A t \in dirty \ touched :
         humans' = humans => work'[t] = work[t] /\ head'[t] = head[t]]_vars

\* A saga that was opened is closed, unless the daemon goes down.
SagasSettle == open ~> (~open \/ pc = "down")

\* The saga is an atomic mutation: until it is closed nobody is promised
\* anything, and closing it is the one step that takes effect.
Active == open \/ pc \in {"check", "mark"}
Atomic == INSTANCE AtomicMutation WITH
    content <- [t \in GitTrees |-> IF Active THEN before[t] ELSE head[t]],
    pending <- IF Active THEN [id |-> plan.id,
                               target |-> [t \in GitTrees |-> plan.target[t]]]
               ELSE [id |-> "none"],
    edited  <- IF Active THEN touched \cap GitTrees ELSE {},
    flagged <- IF Active THEN flagged \ {plan.id} ELSE flagged,
    Trees   <- GitTrees
ImplementsAtomic == Atomic!Spec
=============================================================================
