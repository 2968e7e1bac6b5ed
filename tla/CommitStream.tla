---------------------------- MODULE CommitStream -----------------------------
(***************************************************************************)
(* The `recent_commits` subscriptions of a daemon: one task each,          *)
(* run_recent_commits of au-engine/src/serve.rs, over the reflog watches   *)
(* of GitWatch.  A task seeds its client with a page of the newest commits *)
(* and then tells it of each commit that appears; the client keeps the     *)
(* newest of what it was told.  The stream is no part of the version       *)
(* axis: after it knows the members it wakes on reflog events alone.       *)
(***************************************************************************)
EXTENDS GitWatch

CONSTANTS
    Limit,       \* effective_limit: the page, and the cap on each tree's log
    MaxFails,    \* bound on git commands that fail
    FrameBuffer  \* frames a connection's channel holds

ASSUME CommitStreamAssumption ==
    Limit \in Nat \ {0} /\ MaxFails \in Nat /\ FrameBuffer \in Nat \ {0}

VARIABLES
    ready,    \* the engine holds a knowledge base
    stage,    \* where the task of each subscription is
    armed,    \* the trees it has armed
    cache,    \* per_tree: the last log read of each tree
    emitted,  \* the commits it counts as told
    relog,    \* the trees it has still to read, in order
    frame,    \* the commits it is sending
    queue,    \* its connection's frame channel
    told,     \* the commits its client has been sent
    old,      \* history: commits in a tree's log when its seed was read
    again,    \* history: commits sent to a client a second time
    blind,    \* history: trees a git log failed for
    fails,    \* git commands that have failed
    leaked    \* counts armed for a task that was aborted meanwhile

taskVars   == <<armed, cache, emitted, relog, frame>>
clientVars == <<told, again>>
faultVars  == <<blind, fails, leaked>>
vars == <<log, clock, refs, raised, inbox, lagged, open, ready, stage, armed,
          cache, emitted, relog, frame, queue, told, old, again, blind, fails,
          leaked>>

Stages == {"off", "gate", "arming", "seeding", "sending", "waiting",
           "relogging", "ended"}
Live(s) == stage[s] \notin {"off", "ended"}

Nowhere == [t \in Trees |-> {}]

Init ==
    /\ GitInit /\ ready = FALSE
    /\ stage = [s \in Receivers |-> "off"]  /\ armed = [s \in Receivers |-> {}]
    /\ cache = [s \in Receivers |-> Nowhere]
    /\ emitted = [s \in Receivers |-> {}]   /\ relog = [s \in Receivers |-> <<>>]
    /\ frame = [s \in Receivers |-> {}]     /\ queue = [s \in Receivers |-> <<>>]
    /\ told = [s \in Receivers |-> {}]      /\ old = [s \in Receivers |-> {}]
    /\ again = [s \in Receivers |-> {}]     /\ blind = [s \in Receivers |-> {}]
    /\ fails = 0 /\ leaked = [t \in Trees |-> 0]

-----------------------------------------------------------------------------
(* What git and the caches give.                                           *)

Commits(t) == {log[t][i] : i \in DOMAIN log[t]}

\* merge_recent_commits: the newest n of a set of commits.
Newest(n, commits) ==
    {c \in commits : Cardinality({d \in commits : d > c}) < n}

\* relog_tree, seed_trees: one `git log -n`; nothing when it fails.
LogRead(t, ok) == IF ok THEN Newest(Limit, Commits(t)) ELSE {}

HeldOids(c) == UNION {c[t] : t \in Trees}

-----------------------------------------------------------------------------
(* The task.                                                               *)

GoTo(s, st) == stage' = [stage EXCEPT ![s] = st]

\* Have a frame of commits sent.
Emit(s, commits) ==
    /\ frame' = [frame EXCEPT ![s] = commits]
    /\ GoTo(s, "sending")

\* The rebuild a task waits for before it knows the members.
BecomeReady ==
    /\ ~ready /\ ready' = TRUE
    /\ UNCHANGED <<gitVars, watchVars, busVars, stage, taskVars, queue, old,
                   clientVars, faultVars>>

\* The receiver is taken before the gate and before any tree is armed.
Subscribe(s) ==
    /\ stage[s] = "off"
    /\ open' = open \cup {s}
    /\ GoTo(s, "gate")
    /\ UNCHANGED <<gitVars, watchVars, inbox, lagged, ready, taskVars, queue,
                   old, clientVars, faultVars>>

ReadMembers(s) ==
    /\ stage[s] = "gate" /\ ready
    /\ GoTo(s, "arming")
    /\ UNCHANGED <<gitVars, watchVars, busVars, ready, taskVars, queue, old,
                   clientVars, faultVars>>

ArmWatches(s) ==
    /\ stage[s] = "arming"
    /\ Arm(Trees)
    /\ armed' = [armed EXCEPT ![s] = Armable(Trees)]
    /\ relog' = [relog EXCEPT ![s] = TreeList]
    /\ GoTo(s, "seeding")
    /\ UNCHANGED <<gitVars, raised, busVars, ready, cache, emitted, frame,
                   queue, old, clientVars, faultVars>>

\* The next tree of seed_trees, or of the live loop; git may fail.
ReadLog(s) ==
    LET t == Head(relog[s])
    IN  /\ stage[s] \in {"seeding", "relogging"} /\ relog[s] # <<>>
        /\ \E ok \in BOOLEAN :
            /\ ok \/ fails < MaxFails
            /\ cache' = [cache EXCEPT ![s][t] = LogRead(t, ok)]
            /\ fails' = IF ok THEN fails ELSE fails + 1
            /\ blind' = IF ok THEN blind ELSE [blind EXCEPT ![s] = @ \cup {t}]
        /\ relog' = [relog EXCEPT ![s] = Tail(@)]
        /\ old' = IF stage[s] = "seeding"
                  THEN [old EXCEPT ![s] = @ \cup Commits(t)] ELSE old
        /\ UNCHANGED <<gitVars, watchVars, busVars, ready, stage, armed,
                       emitted, frame, queue, clientVars, leaked>>

\* The seed page is sent, and `counted` counts as told.
Seed(s, counted) ==
    /\ stage[s] = "seeding" /\ relog[s] = <<>>
    /\ emitted' = [emitted EXCEPT ![s] = counted]
    /\ Emit(s, Newest(Limit, HeldOids(cache[s])))
    /\ UNCHANGED <<gitVars, watchVars, open, ready, armed, cache, relog,
                   queue, old, clientVars, faultVars>>

\* Mutants of SendSeed: only the page counts as told; the receiver of events is
\* taken after the seed.
SeedPageOnly(s) ==
    Seed(s, Newest(Limit, HeldOids(cache[s]))) /\ UNCHANGED <<inbox, lagged>>

ListenAfterSeed(s) ==
    /\ Seed(s, HeldOids(cache[s]))
    /\ inbox' = [inbox EXCEPT ![s] = <<>>] /\ lagged' = lagged \ {s}

\* Everything held counts as told, on the page or not.
SendSeed(s) == Seed(s, HeldOids(cache[s])) /\ UNCHANGED <<inbox, lagged>>

\* git_rx.recv(): the tree that moved, or every tree when events were lost.
TakeEvent(s) ==
    /\ stage[s] = "waiting"
    /\ \/ /\ s \in lagged /\ lagged' = lagged \ {s}
          /\ relog' = [relog EXCEPT ![s] = TreeList]
          /\ UNCHANGED inbox
       \/ /\ s \notin lagged /\ inbox[s] # <<>>
          /\ inbox' = [inbox EXCEPT ![s] = Tail(@)]
          /\ relog' = [relog EXCEPT ![s] = <<Head(inbox[s])>>]
          /\ UNCHANGED lagged
    /\ GoTo(s, "relogging")
    /\ UNCHANGED <<gitVars, watchVars, open, ready, armed, cache, emitted,
                   frame, queue, old, clientVars, faultVars>>

\* Merge without a bound, send what is new, count all that is held as told.
SendNew(s) ==
    LET new == HeldOids(cache[s]) \ emitted[s]
    IN  /\ stage[s] = "relogging" /\ relog[s] = <<>>
        /\ IF new = {} THEN GoTo(s, "waiting") /\ UNCHANGED frame
           ELSE Emit(s, new)
        /\ emitted' = [emitted EXCEPT ![s] = HeldOids(cache[s])]
        /\ UNCHANGED <<gitVars, watchVars, busVars, ready, armed, cache, relog,
                       queue, old, clientVars, faultVars>>

\* send_frame waits for room in the connection's channel.
SendFrame(s) ==
    /\ stage[s] = "sending" /\ Len(queue[s]) < FrameBuffer
    /\ queue' = [queue EXCEPT ![s] = Append(@, frame[s])]
    /\ frame' = [frame EXCEPT ![s] = {}]
    /\ GoTo(s, "waiting")
    /\ UNCHANGED <<gitVars, watchVars, busVars, ready, armed, cache, emitted,
                   relog, old, clientVars, faultVars>>

TaskStep(s) ==
    \/ ReadMembers(s) \/ ArmWatches(s) \/ ReadLog(s)
    \/ SendSeed(s) \/ TakeEvent(s) \/ SendNew(s) \/ SendFrame(s)

\* The client takes a frame: a commit it has had, or that its first page was
\* chosen over, is one it is told again.
Receive(s) ==
    LET commits == Head(queue[s])
        seen    == IF told[s] = {} THEN {} ELSE told[s] \cup old[s]
    IN  /\ queue[s] # <<>>
        /\ queue' = [queue EXCEPT ![s] = Tail(@)]
        /\ told'  = [told EXCEPT ![s] = @ \cup commits]
        /\ again' = [again EXCEPT ![s] = @ \cup (commits \cap seen)]
        /\ UNCHANGED <<gitVars, watchVars, busVars, ready, stage, taskVars, old,
                       faultVars>>

\* What a task leaves when its connection ends.
Vacate(s) ==
    /\ stage' = [stage EXCEPT ![s] = "ended"]
    /\ armed' = [armed EXCEPT ![s] = {}]
    /\ cache' = [cache EXCEPT ![s] = Nowhere]
    /\ emitted' = [emitted EXCEPT ![s] = {}]
    /\ relog' = [relog EXCEPT ![s] = <<>>]  /\ frame' = [frame EXCEPT ![s] = {}]
    /\ queue' = [queue EXCEPT ![s] = <<>>] /\ old' = [old EXCEPT ![s] = {}]
    /\ told' = [told EXCEPT ![s] = {}]    /\ again' = [again EXCEPT ![s] = {}]
    /\ blind' = [blind EXCEPT ![s] = {}]
    /\ open' = open \ {s} /\ lagged' = lagged \ {s}
    /\ inbox' = [inbox EXCEPT ![s] = <<>>]

\* The task is aborted: its DisarmGuard takes `counted` back; an arm still on
\* its blocking thread finishes with no guard to take it back.
EndTask(s, counted) ==
    /\ Live(s) /\ Vacate(s)
    /\ IF stage[s] = "arming"
       THEN /\ Arm(Trees) /\ UNCHANGED raised
            /\ leaked' = [t \in Trees |-> IF t \in Armable(Trees)
                                          THEN leaked[t] + 1 ELSE leaked[t]]
       ELSE Disarm(counted) /\ UNCHANGED leaked
    /\ UNCHANGED <<gitVars, ready, fails>>

\* Mutant of Abort: every tree asked for is taken back, the skipped ones too.
AbortAll(s) == EndTask(s, IF armed[s] = {} THEN {} ELSE Trees)

\* What was armed, and nothing else, is taken back.
Abort(s) == EndTask(s, armed[s])

-----------------------------------------------------------------------------

streamVars == <<ready, stage, taskVars, queue, old, clientVars, faultVars>>

GitEvent(t) == Notify(t) /\ UNCHANGED streamVars

Next ==
    \/ BecomeReady
    \/ \E t \in Trees, n \in 1..2 : Land(t, n) /\ UNCHANGED streamVars
    \/ \E t \in Trees : GitEvent(t)
    \/ \E s \in Receivers :
          Subscribe(s) \/ TaskStep(s) \/ Receive(s) \/ Abort(s)

Spec == Init /\ [][Next]_vars

\* The runtime schedules every task, notify delivers, clients read; commits,
\* subscriptions and aborts need not happen.
FairSpec ==
    /\ Spec /\ WF_vars(BecomeReady)
    /\ \A t \in Trees : WF_vars(GitEvent(t))
    /\ \A s \in Receivers : WF_vars(TaskStep(s)) /\ WF_vars(Receive(s))

-----------------------------------------------------------------------------
(* Properties.                                                             *)

TypeOK ==
    /\ log \in [Trees -> Seq(1..MaxCommits)] /\ clock \in 0..MaxCommits
    /\ refs \in [Trees -> Nat] /\ raised \subseteq Trees
    /\ inbox \in [Receivers -> Seq(Trees)]
    /\ lagged \subseteq open /\ open \subseteq Receivers
    /\ ready \in BOOLEAN /\ stage \in [Receivers -> Stages]
    /\ armed \in [Receivers -> SUBSET Trees] /\ relog \in [Receivers -> Seq(Trees)]
    /\ \A s \in Receivers :
        /\ Len(inbox[s]) <= EventBuffer /\ Len(queue[s]) <= FrameBuffer
        /\ \A t \in Trees : cache[s][t] \subseteq Commits(t)

\* A tree is counted once for each task that armed it, and the overlapping
\* subscriptions of a tree that had no reflog for one of them never take each
\* other's count; the rest are the arms an abort cut off.
RefsBalance ==
    \A t \in Trees :
        refs[t] = Cardinality({s \in Receivers : t \in armed[s]}) + leaked[t]

\* Nothing about the trees s has armed is on its way to its client.
Settled(s) ==
    /\ stage[s] = "waiting" /\ queue[s] = <<>> /\ inbox[s] = <<>>
    /\ s \notin lagged /\ armed[s] \cap raised = {}

Seen(s) == armed[s] \ blind[s]

\* The window the client of s keeps lacks no commit of a watched tree.
Covered(s) ==
    Newest(Limit, told[s] \cup UNION {Commits(t) : t \in Seen(s)}) \subseteq told[s]

\* With nothing on its way, no commit of the watched trees is missing from the
\* window of a client, however commits fall between the arm, the seed and the
\* loop, and whatever events were lost to the buffer.
WindowCovered == \A s \in Receivers : Settled(s) => Covered(s)

\* A commit below the cut of the seed page is never announced as new later,
\* and none is announced twice, unless a git log failed in between.
AppearOnce ==
    \A s \in Receivers : again[s] \subseteq UNION {Commits(t) : t \in blind[s]}

\* A commit reaches the client of every subscription that lives on.
CommitsReachClients ==
    <>[](\A s \in Receivers : Live(s) => Covered(s))
=============================================================================
