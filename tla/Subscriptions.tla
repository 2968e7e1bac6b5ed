---------------------------- MODULE Subscriptions ----------------------------
(***************************************************************************)
(* The subscriptions a daemon serves off the version of its held state     *)
(* (au-engine/src/serve.rs, run_subscription): each is a task that holds   *)
(* the projection it last reported, waits on the version channel, and      *)
(* sends what changed since.  The engine publishes in two steps, the held  *)
(* state first and the version channel after (engine.rs), so a task may    *)
(* read a state whose wake-up is still to come.  Each subscription is      *)
(* modelled on a connection of its own; those of one connection share only *)
(* the room in its frame channel.                                          *)
(***************************************************************************)
EXTENDS Deltas, TLC

CONSTANTS
    Subs,        \* subscriptions
    Channels,    \* the channels a client may subscribe to
    MaxBuilds,   \* bound on the builds of the engine
    FrameBuffer, \* frames a connection's channel holds (64)
    None         \* no channel, no frame, no view, nothing reported

VersionChannels == {"changes", "lifecycle", "files", "types", "diagnostics",
                    "link_graph", "type_graph"}

ASSUME SubscriptionsAssumption ==
    /\ Channels \subseteq VersionChannels
    /\ MaxBuilds \in Nat /\ FrameBuffer \in Nat \ {0}

\* The files some paths may hold, as a client keeps them.
FileMaps == UNION {[F -> Contents \cup {NoHash}] : F \in SUBSET Files}

ASSUME NoneIsNoView == None \notin FileMaps

VARIABLES
    kb,       \* Held.kb; meaningful when version > 0
    version,  \* Held.version; 0 while Deriving
    swapped,  \* a version is swapped in and not yet sent on version_tx
    chan,     \* the versions version_tx has taken
    channel,  \* the channel of each subscription
    stage,    \* where its task is
    seen,     \* the mark of its receiver on version_tx
    last,     \* what it last reported
    frame,    \* the frame it is sending
    queue,    \* its connection's frame channel
    view,     \* what its client holds
    stamp,    \* the at_version of the last frame its client has had
    missed    \* paths its client read otherwise than its task's baseline

heldVars  == <<kb, version, swapped, chan>>
clientVars == <<queue, view, stamp>>
subVars == <<channel, stage, seen, last, frame, missed>>

Running == {"sending", "baseline", "probe", "was", "payload", "gate",
            "snapshot", "waiting", "woken"}
Live(s) == stage[s] \notin {"off", "ended"}

-----------------------------------------------------------------------------
(* Projection, delta and client of each channel.                           *)

Project(ch, k) ==
    CASE ch \in {"changes", "files"} -> FilesSnapshot(k)
      [] ch = "types"       -> TypesSnapshot(k)
      [] ch = "diagnostics" -> DiagnosticsSnapshot(k)
      [] ch = "link_graph"  -> LinkGraphView(k)
      [] ch = "type_graph"  -> TypeGraphView(k)
      [] ch = "lifecycle"   -> {}

NetChange(ch, old, new) ==
    CASE ch = "changes"     -> FilesDelta(old, new)
      [] ch = "files"       -> PathsDelta(old, new)
      [] ch = "types"       -> TypesDelta(old, new)
      [] ch = "diagnostics" -> DiagnosticsDelta(old, new)
      [] ch = "link_graph"  -> LinkGraphDelta(old, new)
      [] ch = "type_graph"  -> TypeGraphDelta(old, new)
      [] ch = "lifecycle"   -> {}

\* A projection as its client keeps it: paths only for `files`, and edges by
\* how often they occur.
Kept(ch, p) ==
    CASE ch = "files"      -> [f \in DOMAIN p |-> TRUE]
      [] ch = "link_graph" -> [p EXCEPT !.edges = Tally(@)]
      [] OTHER             -> p

\* Every projection and every net change, as tables.
Projections == [ch \in Channels |->
    [k \in KnowledgeBases |-> Project(ch, k)]]

Snapshot(ch, k) == Projections[ch][k]

Views == [ch \in Channels |->
    [k \in KnowledgeBases |-> Kept(ch, Project(ch, k))]]

View(ch, k) == Views[ch][k]

Snapshots(ch) == {Snapshot(ch, k) : k \in KnowledgeBases}

NetChanges == [ch \in Channels |->
    [p \in Snapshots(ch) \X Snapshots(ch) |-> NetChange(ch, p[1], p[2])]]

Delta(ch, old, new) == NetChanges[ch][<<old, new>>]

IsEmptyDelta(ch, d) ==
    /\ MapDeltaEmpty(d)
    /\ ch = "link_graph" => d.edges.added = <<>> /\ d.edges.removed = <<>>
    /\ ch = "type_graph" => d.edges.added = <<>> /\ d.edges.removed = {}

Applied(ch, v, d) ==
    CASE ch = "files" ->
            ApplyMap(v, [f \in DOMAIN d.put |-> TRUE], d.gone)
      [] ch = "link_graph" ->
            [nodes |-> ApplyMap(v.nodes, d.put, d.gone),
             edges |-> ApplyTally(v.edges, d.edges.added, d.edges.removed)]
      [] ch = "type_graph" ->
            [nodes |-> ApplyMap(v.nodes, d.put, d.gone),
             edges |-> ApplyMap(v.edges, d.edges.added, d.edges.removed)]
      [] OTHER -> ApplyMap(v, d.put, d.gone)

\* Paths on which two file maps differ.
Differing(a, b) == {f \in DOMAIN a \cup DOMAIN b :
    \/ f \notin DOMAIN a \cap DOMAIN b
    \/ a[f] # b[f]}

-----------------------------------------------------------------------------
(* The engine publishes.                                                   *)

Init ==
    /\ kb = [f \in Files |-> Gone] /\ version = 0
    /\ swapped = FALSE /\ chan = 0
    /\ channel = [s \in Subs |-> None] /\ stage = [s \in Subs |-> "off"]
    /\ seen = [s \in Subs |-> 0]       /\ last = [s \in Subs |-> None]
    /\ frame = [s \in Subs |-> None]   /\ queue = [s \in Subs |-> <<>>]
    /\ view = [s \in Subs |-> None]    /\ stamp = [s \in Subs |-> 0]
    /\ missed = [s \in Subs |-> {}]

\* The swap of a rebuild, under the held lock.
Publish ==
    /\ ~swapped /\ version < MaxBuilds
    /\ kb' \in KnowledgeBases
    /\ version' = version + 1 /\ swapped' = TRUE
    /\ UNCHANGED <<chan, subVars, clientVars>>

\* version_tx.send: with no receiver the channel takes nothing; Subs need not
\* hold all the receivers there are.
Broadcast ==
    /\ swapped
    /\ \/ chan' = chan + 1
       \/ chan' = chan /\ \A s \in Subs : ~Live(s)
    /\ swapped' = FALSE
    /\ UNCHANGED <<kb, version, subVars, clientVars>>

-----------------------------------------------------------------------------
(* The task of a subscription.                                             *)

\* Move on and have the frame sent.
Emit(s, f) ==
    /\ frame' = [frame EXCEPT ![s] = f]
    /\ stage' = [stage EXCEPT ![s] = "sending"]

GoTo(s, st) ==
    /\ stage' = [stage EXCEPT ![s] = st]
    /\ UNCHANGED frame

Ack == [type |-> "ack"]
InitialValue(at, p) == [type |-> "initial", at |-> at, payload |-> p]
ChangeEvent(at, d)  == [type |-> "event", at |-> at, delta |-> d]

\* The receiver is registered before the ack is sent.
Subscribe(s, ch) ==
    /\ stage[s] = "off"
    /\ channel' = [channel EXCEPT ![s] = ch]
    /\ seen' = [seen EXCEPT ![s] = chan]
    /\ Emit(s, Ack)
    /\ UNCHANGED <<heldVars, last, missed, clientVars>>

\* Where a task goes on once its frame is sent.
AfterAck(ch) ==
    CASE ch = "changes"   -> "baseline"
      [] ch = "lifecycle" -> "probe"
      [] OTHER            -> "gate"

AfterSend(s) == IF frame[s].type = "ack" THEN AfterAck(channel[s]) ELSE "waiting"

Send(s) ==
    /\ stage[s] = "sending" /\ Len(queue[s]) < FrameBuffer
    /\ queue' = [queue EXCEPT ![s] = Append(@, frame[s])]
    /\ stage' = [stage EXCEPT ![s] = AfterSend(s)]
    /\ frame' = [frame EXCEPT ![s] = None]
    /\ UNCHANGED <<heldVars, channel, seen, last, missed, view, stamp>>

\* run_changes: the baseline, empty while Deriving.  `missed` compares it with
\* what the client read when the ack reached it, if it has.
Baseline(s) ==
    LET base == IF version = 0 THEN <<>> ELSE FilesSnapshot(kb)
    IN  /\ stage[s] = "baseline"
        /\ last' = [last EXCEPT ![s] = base]
        /\ missed' = [missed EXCEPT ![s] =
                        IF view[s] = None THEN {} ELSE Differing(view[s], base)]
        /\ GoTo(s, "waiting")
        /\ UNCHANGED <<heldVars, channel, seen, clientVars>>

\* run_ready: the version, the state and the payload are three reads.
ProbeVersion(s) ==
    /\ stage[s] = "probe"
    /\ last' = [last EXCEPT ![s] = <<version>>]
    /\ GoTo(s, "was")
    /\ UNCHANGED <<heldVars, channel, seen, missed, clientVars>>

ProbeState(s) ==
    /\ stage[s] = "was"
    /\ last' = [last EXCEPT ![s] = Append(@, version > 0)]
    /\ GoTo(s, "payload")
    /\ UNCHANGED <<heldVars, channel, seen, missed, clientVars>>

ProbePayload(s) ==
    /\ stage[s] = "payload"
    /\ Emit(s, InitialValue(last[s][1], version > 0))
    /\ last' = [last EXCEPT ![s] = last[s][2]]
    /\ UNCHANGED <<heldVars, channel, seen, missed, clientVars>>

\* wait_until_ready: each advance of the version is a reason to look again.
Gate(s) ==
    /\ stage[s] = "gate"
    /\ \/ version > 0 /\ GoTo(s, "snapshot") /\ UNCHANGED seen
       \/ /\ version = 0 /\ seen[s] # chan
          /\ seen' = [seen EXCEPT ![s] = chan]
          /\ UNCHANGED <<stage, frame>>
    /\ UNCHANGED <<heldVars, channel, last, missed, clientVars>>

ReportInitial(s) ==
    /\ stage[s] = "snapshot"
    /\ last' = [last EXCEPT ![s] = Snapshot(channel[s], kb)]
    /\ Emit(s, InitialValue(version, View(channel[s], kb)))
    /\ UNCHANGED <<heldVars, channel, seen, missed, clientVars>>

\* rx.changed() returns: the mark moves to the version channel's own.
Wake(s) ==
    /\ stage[s] = "waiting"
    /\ seen[s] # chan
    /\ seen' = [seen EXCEPT ![s] = chan]
    /\ GoTo(s, "woken")
    /\ UNCHANGED <<heldVars, channel, last, missed, clientVars>>

\* A fresh projection against the one last reported; no event for no change.
ReportDelta(s) ==
    LET ch  == channel[s]
        cur == Snapshot(ch, kb)
        d   == Delta(ch, last[s], cur)
    IN  /\ stage[s] = "woken" /\ ch # "lifecycle"
        /\ IF IsEmptyDelta(ch, d)
           THEN GoTo(s, "waiting") /\ UNCHANGED last
           ELSE /\ Emit(s, ChangeEvent(version, d))
                /\ last' = [last EXCEPT ![s] = cur]
        /\ UNCHANGED <<heldVars, channel, seen, missed, clientVars>>

\* run_ready reports the transition to Ready alone.
ReportReady(s) ==
    LET ready == version > 0
    IN  /\ stage[s] = "woken" /\ channel[s] = "lifecycle"
        /\ IF ready /\ ~last[s] THEN Emit(s, ChangeEvent(version, ready))
           ELSE GoTo(s, "waiting")
        /\ last' = [last EXCEPT ![s] = ready]
        /\ UNCHANGED <<heldVars, channel, seen, missed, clientVars>>

TaskStep(s) ==
    \/ Send(s) \/ Baseline(s)
    \/ ProbeVersion(s) \/ ProbeState(s) \/ ProbePayload(s)
    \/ Gate(s) \/ ReportInitial(s)
    \/ Wake(s) \/ ReportDelta(s) \/ ReportReady(s)

-----------------------------------------------------------------------------
(* Its client.                                                             *)

\* What it makes of a frame.
Took(ch, v, f) ==
    CASE f.type = "ack"     -> None
      [] f.type = "initial" -> f.payload
      [] f.type = "event"   -> IF ch = "lifecycle" THEN f.delta
                               ELSE Applied(ch, v, f.delta)

\* On the ack of `changes` a client reads the files itself, since the channel
\* has no initial value; every later frame adds to what it holds.
Receive(s) ==
    LET f    == Head(queue[s])
        read == IF version = 0 THEN <<>> ELSE FilesSnapshot(kb)
        own  == f.type = "ack" /\ channel[s] = "changes"
    IN  /\ queue[s] # <<>>
        /\ queue' = [queue EXCEPT ![s] = Tail(@)]
        /\ view' = [view EXCEPT ![s] =
                IF own THEN read ELSE Took(channel[s], @, f)]
        /\ stamp' = [stamp EXCEPT ![s] = IF f.type = "ack" THEN @ ELSE f.at]
        /\ missed' = [missed EXCEPT ![s] =
                IF own /\ last[s] # None THEN Differing(read, last[s]) ELSE @]
        /\ UNCHANGED <<heldVars, channel, stage, seen, last, frame>>

\* The connection ends: its tasks are aborted and its frame channel closes.
Drop(s) ==
    /\ Live(s)
    /\ stage' = [stage EXCEPT ![s] = "ended"]
    /\ queue' = [queue EXCEPT ![s] = <<>>]
    /\ frame' = [frame EXCEPT ![s] = None]
    /\ last' = [last EXCEPT ![s] = None]
    /\ view' = [view EXCEPT ![s] = None]
    /\ missed' = [missed EXCEPT ![s] = {}]
    /\ UNCHANGED <<heldVars, channel, seen, stamp>>

-----------------------------------------------------------------------------

Next ==
    \/ Publish \/ Broadcast
    \/ \E s \in Subs :
        \/ \E ch \in Channels : Subscribe(s, ch)
        \/ TaskStep(s) \/ Receive(s) \/ Drop(s)

vars == <<heldVars, subVars, clientVars>>
Spec == Init /\ [][Next]_vars

\* A rebuild that swapped goes on to send, the runtime schedules every task and
\* a client keeps reading; rebuilds, subscriptions and drops need not happen.
FairSpec ==
    /\ Spec /\ WF_vars(Broadcast)
    /\ \A s \in Subs : WF_vars(TaskStep(s)) /\ WF_vars(Receive(s))

-----------------------------------------------------------------------------
(* Properties.                                                             *)

TypeOK ==
    /\ kb \in KnowledgeBases /\ version \in 0..MaxBuilds
    /\ swapped \in BOOLEAN /\ chan \in 0..version
    /\ channel \in [Subs -> Channels \cup {None}]
    /\ stage \in [Subs -> Running \cup {"off", "ended"}]
    /\ seen \in [Subs -> 0..MaxBuilds] /\ stamp \in [Subs -> 0..MaxBuilds]
    /\ missed \in [Subs -> SUBSET Files]
    /\ \A s \in Subs : seen[s] <= chan /\ Len(queue[s]) <= FrameBuffer

\* What the client of s should hold.
Wanted(s) == IF channel[s] = "lifecycle" THEN version > 0
             ELSE View(channel[s], kb)

\* The client of s holds it, except for the paths a `changes` client read
\* otherwise than the baseline of its task.
Current(s) ==
    IF channel[s] = "changes" /\ view[s] # None
    THEN Differing(view[s], Wanted(s)) \subseteq missed[s]
    ELSE view[s] = Wanted(s)

\* Nothing is on its way to the client of s.
Settled(s) ==
    /\ ~swapped /\ stage[s] = "waiting"
    /\ seen[s] = chan /\ queue[s] = <<>>

\* The frames of a subscription add up: with no wake-up and no frame on its
\* way, what the client has put together from the initial value and the net
\* deltas is what the held state projects to.  No version is missed between
\* the snapshot and the wait, whatever rebuilds the wake-ups coalesce.
FramesAddUp ==
    \A s \in Subs : Settled(s) /\ version > 0 => Current(s)

\* However rebuilds, wake-ups and frames interleave, a client that keeps
\* reading ends up holding the last state published.
ClientsCatchUp ==
    <>[](\A s \in Subs : Live(s) /\ version > 0 => Current(s))
=============================================================================
