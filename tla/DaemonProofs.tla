---------------------------- MODULE DaemonProofs ----------------------------
(* Theorems about module Daemon, for any number of processes, commands,    *)
(* crashes, hangs and reused pids.                                         *)
EXTENDS Daemon, TLAPS

-----------------------------------------------------------------------------
(* Type correctness, which also says that a listener is a server's and     *)
(* that only a pid whose process is gone is given to a stranger.           *)

\* A command that names a process has read it from the pid file.
Named == {"unlink", "window", "term", "wait", "kill"}

HasTarget == \A k \in Commands : cmd[k] \in Named => target[k] \in Procs

LEMMA TypeInit == Init => TypeOK /\ HasTarget
BY DaemonAssumption
   DEF Init, TypeOK, HasTarget, Named, Stages, Running, Checks, Holding, Binding,
       Leaving, InFlight

LEMMA TypeStart ==
    ASSUME TypeOK, HasTarget, NEW p \in Procs, Probe(p) \/ StartStep(p)
    PROVE  TypeOK' /\ HasTarget'
<1> USE DaemonAssumption
    DEF TypeOK, HasTarget, Stages, Running, Checks, Holding, Binding, Leaving, Keep,
        GoTo, cmdVars
<1>1. CASE Probe(p)
  BY <1>1 DEF Probe
<1>2. CASE ReadPid(p)
  BY <1>2 DEF ReadPid
<1>3. CASE WritePid(p)
  BY <1>3 DEF WritePid
<1>4. CASE Boot(p)
  BY <1>4 DEF Boot
<1>5. CASE Bind(p)
  BY <1>5 DEF Bind
<1>6. CASE ProbeBound(p)
  BY <1>6 DEF ProbeBound
<1>7. CASE Reclaim(p)
  BY <1>7 DEF Reclaim
<1>8. CASE CloseServer(p)
  BY <1>8 DEF CloseServer
<1>9. CASE RemoveSocket(p)
  BY <1>9 DEF RemoveSocket
<1>10. CASE DropPid(p)
  BY <1>10 DEF DropPid
<1>11. CASE Exit(p)
  BY <1>11 DEF Exit
<1> QED
  BY <1>1, <1>2, <1>3, <1>4, <1>5, <1>6, <1>7, <1>8, <1>9, <1>10, <1>11
     DEF StartStep

LEMMA TypeFault ==
    ASSUME TypeOK, HasTarget, NEW p \in Procs, Crash(p) \/ Hang(p) \/ Reuse(p)
    PROVE  TypeOK' /\ HasTarget'
<1> USE DaemonAssumption
    DEF TypeOK, HasTarget, Stages, Running, Checks, Holding, Binding, Leaving, GoTo,
        cmdVars
<1>1. CASE Crash(p)
  BY <1>1 DEF Crash, Dies
<1>2. CASE Hang(p)
  BY <1>2 DEF Hang
<1>3. CASE Reuse(p)
  BY <1>3 DEF Reuse
<1> QED
  BY <1>1, <1>2, <1>3

LEMMA TypeCommand ==
    ASSUME TypeOK, HasTarget, NEW k \in Commands,
           (\E kd \in Kinds : Begin(k, kd)) \/ CommandStep(k)
    PROVE  TypeOK' /\ HasTarget'
<1> USE DaemonAssumption
    DEF TypeOK, HasTarget, Named, InFlight, Go, KeepFiles, procVars
<1>1. ASSUME NEW kd \in Kinds, Begin(k, kd) PROVE TypeOK' /\ HasTarget'
  BY <1>1 DEF Begin
<1>2. CASE Connect(k)
  <2>1. sock \in listening => sock \in Procs
    OBVIOUS
  <2>2. shutdown' \subseteq Procs
    BY <1>2, <2>1 DEF Connect, Answers
  <2>3. cmd' \in [Commands -> InFlight \cup {"idle", "absent", "done"}]
    BY <1>2 DEF Connect
  <2>4. served' \in [Commands -> BOOLEAN]
    BY <1>2 DEF Connect
  <2>5. HasTarget'
    BY <1>2 DEF Connect
  <2> QED
    BY <1>2, <2>2, <2>3, <2>4, <2>5 DEF Connect
<1>3. CASE ReadRecorded(k)
  BY <1>3 DEF ReadRecorded
<1>4. CASE Unlink(k)
  BY <1>4 DEF Unlink
<1>5. CASE Wait(k)
  BY <1>5 DEF Wait
<1>6. CASE Signal(k)
  BY <1>6 DEF Signal, Dies, Stages
<1> QED
  BY <1>1, <1>2, <1>3, <1>4, <1>5, <1>6 DEF CommandStep

LEMMA TypeStep == TypeOK /\ HasTarget /\ [Next]_vars => TypeOK' /\ HasTarget'
<1> SUFFICES ASSUME TypeOK, HasTarget, [Next]_vars PROVE TypeOK' /\ HasTarget'
    OBVIOUS
<1>1. CASE UNCHANGED vars
  BY <1>1 DEF vars, procVars, cmdVars, TypeOK, HasTarget
<1>2. CASE Next
  BY <1>2, TypeStart, TypeFault, TypeCommand DEF Next
<1> QED
  BY <1>1, <1>2

\* Every variable keeps its type, overlapping commands and faults included.
THEOREM DaemonTypeCorrect == Spec => []TypeOK
BY TypeInit, TypeStep, PTL DEF Spec

-----------------------------------------------------------------------------
(* One daemon at a time.  A process owns the entry from the write of the   *)
(* pid file to the drop of it, which is longer than it holds the entry.    *)

Owner(p) == Holds(p) \/ pc[p] \in {"closed", "leaving"}

NoOwner == \A p \in Procs : ~Owner(p)

\* The recorded pid is the owner's, so that there is one owner at most.
OwnsPid == \A p \in Procs : Owner(p) => pidfile = p

\* A start that has made its checks finds the entry still without an owner,
\* because no other start makes its own meanwhile.
ChecksAlone ==
    /\ \A p, q \in Procs : pc[p] \in Checks /\ pc[q] \in Checks => p = q
    /\ \A p \in Procs : pc[p] = "clear" => NoOwner

\* A command that may remove the pid file keeps every start out of its checks;
\* a `stop` never comes so far.
CommandsApart ==
    \A k \in Commands :
        /\ kind[k] = "stop" => cmd[k] \in {"idle", "connect", "done"}
        /\ kind[k] # "stop" /\ cmd[k] \in InFlight =>
              \A p \in Procs : pc[p] \notin Checks

\* What a command read of the pid file is still there, unless the file is gone.
ReadStays == \A k \in Commands : cmd[k] \in Named => pidfile \in {target[k], None}

\* A command removes the pid file of a dead process only.
UnlinksDead == \A k \in Commands : cmd[k] = "unlink" => NoOwner

\* What the pid file names owns the entry or has died with the file left behind.
PidNamesOwner == \A p \in Procs : pidfile = p => Owner(p) \/ pc[p] = "gone"

\* A `status` that a server answered is over.
AnsweredIsDone ==
    \A k \in Commands :
        cmd[k] = "idle" \/ (kind[k] = "status" /\ cmd[k] # "done") => ~served[k]

DaemonInv ==
    /\ OwnsPid /\ ChecksAlone /\ CommandsApart
    /\ ReadStays /\ UnlinksDead
    /\ ServerReachable
    /\ PidNamesOwner /\ AnsweredIsDone

LEMMA DaemonInit == Init => DaemonInv
BY DaemonAssumption
   DEF Init, DaemonInv, OwnsPid, ChecksAlone, CommandsApart, ReadStays, UnlinksDead,
       ServerReachable, PidNamesOwner, AnsweredIsDone, NoOwner, Owner, Holds, Checks,
       Holding, Binding, InFlight, Named

LEMMA DaemonStart ==
    ASSUME ~Overlap, TypeOK, HasTarget, DaemonInv,
           NEW p \in Procs, Probe(p) \/ StartStep(p)
    PROVE  DaemonInv'
<1> USE DaemonAssumption
    DEF TypeOK, HasTarget, Stages, Running, Checks, Holding, Binding, Leaving, InFlight,
        Named, Keep, GoTo, cmdVars,
        DaemonInv, OwnsPid, ChecksAlone, CommandsApart, ReadStays,
        UnlinksDead, ServerReachable, PidNamesOwner, AnsweredIsDone, NoOwner, Owner, Holds
<1>1. CASE Probe(p)
  BY <1>1 DEF Probe, MayCheck
<1>2. CASE ReadPid(p)
  BY <1>2 DEF ReadPid, Alive
<1>3. CASE WritePid(p)
  BY <1>3 DEF WritePid
<1>4. CASE Boot(p)
  BY <1>4 DEF Boot
<1>5. CASE Bind(p)
  BY <1>5 DEF Bind
<1>6. CASE ProbeBound(p)
  BY <1>6 DEF ProbeBound
<1>7. CASE Reclaim(p)
  BY <1>7 DEF Reclaim
<1>8. CASE CloseServer(p)
  BY <1>8 DEF CloseServer
<1>9. CASE RemoveSocket(p)
  BY <1>9 DEF RemoveSocket
<1>10. CASE DropPid(p)
  BY <1>10 DEF DropPid
<1>11. CASE Exit(p)
  BY <1>11 DEF Exit
<1> QED
  BY <1>1, <1>2, <1>3, <1>4, <1>5, <1>6, <1>7, <1>8, <1>9, <1>10, <1>11
     DEF StartStep

LEMMA DaemonFault ==
    ASSUME ~Overlap, TypeOK, HasTarget, DaemonInv,
           NEW p \in Procs, Crash(p) \/ Hang(p) \/ Reuse(p)
    PROVE  DaemonInv'
<1> USE DaemonAssumption
    DEF TypeOK, HasTarget, Stages, Running, Checks, Holding, Binding, Leaving, InFlight,
        Named, GoTo, cmdVars,
        DaemonInv, OwnsPid, ChecksAlone, CommandsApart, ReadStays,
        UnlinksDead, ServerReachable, PidNamesOwner, AnsweredIsDone, NoOwner, Owner, Holds
<1>1. CASE Crash(p)
  BY <1>1 DEF Crash, Dies
<1>2. CASE Hang(p)
  BY <1>2 DEF Hang
<1>3. CASE Reuse(p)
  BY <1>3 DEF Reuse
<1> QED
  BY <1>1, <1>2, <1>3

LEMMA DaemonCommand ==
    ASSUME ~Overlap, TypeOK, HasTarget, DaemonInv, NEW k \in Commands,
           (\E kd \in Kinds : Begin(k, kd)) \/ CommandStep(k)
    PROVE  DaemonInv'
<1> USE DaemonAssumption
    DEF TypeOK, HasTarget, Stages, Running, Checks, Holding, Binding, Leaving, InFlight,
        Named, Go, KeepFiles, procVars,
        DaemonInv, OwnsPid, ChecksAlone, CommandsApart, ReadStays,
        UnlinksDead, ServerReachable, PidNamesOwner, AnsweredIsDone, NoOwner, Owner, Holds
<1>1. ASSUME NEW kd \in Kinds, Begin(k, kd) PROVE DaemonInv'
  BY <1>1 DEF Begin
<1>2. CASE Connect(k)
  BY <1>2 DEF Connect
<1>3. CASE ReadRecorded(k)
  BY <1>3 DEF ReadRecorded, Alive
<1>4. CASE Unlink(k)
  BY <1>4 DEF Unlink
<1>5. CASE Wait(k)
  BY <1>5 DEF Wait, Alive
<1>6. CASE Signal(k)
  BY <1>6 DEF Signal, Dies
<1> QED
  BY <1>1, <1>2, <1>3, <1>4, <1>5, <1>6 DEF CommandStep

LEMMA DaemonInvariant == ASSUME ~Overlap PROVE Spec => []DaemonInv
<1>1. TypeOK /\ HasTarget /\ DaemonInv /\ [Next]_vars => DaemonInv'
  <2> SUFFICES ASSUME TypeOK, HasTarget, DaemonInv, [Next]_vars PROVE DaemonInv'
      OBVIOUS
  <2>1. CASE UNCHANGED vars
    BY <2>1
       DEF vars, procVars, cmdVars, DaemonInv, OwnsPid, ChecksAlone, CommandsApart,
           ReadStays, UnlinksDead, ServerReachable, PidNamesOwner, AnsweredIsDone,
           NoOwner, Owner, Holds
  <2>2. CASE Next
    BY <2>2, DaemonStart, DaemonFault, DaemonCommand DEF Next
  <2> QED
    BY <2>1, <2>2
<1>2. TypeOK /\ HasTarget /\ [Next]_vars => TypeOK' /\ HasTarget'
  BY TypeStep
<1> QED
  BY <1>1, <1>2, TypeInit, DaemonInit, PTL DEF Spec

-----------------------------------------------------------------------------
(* The theorems hold while no `status` or `stop --force` falls between the *)
(* checks of a start and its write of the pid file, and no two starts make *)
(* their checks at once: the code has no lock that would see to it.        *)

\* One daemon at a time builds or serves the entry, and the pid file names it,
\* through crashes, hung builds, reused pids and commands that act on what they
\* read of the file earlier.
THEOREM OneDaemonAtATime == ASSUME ~Overlap PROVE Spec => []OneDaemon
<1>1. DaemonInv => OneDaemon
  BY DEF DaemonInv, OwnsPid, Owner, OneDaemon
<1> QED
  BY <1>1, DaemonInvariant, PTL

\* No start reclaims the socket of a daemon that serves, and no daemon that
\* leaves removes it.
THEOREM ServersStayReachable == ASSUME ~Overlap PROVE Spec => []ServerReachable
<1>1. DaemonInv => ServerReachable
  BY DEF DaemonInv
<1> QED
  BY <1>1, DaemonInvariant, PTL

\* `status` answers that nothing runs only when nothing builds or serves, that a
\* daemon runs only when one serves at the path, and that one is present only when
\* the recorded process is a daemon from its build to its last drop, or when its
\* pid has been given to another process.
THEOREM StatusIsTruthful == ASSUME ~Overlap PROVE Spec => StatusTruthful
<1> DEFINE Truthful(k) ==
      /\ cmd'[k] = "absent" => \A p \in Procs : ~Holds(p)
      /\ cmd'[k] = "done" /\ served'[k] => \E p \in Procs : sock = p /\ pc[p] = "serving"
      /\ cmd'[k] = "done" /\ ~served'[k] =>
            \E p \in Procs :
               /\ pidfile = p
               /\ Holds(p) \/ pc[p] \in {"closed", "leaving"} \/ p \in stranger
    Answering == \A k \in Commands : kind[k] = "status" /\ cmd[k] \in InFlight => Truthful(k)
<1>1. TypeOK /\ HasTarget /\ DaemonInv /\ [Next]_vars => [Answering]_vars
  <2> SUFFICES ASSUME TypeOK, DaemonInv, Next, NEW k \in Commands,
                      kind[k] = "status", cmd[k] \in InFlight
               PROVE  Truthful(k)
    OBVIOUS
  <2>1. CASE UNCHANGED cmd
    BY <2>1 DEF InFlight
  <2>2. ASSUME NEW j \in Commands, j # k, \/ \E kd \in Kinds : Begin(j, kd)
                                         \/ CommandStep(j)
        PROVE  Truthful(k)
    <3>1. cmd'[k] = cmd[k]
      BY <2>2 DEF TypeOK, Begin, CommandStep, Connect, ReadRecorded, Unlink, Wait, Signal, Go
    <3>2. QED
      BY <3>1 DEF InFlight
  <2>3. CASE Connect(k)
    BY <2>3 DEF Connect, Go, Answers, TypeOK
  <2>4. CASE ReadRecorded(k)
    <3>1. CASE pidfile = None
      BY <2>4, <3>1, DaemonAssumption
         DEF ReadRecorded, Go, TypeOK, DaemonInv, OwnsPid, Owner, KeepFiles, procVars
    <3>2. CASE pidfile # None
      <4>1. PICK p \in Procs : pidfile = p
        BY <3>2 DEF TypeOK
      <4>2. cmd'[k] = "done" => Alive(p)
        BY <2>4, <3>2, <4>1 DEF ReadRecorded, Go, TypeOK
      <4>3. Alive(p) => Holds(p) \/ pc[p] \in {"closed", "leaving"} \/ p \in stranger
        BY <4>1 DEF Alive, DaemonInv, PidNamesOwner, Owner, Holds, Running, Checks, Holding,
                    Binding, Leaving
      <4>4. cmd'[k] # "absent"
        BY <2>4, <3>2 DEF ReadRecorded, Go, TypeOK
      <4>5. served'[k] = FALSE
        BY <2>4 DEF ReadRecorded, TypeOK, DaemonInv, AnsweredIsDone
      <4>6. QED
        BY <4>1, <4>2, <4>3, <4>4, <4>5
    <3>3. QED
      BY <3>1, <3>2
  <2>5. CASE Unlink(k)
    BY <2>5 DEF Unlink, Go, TypeOK, DaemonInv, UnlinksDead, NoOwner, Owner
  <2>6. CASE Wait(k)
    BY <2>6 DEF Wait, Go, TypeOK
  <2>7. CASE Signal(k)
    BY <2>7 DEF Signal, Go, TypeOK
  <2>8. CASE \E kd \in Kinds : Begin(k, kd)
    BY <2>8 DEF Begin, InFlight
  <2>9. CASE \E p \in Procs : Probe(p) \/ StartStep(p) \/ Crash(p) \/ Hang(p) \/ Reuse(p)
    <3>1. UNCHANGED cmd
      BY <2>9
         DEF Probe, StartStep, ReadPid, WritePid, Boot, Bind, ProbeBound, Reclaim, CloseServer,
             RemoveSocket, DropPid, Exit, Crash, Hang, Reuse, Keep, cmdVars
    <3>2. QED
      BY <2>1, <3>1
  <2>10. QED
    BY <2>2, <2>3, <2>4, <2>5, <2>6, <2>7, <2>8, <2>9 DEF Next, CommandStep
<1>2. Spec => []TypeOK /\ []HasTarget
  BY TypeInit, TypeStep, PTL DEF Spec
<1>3. QED
  BY <1>1, <1>2, DaemonInvariant, PTL DEF Spec, StatusTruthful

=============================================================================
