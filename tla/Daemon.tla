------------------------------- MODULE Daemon --------------------------------
(***************************************************************************)
(* The daemons of one entry and the commands about them (au-cli            *)
(* daemon.rs; the bind and the teardown of au-engine serve.rs).  All they  *)
(* share is two paths: the socket, bound after the cold build, and the pid *)
(* file, written before it.  Nothing holds a lock: what a command read of  *)
(* the two may be stale when it acts on it.  A process is its pid.         *)
(***************************************************************************)
EXTENDS Naturals

CONSTANTS
    Procs,       \* processes that run `start`, each once
    Commands,    \* runs of `stop`, `stop --force` and `status`
    Kinds,       \* which of the three
    Overlap,     \* commands may fall into the checks of a start
    MaxCrashes,  \* bound on daemons that die at a point of their own
    MaxHangs,    \* bound on builds that never end
    MaxReuses,   \* bound on pids given to an unrelated process
    None         \* no file, no pid

ASSUME DaemonAssumption ==
    /\ Kinds \subseteq {"stop", "force", "status"} /\ Overlap \in BOOLEAN
    /\ MaxCrashes \in Nat /\ MaxHangs \in Nat /\ MaxReuses \in Nat
    /\ None \notin Procs

VARIABLES
    pc,         \* where each start is
    pidfile,    \* the pid recorded in <hash>.pid
    sock,       \* whose bind made the socket file that is there
    listening,  \* processes whose listener is open
    shutdown,   \* servers asked to shut down
    stranger,   \* pids an unrelated process has been given
    cmd,        \* where each command is
    kind,       \* what it is
    served,     \* a server acknowledged its shutdown request
    target,     \* the pid it read
    found,      \* history: the daemons there when it began
    faults      \* crashes, hangs and reused pids so far

procVars == <<pc, listening, shutdown, stranger>>
cmdVars  == <<cmd, kind, served, target, found>>
vars == <<procVars, pidfile, sock, cmdVars, faults>>

Checks   == {"probed", "clear"}
Binding  == {"bind", "inuse", "stale", "rebind"}
Holding  == {"boot", "hung"} \cup Binding \cup {"serving"}
Leaving  == {"closed", "leaving", "exiting"}
Running  == Checks \cup Holding \cup Leaving
InFlight == {"connect", "readpid", "unlink", "window", "term", "wait", "kill"}

Alive(p)   == pc[p] \in Running \/ p \in stranger
Holds(p)   == pc[p] \in Holding
Answers    == sock \in listening      \* a connect to the path succeeds
GoTo(p, l) == pc' = [pc EXCEPT ![p] = l]
Go(k, l) == cmd' = [cmd EXCEPT ![k] = l]

Init ==
    /\ pc = [p \in Procs |-> "off"] /\ pidfile = None /\ sock = None
    /\ listening = {} /\ shutdown = {} /\ stranger = {}
    /\ cmd = [k \in Commands |-> "idle"] /\ kind = [k \in Commands |-> None]
    /\ served = [k \in Commands |-> FALSE]
    /\ target = [k \in Commands |-> None] /\ found = [k \in Commands |-> {}]
    /\ faults = [crash |-> 0, hang |-> 0, reuse |-> 0]

-----------------------------------------------------------------------------
(* `start`.                                                                *)

Keep == UNCHANGED <<shutdown, stranger, cmdVars, faults>>

\* Unless commands overlap, a start makes its checks alone.
MayCheck(p) ==
    Overlap \/ /\ \A q \in Procs : pc[q] \notin Checks
               /\ \A k \in Commands : kind[k] # "stop" => cmd[k] \notin InFlight

\* The friendly pre-check.
Probe(p) ==
    /\ pc[p] = "off" /\ p \notin stranger /\ MayCheck(p)
    /\ GoTo(p, IF Answers THEN "gone" ELSE "probed")
    /\ UNCHANGED <<pidfile, sock, listening>> /\ Keep

\* Mutant of ReadPid: what does not answer its socket is taken to be gone.
ReadNothing(p) ==
    /\ pc[p] = "probed"
    /\ GoTo(p, "clear")
    /\ UNCHANGED <<pidfile, sock, listening>> /\ Keep

\* A live recorded pid is a daemon that boots; a dead one is overwritten.
ReadPid(p) ==
    /\ pc[p] = "probed"
    /\ GoTo(p, IF pidfile # None /\ Alive(pidfile) THEN "gone" ELSE "clear")
    /\ UNCHANGED <<pidfile, sock, listening>> /\ Keep

WritePid(p) ==
    /\ pc[p] = "clear"
    /\ pidfile' = p /\ GoTo(p, "boot")
    /\ UNCHANGED <<sock, listening>> /\ Keep

\* recover_crashed_saga, the watch, which may fail, and the cold build.
Boot(p) ==
    /\ pc[p] = "boot"
    /\ GoTo(p, "bind") \/ GoTo(p, "leaving")
    /\ UNCHANGED <<pidfile, sock, listening>> /\ Keep

\* bind(2) makes the path or finds it taken.
Bind(p) ==
    /\ pc[p] \in {"bind", "rebind"}
    /\ IF sock = None
       THEN /\ sock' = p /\ listening' = listening \cup {p}
            /\ GoTo(p, "serving")
       ELSE /\ GoTo(p, IF pc[p] = "bind" THEN "inuse" ELSE "leaving")
            /\ UNCHANGED <<sock, listening>>
    /\ UNCHANGED pidfile /\ Keep

\* The path is taken: a server that answers is left be.
ProbeBound(p) ==
    /\ pc[p] = "inuse"
    /\ GoTo(p, IF Answers THEN "leaving" ELSE "stale")
    /\ UNCHANGED <<pidfile, sock, listening>> /\ Keep

Reclaim(p) ==
    /\ pc[p] = "stale"
    /\ GoTo(p, IF sock = None THEN "leaving" ELSE "rebind")
    /\ sock' = None
    /\ UNCHANGED <<pidfile, listening>> /\ Keep

\* Mutant of CloseServer: the pid file is dropped first.
DropPidFirst(p) ==
    /\ pc[p] = "serving" /\ p \in shutdown
    /\ listening' = listening \ {p} /\ GoTo(p, "closed")
    /\ pidfile' = None /\ UNCHANGED sock /\ Keep

\* ServeHandle::drop: the runtime goes, the listener with it, ...
CloseServer(p) ==
    /\ pc[p] = "serving" /\ p \in shutdown
    /\ listening' = listening \ {p} /\ GoTo(p, "closed")
    /\ UNCHANGED <<pidfile, sock>> /\ Keep

\* ... and then whatever socket is at the path.
RemoveSocket(p) ==
    /\ pc[p] = "closed"
    /\ sock' = None /\ GoTo(p, "leaving")
    /\ UNCHANGED <<pidfile, listening>> /\ Keep

\* PidFile::drop: whatever pid file is at the path.
DropPid(p) ==
    /\ pc[p] = "leaving"
    /\ pidfile' = None /\ GoTo(p, "exiting")
    /\ UNCHANGED <<sock, listening>> /\ Keep

Exit(p) ==
    /\ pc[p] = "exiting" /\ GoTo(p, "gone")
    /\ UNCHANGED <<pidfile, sock, listening>> /\ Keep

StartStep(p) ==
    \/ ReadPid(p) \/ WritePid(p) \/ Boot(p) \/ Bind(p) \/ ProbeBound(p)
    \/ Reclaim(p) \/ CloseServer(p) \/ RemoveSocket(p) \/ DropPid(p) \/ Exit(p)

-----------------------------------------------------------------------------
(* What befalls a process.                                                 *)

\* It dies where it is: no drop runs, both files stay.
Dies(p) ==
    /\ pc' = IF pc[p] \in Running THEN [pc EXCEPT ![p] = "gone"] ELSE pc
    /\ listening' = listening \ {p} /\ stranger' = stranger \ {p}

Crash(p) ==
    /\ pc[p] \in Running /\ faults.crash < MaxCrashes
    /\ Dies(p)
    /\ faults' = [faults EXCEPT !.crash = @ + 1]
    /\ UNCHANGED <<pidfile, sock, shutdown, cmdVars>>

Hang(p) ==
    /\ pc[p] = "boot" /\ faults.hang < MaxHangs
    /\ GoTo(p, "hung")
    /\ faults' = [faults EXCEPT !.hang = @ + 1]
    /\ UNCHANGED <<pidfile, sock, listening, shutdown, stranger, cmdVars>>

Reuse(p) ==
    /\ pc[p] = "gone" /\ p \notin stranger /\ faults.reuse < MaxReuses
    /\ stranger' = stranger \cup {p}
    /\ faults' = [faults EXCEPT !.reuse = @ + 1]
    /\ UNCHANGED <<pc, pidfile, sock, listening, shutdown, cmdVars>>

-----------------------------------------------------------------------------
(* `stop`, `stop --force` and `status`.                                    *)

KeepFiles == UNCHANGED <<procVars, pidfile, sock, faults>>

Begin(k, kd) ==
    /\ cmd[k] = "idle"
    /\ Overlap \/ kd = "stop" \/ \A p \in Procs : pc[p] \notin Checks
    /\ kind' = [kind EXCEPT ![k] = kd] /\ Go(k, "connect")
    /\ found' = [found EXCEPT ![k] = {p \in Procs : Holds(p)}]
    /\ UNCHANGED <<served, target>> /\ KeepFiles

\* The request over the socket: lifecycle for `status`, shutdown for the
\* others.  Refused, or ended before the answer, it tells nothing.
Connect(k) ==
    /\ cmd[k] = "connect"
    /\ \/ /\ Answers
          /\ Go(k, IF kind[k] = "force" THEN "readpid" ELSE "done")
          /\ served' = [served EXCEPT ![k] = TRUE]
       \/ /\ Go(k, IF kind[k] = "stop" THEN "done" ELSE "readpid")
          /\ UNCHANGED served
    /\ \/ Answers /\ kind[k] # "status" /\ shutdown' = shutdown \cup {sock}
       \/ (served'[k] => kind[k] = "status") /\ UNCHANGED shutdown
    /\ UNCHANGED <<kind, target, found, pc, listening, stranger, pidfile, sock,
                   faults>>

\* Mutant of ReadRecorded: a recorded pid whose socket is silent is stale.
ReadStale(k) ==
    /\ cmd[k] = "readpid"
    /\ target' = [target EXCEPT ![k] = pidfile]
    /\ Go(k, IF pidfile = None \/ ~served[k]
             THEN IF kind[k] = "status" THEN "absent" ELSE "done"
             ELSE "window")
    /\ UNCHANGED <<kind, served, found>> /\ KeepFiles

\* `status` answers that nothing runs at "absent", all else ends at "done".
ReadRecorded(k) ==
    /\ cmd[k] = "readpid"
    /\ target' = [target EXCEPT ![k] = pidfile]
    /\ Go(k, IF pidfile = None
                THEN IF kind[k] = "status" THEN "absent" ELSE "done"
                ELSE IF ~Alive(pidfile) THEN "unlink"
                ELSE IF kind[k] = "status" THEN "done"
                ELSE IF served[k] THEN "window" ELSE "term")
    /\ UNCHANGED <<kind, served, found>> /\ KeepFiles

\* Remove whatever pid file is at the path by now.
Unlink(k) ==
    /\ cmd[k] = "unlink"
    /\ pidfile' = None
    /\ Go(k, IF kind[k] = "status" THEN "absent" ELSE "done")
    /\ UNCHANGED <<kind, served, target, found, procVars, sock, faults>>

\* wait_for_exit: gone in time, or the window is over.
Wait(k) ==
    /\ cmd[k] \in {"window", "wait"}
    /\ \/ ~Alive(target[k]) /\ Go(k, "unlink")
       \/ /\ Alive(target[k])
          /\ Go(k, IF cmd[k] = "window" THEN "term" ELSE "kill")
    /\ UNCHANGED <<kind, served, target, found>> /\ KeepFiles

\* Mutant of Signal: it goes no further than SIGTERM.
TermOnly(k) ==
    /\ cmd[k] \in {"term", "kill"}
    /\ \/ cmd[k] = "term" /\ Dies(target[k])
       \/ UNCHANGED <<pc, listening, stranger>>
    /\ Go(k, IF cmd[k] = "term" THEN "wait" ELSE "unlink")
    /\ UNCHANGED <<kind, served, target, found, pidfile, sock, shutdown, faults>>

\* SIGTERM, which need not take, and SIGKILL, which does.
Signal(k) ==
    /\ cmd[k] \in {"term", "kill"}
    /\ \/ Dies(target[k])
       \/ cmd[k] = "term" /\ UNCHANGED <<pc, listening, stranger>>
    /\ Go(k, IF cmd[k] = "term" THEN "wait" ELSE "unlink")
    /\ UNCHANGED <<kind, served, target, found, pidfile, sock, shutdown, faults>>

CommandStep(k) ==
    \/ Connect(k) \/ ReadRecorded(k) \/ Unlink(k) \/ Wait(k) \/ Signal(k)

-----------------------------------------------------------------------------

Next ==
    \/ \E p \in Procs :
        Probe(p) \/ StartStep(p) \/ Crash(p) \/ Hang(p) \/ Reuse(p)
    \/ \E k \in Commands :
        \/ \E kd \in Kinds : Begin(k, kd)
        \/ CommandStep(k)

Spec == Init /\ [][Next]_vars

\* A process that runs goes on, a command that began too; nobody has to run
\* one, and nothing has to crash, hang or take a pid.
FairSpec ==
    /\ Spec
    /\ \A p \in Procs : WF_vars(StartStep(p))
    /\ \A k \in Commands : WF_vars(CommandStep(k))
-----------------------------------------------------------------------------
(* Properties.                                                             *)

Stages == Running \cup {"off", "gone"}

TypeOK ==
    /\ pc \in [Procs -> Stages]
    /\ pidfile \in Procs \cup {None} /\ sock \in Procs \cup {None}
    /\ listening \subseteq {p \in Procs : pc[p] = "serving"}
    /\ shutdown \subseteq Procs
    /\ stranger \subseteq {p \in Procs : pc[p] = "gone"}
    /\ cmd \in [Commands -> InFlight \cup {"idle", "absent", "done"}]
    /\ kind \in [Commands -> Kinds \cup {None}]
    /\ served \in [Commands -> BOOLEAN]
    /\ target \in [Commands -> Procs \cup {None}]
    /\ found \in [Commands -> SUBSET Procs]
    /\ faults \in [{"crash", "hang", "reuse"} -> Nat]

\* One daemon at a time builds or serves the entry, and the recorded pid is its
\* own, from before its build until it has let its socket go: a start that finds
\* another before its socket is bound, hung in its build or draining stands back,
\* and `stop --force` and `status` have a handle on it.
OneDaemon == \A p \in Procs : Holds(p) => pidfile = p

\* A daemon that serves is the one the path leads to: no start reclaims its
\* socket, and no daemon that leaves removes it.
ServerReachable == \A p \in listening : sock = p

\* When `status` answers that nothing runs, no process builds or serves the
\* entry; that a daemon runs, the one at the path serves; that one is present,
\* the recorded process builds, serves or winds down, or its pid has been given
\* to another: a kill probe cannot tell.
StatusTruthful ==
    [][\A k \in Commands : kind[k] = "status" /\ cmd[k] \in InFlight =>
         /\ cmd'[k] = "absent" => \A p \in Procs : ~Holds(p)
         /\ cmd'[k] = "done" /\ served'[k] => \E p \in Procs : sock = p /\ pc[p] = "serving"
         /\ cmd'[k] = "done" /\ ~served'[k] =>
               \E p \in Procs :
                  /\ pidfile = p
                  /\ Holds(p) \/ pc[p] \in {"closed", "leaving"} \/ p \in stranger]_vars

\* `stop --force` gets rid of each daemon it found, whatever its stage: one
\* that boots, hangs or serves is gone in the end.
ForceStops ==
    \A k \in Commands, p \in Procs :
        kind[k] = "force" /\ p \in found[k] ~> pc[p] = "gone"
=============================================================================
