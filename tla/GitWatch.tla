------------------------------ MODULE GitWatch -------------------------------
(***************************************************************************)
(* The reflog watches behind `recent_commits` (au-engine/src/gitwatch.rs): *)
(* armed on demand and counted per working tree, each broadcasting the     *)
(* tree whose reflog moved to every receiver.                              *)
(*                                                                         *)
(* A commit is a number, later commits larger ones, and each tree has a    *)
(* history of its own: trees are not worktrees of one repository.  The     *)
(* reflog of a tree exists from its first commit on, and an event about it *)
(* is raised after the commit is there to be read.                         *)
(***************************************************************************)
EXTENDS Naturals, Sequences, FiniteSets

CONSTANTS
    TreeList,     \* the git working trees of the members, in order
    Receivers,    \* holders of a broadcast receiver
    EventBuffer,  \* GIT_EVENT_BUFFER
    MaxCommits    \* bound on commits

ASSUME GitWatchAssumption ==
    EventBuffer \in Nat \ {0} /\ MaxCommits \in Nat

Trees == {TreeList[i] : i \in DOMAIN TreeList}

ASSUME FinitelyMany == TreeList \in Seq(Trees) /\ IsFiniteSet(Receivers)

VARIABLES
    log,     \* the commits of each tree, newest first
    clock,   \* commits made so far
    refs,    \* watched: the interest count of each tree, 0 for not watched
    raised,  \* trees whose watcher has an event to broadcast
    inbox,   \* the events each receiver has yet to take
    lagged,  \* receivers that lost events to the bound
    open     \* receivers handed out and not dropped

gitVars   == <<log, clock>>
watchVars == <<refs, raised>>
busVars   == <<inbox, lagged, open>>

GitInit ==
    /\ log = [t \in Trees |-> <<>>] /\ clock = 0
    /\ refs = [t \in Trees |-> 0] /\ raised = {}
    /\ inbox = [r \in Receivers |-> <<>>] /\ lagged = {} /\ open = {}

\* One or more commits land in a tree with one move of its reflog.
Land(t, n) ==
    /\ clock + n <= MaxCommits
    /\ clock' = clock + n
    /\ log' = [log EXCEPT ![t] = [i \in 1..n |-> clock + n + 1 - i] \o @]
    /\ raised' = IF refs[t] > 0 THEN raised \cup {t} ELSE raised
    /\ UNCHANGED <<refs, busVars>>

\* tx.send: every receiver gets the tree; a full one loses its oldest event.
Notify(t) ==
    /\ t \in raised /\ raised' = raised \ {t}
    /\ inbox' = [r \in Receivers |->
            CASE r \notin open                   -> inbox[r]
              [] Len(inbox[r]) < EventBuffer     -> Append(inbox[r], t)
              [] OTHER                  -> Append(Tail(inbox[r]), t)]
    /\ lagged' = lagged \cup {r \in open : Len(inbox[r]) = EventBuffer}
    /\ UNCHANGED <<gitVars, refs, open>>

\* The trees an arm of ts counts: those watched already, and those with a
\* reflog to watch.
Armable(ts) == {t \in ts : refs[t] > 0 \/ log[t] # <<>>}

Arm(ts)    == refs' = [t \in Trees |-> IF t \in Armable(ts) THEN refs[t] + 1
                                       ELSE refs[t]]

\* Take one off each tree's count; at none its watcher goes, and with it what
\* it had yet to broadcast.
Disarm(ts) ==
    /\ refs' = [t \in Trees |-> IF t \in ts /\ refs[t] > 0 THEN refs[t] - 1
                                ELSE refs[t]]
    /\ raised' = {t \in raised : refs'[t] > 0}
=============================================================================
