---------------------------- MODULE MCSubscriptions ----------------------------
(* Values of Subscriptions' constants for TLC.                             *)
EXTENDS Subscriptions

CONSTANTS note, super, sub, s1

Link(f, surface, slot) == [to |-> f, surface |-> surface, slot |-> slot]

\* An instance that names file 2 twice in its body and once in a typed field; a
\* definition that names it once; one that descends from file 1.
Meanings ==
    (note  :> [kind |-> "instance", claims |-> {2}, supers |-> {}, fields |-> <<>>,
               links |-> <<Link(2, 0, FALSE), Link(2, 0, FALSE), Link(2, 2, TRUE)>>]) @@
    (super :> [kind |-> "typedef", claims |-> {}, supers |-> {}, fields |-> <<1>>,
               links |-> <<Link(2, 0, FALSE)>>]) @@
    (sub   :> [kind |-> "typedef", claims |-> {}, supers |-> {1},
               fields |-> <<1, 1>>, links |-> <<>>])

\* The tables hold what they should; TLC computes each once, to see this.
ASSUME TablesAssumption ==
    /\ Projections = [ch \in Channels |-> [k \in KnowledgeBases |-> Project(ch, k)]]
    /\ Views = [ch \in Channels |->
                  [k \in KnowledgeBases |-> Kept(ch, Snapshot(ch, k))]]
    /\ NetChanges = [ch \in Channels |->
          [p \in Snapshots(ch) \X Snapshots(ch) |-> NetChange(ch, p[1], p[2])]]
==============================================================================
