---------------------------- MODULE MCEventBroker ----------------------------
(* Instances of EventBroker for TLC.                                       *)
EXTENDS EventBroker, TLC

CONSTANTS g1, g2, p1, p2, p3, c1, c2

\* Two groups of one consumer name each; g1's name is run by two processes.
TwoGroupsOf == p1 :> g1 @@ p3 :> g2
OneNameOf == [p \in {p1, p3} |-> c1]

\* One group with two names, one process each.
OneGroupOf == [p \in {p1, p2} |-> g1]
TwoNamesOf == p1 :> c1 @@ p2 :> c2

\* One group with one name that two processes compete for.
SharedNameOf == [p \in {p1, p2} |-> c1]
=============================================================================
