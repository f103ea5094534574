---------------------------- MODULE MCEntityCache ----------------------------
(* Instances of EntityCache for TLC.                                       *)
EXTENDS EntityCache, TLC

\* One engine per process.
EngineIsProc == [e \in Engines |-> e]

\* Processes of one engine each are interchangeable, and so are columns.
Alike == Permutations(Engines) \cup Permutations(Cols)

\* One engine of a UUID entity, four writes and a crash; two processes, two writes.
Alone == {[engines |-> {e}, uuid |-> TRUE, writes |-> 4, crashes |-> 1] : e \in Engines}
Both  == [engines |-> Engines, uuid |-> FALSE, writes |-> 2, crashes |-> 0]

Programs == Alone \cup {Both}
=============================================================================
