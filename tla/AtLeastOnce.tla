----------------------------- MODULE AtLeastOnce -----------------------------
(***************************************************************************)
(* What a stream with consumer groups promises: entries are published one  *)
(* after another; a group deals with entries in any order and any number   *)
(* of times, but acknowledges only what it dealt with; an entry is         *)
(* discarded only once every group acknowledged it.                        *)
(***************************************************************************)
EXTENDS Integers

CONSTANT Groups

VARIABLES
    published,  \* entries published so far: 1 .. published
    retained,   \* entries not discarded
    handled,    \* handled[g]: entries group g dealt with at least once
    acked       \* acked[g]: entries group g acknowledged

vars == <<published, retained, handled, acked>>

Init ==
    /\ published = 0 /\ retained = {}
    /\ handled = [g \in Groups |-> {}]
    /\ acked = [g \in Groups |-> {}]

Publish ==
    /\ published' = published + 1
    /\ retained' = retained \cup {published'}
    /\ UNCHANGED <<handled, acked>>

\* A group deals with some entries and acknowledges some it has dealt with.
Serve(g) ==
    /\ \E H \in SUBSET (1 .. published) :
         /\ handled' = [handled EXCEPT ![g] = @ \cup H]
         /\ \E A \in SUBSET handled'[g] : acked' = [acked EXCEPT ![g] = @ \cup A]
    /\ UNCHANGED <<published, retained>>

Discard ==
    /\ \E S \in SUBSET retained :
         /\ \A i \in S, g \in Groups : i \in acked[g]
         /\ retained' = retained \ S
    /\ UNCHANGED <<published, handled, acked>>

Next == Publish \/ Discard \/ \E g \in Groups : Serve(g)

Spec == Init /\ [][Next]_vars
=============================================================================
