-------------------------- MODULE MCFlushTransaction --------------------------
(* Instances of FlushTransaction for TLC. *)
EXTENDS FlushTransaction

CONSTANTS a, b, c, s, t, p, q, f1, f2

OnePool  == [y \in Types |-> p]
TwoPools == [y \in Types |-> IF y = s THEN p ELSE q]
TypeOfAB == [x \in Entities |-> IF x = c THEN t ELSE s]
AtoC     == [x \in Entities |-> IF x = a THEN {c} ELSE {}]
NoRefs   == [x \in Entities |-> {}]
Cycle    == [x \in Entities |-> IF x = a THEN {b} ELSE IF x = b THEN {a} ELSE {}]

\* One pool, flushers used once, new entities of which one references another.
Exact == [entities |-> {a, b, c}, flushers |-> {f1}, pool |-> OnePool, new |-> {a, c},
          refs |-> AtoC, upserts |-> {}, oneShot |-> TRUE, flushes |-> 3, changes |-> 2]

\* Two pools and two flushers of one engine.
Shared == [entities |-> {a, c}, flushers |-> {f1, f2}, pool |-> TwoPools, new |-> {c},
           refs |-> NoRefs, upserts |-> {}, oneShot |-> FALSE, flushes |-> 2, changes |-> 1]

\* One pool, flushers used again after they failed, were cleared or overtaken.
Reuse == [entities |-> {a, c}, flushers |-> {f1, f2}, pool |-> OnePool, new |-> {c},
          refs |-> NoRefs, upserts |-> {}, oneShot |-> FALSE, flushes |-> 3, changes |-> 1]

\* A reference in another pool, an entity flushed on duplicate key.
Referenced == [entities |-> {a, b, c}, flushers |-> {f1}, pool |-> TwoPools, new |-> {a, b, c},
               refs |-> AtoC, upserts |-> {b}, oneShot |-> FALSE, flushes |-> 2, changes |-> 1]

\* New entities that reference each other.
Cyclical == [entities |-> {a, b}, flushers |-> {f1}, pool |-> TwoPools, new |-> {a, b},
             refs |-> Cycle, upserts |-> {}, oneShot |-> FALSE, flushes |-> 2, changes |-> 1]

Programs == {Exact, Shared, Reuse, Referenced, Cyclical}
=============================================================================
