---------------------------- MODULE MCLoadByIDs ----------------------------
(* Instances of LoadByIDs for TLC. *)
EXTENDS LoadByIDs, TLC

R(n, r) == [n |-> n, ref |-> r]

\* The rows at first: 1 refers to 2 and 2 to 3; or 1 and 2 to 3, which is not there.
Path == (1 :> R(0, 2)) @@ (2 :> R(0, 3)) @@ (3 :> R(0, None))
Fork == (1 :> R(0, 3)) @@ (2 :> R(0, 3)) @@ (3 :> NoRow)

Program(rows, hasLocal, hasRedis, shared, refs, requests, loads, written) ==
    [hasLocal |-> hasLocal, hasRedis |-> hasRedis, shared |-> shared, rows |-> rows, refs |-> refs,
     requests |-> requests, calls |-> loads, writes |-> written]

Programs == {
    \* The local cache of the process and Redis; one that is a request cache.
    Program(Path, TRUE, TRUE, TRUE, {None}, {<<1>>, <<2, 1, 2>>}, 2, 1),
    Program(Fork, TRUE, TRUE, FALSE, {None}, {<<1, 2>>}, 2, 1),
    \* One of the two, or none.
    Program(Path, TRUE, FALSE, TRUE, {2, None}, {<<1, 1>>}, 2, 2),
    Program(Fork, FALSE, TRUE, FALSE, {1, None}, {<<3, 1>>}, 2, 2),
    Program(Fork, FALSE, FALSE, FALSE, {None}, {<<1, 3, 1, 3>>}, 2, 2),
    \* A load, writes and clears of one row after another.
    Program(Fork, TRUE, TRUE, TRUE, {None}, {<<3>>}, 1, 3)}
=============================================================================
