----------------------------- MODULE MCLazyFlush -----------------------------
(* Instances of LazyFlush for TLC.                                         *)
EXTENDS LazyFlush, TLC

CONSTANTS r1, r2, p1, p2

\* One table, rows of different modulo.
OnePool == [r \in Rows |-> p1]
TwoIds == r1 :> 1 @@ r2 :> 2

\* Two pools.
TwoPools == r1 :> p1 @@ r2 :> p2
=============================================================================
