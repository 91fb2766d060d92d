--------------------------- MODULE MCPoolHistory ---------------------------
(* An instance of PoolHistory for TLC, with the curves and fees of MCPool. *)
EXTENDS MCPool, PoolHistory
=============================================================================
