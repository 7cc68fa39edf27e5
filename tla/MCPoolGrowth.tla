----------------------------- MODULE MCPoolGrowth -----------------------------
(* TLC instances of PoolGrowth: the growing threads. *)
EXTENDS PoolGrowth
CONSTANTS g1, g2, g3
===============================================================================
