---------------------------- MODULE MCBlockingLoop ----------------------------
(* TLC instances of BlockingLoop. *)
EXTENDS BlockingLoop
CONSTANTS p, c, d, d1, d2, d3, d4, x0
===============================================================================
