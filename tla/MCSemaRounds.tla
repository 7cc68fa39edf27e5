----------------------------- MODULE MCSemaRounds -----------------------------
(* TLC instances of SemaRounds: the worker threads. *)
EXTENDS SemaRounds
CONSTANTS w1, w2, w3
===============================================================================
