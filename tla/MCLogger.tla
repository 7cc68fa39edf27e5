------------------------------- MODULE MCLogger -------------------------------
(* TLC instances of Logger. *)
EXTENDS Logger
CONSTANTS folder1, folder2, pre1, pre2
SomeFiles ==
  {{}, {"all_pure"}, {"all_pure", "err_pure"}, {"all", "err_pure"}, {"all", "all_pure", "err"}, Kinds}
===============================================================================
