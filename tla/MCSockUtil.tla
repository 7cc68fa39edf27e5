------------------------------ MODULE MCSockUtil ------------------------------
(* TLC instances of SockUtil: the threads may be exchanged for one another. *)
EXTENDS SockUtil, TLC
CONSTANTS t1, t2, host1
ExchangeThreads == Permutations(Threads)
===============================================================================
