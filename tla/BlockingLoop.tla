----------------------------- MODULE BlockingLoop -----------------------------
(***************************************************************************)
(* The use of the queue that include/queue/simpleQ.h describes in lines    *)
(* 13-18, with the blocking calls and nothing else: a producer repeats     *)
(* P_get, write, P_send, and a consumer C_recv, use, C_return.  The header *)
(* of the implementation calls P_send and C_return optional (lines 32 and  *)
(* 38 of simpleQ_mpmc_ar.h): left out, the carrier a thread holds is       *)
(* released only when the next call has already found a particle, so a     *)
(* thread may wait while holding one.                                      *)
(***************************************************************************)
EXTENDS ParticleQueue

ASSUME LoopAssumption ==
  /\ Producers \cap Consumers = {}
  /\ ~EnqueueMayFail
  /\ Cardinality(InitParticles) > Cardinality(Producers) + Cardinality(Consumers)

GetOrRecv(t) == Call(t, IF t \in Producers THEN "P_get" ELSE "C_recv")

LoopStep(t) == InCall(t) \/ Reset(t) \/ GetOrRecv(t)

LoopNext == \E t \in Threads : LoopStep(t)
LoopSpec == Init /\ [][LoopNext]_vars /\ \A t \in Threads : WF_vars(LoopStep(t))

-----------------------------------------------------------------------------
(* Frames keep flowing: whatever the threads hold while they wait, again   *)
(* and again a producer gets a frame and a consumer receives one.          *)
FramesFlow ==
  /\ []<>(\E t \in Producers : pc[t] = "P_assign")
  /\ []<>(\E t \in Consumers : pc[t] = "C_assign")
=============================================================================
