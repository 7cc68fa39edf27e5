------------------------------ MODULE WorkRounds ------------------------------
(***************************************************************************)
(* What the semaphore of include/common/s4semaphore.h is for: work done in *)
(* rounds.  A round offers every slot of the workspace, each slot is taken *)
(* by one worker, and the next round starts when no slot is being worked   *)
(* on and none is left from the round before.                              *)
(***************************************************************************)
CONSTANTS Slots, Workers, Nobody

VARIABLES
  todo,     \* slots of this round nobody has taken
  worker    \* worker[s]: who works on slot s, or Nobody

rvars == <<todo, worker>>

RInit == todo = {} /\ worker = [s \in Slots |-> Nobody]

StartRound ==
  /\ todo = {} /\ \A s \in Slots : worker[s] = Nobody
  /\ todo' = Slots
  /\ UNCHANGED worker

Take(w, s) ==
  /\ s \in todo /\ \A z \in Slots : worker[z] # w
  /\ todo' = todo \ {s}
  /\ worker' = [worker EXCEPT ![s] = w]

Finish(w, s) ==
  /\ worker[s] = w
  /\ worker' = [worker EXCEPT ![s] = Nobody]
  /\ UNCHANGED todo

RNext == StartRound \/ \E w \in Workers, s \in Slots : Take(w, s) \/ Finish(w, s)
RSpec == RInit /\ [][RNext]_rvars
=============================================================================
