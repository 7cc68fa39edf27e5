--------------------------- MODULE PoolGrowthProofs ---------------------------
(***************************************************************************)
(* Theorems about malloc_particle for any number of threads, any size of a *)
(* growth and any memory: _depth is never too high, although one of its    *)
(* two increments is not protected, and growths take effect at one instant.*)
(***************************************************************************)
EXTENDS PoolGrowth, TLAPS

(* A thread holds the mutex in the critical section of its own branch, and *)
(* nowhere else.                                                           *)
MutexHeld ==
  \A t \in Growers :
    /\ pc[t] \in {"each", "count", "count2"} <=> lock = t
    /\ pc[t] \in {"lock", "each", "count"} => all_memalign
    /\ pc[t] \in {"block", "lock2", "count2"} => ~all_memalign

(* What a thread has loaded is not more than what may be counted by now. *)
LoadedIsOld ==
  \A t \in Growers :
    /\ pc[t] = "count" => n[t] < Num /\ reg[t] + 1 <= hoster + made
    /\ pc[t] = "count2" => reg[t] + Num <= hoster + made
    /\ pc[t] = "store" => reg[t] <= hoster + made

GrowthInv == TypeOK /\ MutexHeld /\ LoadedIsOld /\ DepthNeverOver

LEMMA GrowthInit == Init => GrowthInv
BY GrowthAssumption DEF Init, GrowthInv, TypeOK, MutexHeld, LoadedIsOld, DepthNeverOver

LEMMA GrowthStep ==
  ASSUME GrowthInv, NEW t \in Growers, Step(t)
  PROVE  GrowthInv'
<1> USE GrowthAssumption DEF GrowthInv, TypeOK, MutexHeld, LoadedIsOld, DepthNeverOver, Goto, Load
<1>1. CASE Start(t)
  BY <1>1 DEF Start
<1>2. CASE Lock(t)
  BY <1>2 DEF Lock, MutexFree
<1>3. CASE MakeOne(t)
  BY <1>3 DEF MakeOne, MoreToMake
<1>4. CASE CountOne(t)
  BY <1>4 DEF CountOne, Counted
<1>5. CASE MakeOneThrows(t)
  BY <1>5 DEF MakeOneThrows, AfterThrow
<1>6. CASE Unlock(t)
  BY <1>6 DEF Unlock
<1>7. CASE MakeBlock(t)
  BY <1>7 DEF MakeBlock
<1>8. CASE MakeBlockThrows(t)
  BY <1>8 DEF MakeBlockThrows
<1>9. CASE HostBlock(t)
  BY <1>9 DEF HostBlock, MutexFree
<1>10. CASE CountBlock(t)
  BY <1>10 DEF CountBlock
<1>11. CASE LoadAgain(t)
  BY <1>11 DEF LoadAgain
<1>12. CASE CountAgain(t)
  BY <1>12 DEF CountAgain
<1>13. CASE Return(t)
  BY <1>13 DEF Return
<1> QED
  BY <1>1, <1>2, <1>3, <1>4, <1>5, <1>6, <1>7, <1>8, <1>9, <1>10, <1>11, <1>12, <1>13 DEF Step

LEMMA GrowthNext == GrowthInv /\ [Next]_gvars => GrowthInv'
<1> SUFFICES ASSUME GrowthInv, [Next]_gvars PROVE GrowthInv'
  OBVIOUS
<1>1. CASE UNCHANGED gvars
  BY <1>1 DEF gvars, GrowthInv, TypeOK, MutexHeld, LoadedIsOld, DepthNeverOver
<1> QED BY <1>1, GrowthStep DEF Next

(* The variables of malloc_particle keep to their types; n never passes    *)
(* the number of particles asked for.                                      *)
THEOREM GrowthTypes == Spec => []TypeOK
<1>1. GrowthInv => TypeOK
  BY DEF GrowthInv
<1> QED BY GrowthInit, GrowthNext, <1>1, PTL DEF Spec

(* Lost updates of _depth only lower it: it is never more than the         *)
(* particles that have memory and those given to the pool together.        *)
THEOREM DepthIsNeverOver == Spec => []DepthNeverOver
<1>1. GrowthInv => DepthNeverOver
  BY DEF GrowthInv
<1> QED BY GrowthInit, GrowthNext, <1>1, PTL DEF Spec

-----------------------------------------------------------------------------
(* Refinement.  What a step makes of the abstract variables: the memory    *)
(* left, with what a growth under way has taken already, and one thread's  *)
(* outcome.                                                                *)
Left == memory + InProgress
Outcomes == [t \in Growers |-> OutcomeAt(pc[t])]

(* No other thread's part of a critical section changes when t steps.      *)
LEMMA OutcomeBecomes ==
  ASSUME TypeOK, NEW t \in Growers, NEW label, pc' = [pc EXCEPT ![t] = label]
  PROVE  Outcomes' = [Outcomes EXCEPT ![t] = OutcomeAt(label)]
BY DEF TypeOK, Outcomes

LEMMA OutcomeIs ==
  /\ OutcomeAt("idle") = "none" /\ OutcomeAt("each") = "none" /\ OutcomeAt("block") = "none"
  /\ OutcomeAt("load") = "grown" /\ OutcomeAt("lock2") = "grown" /\ OutcomeAt("grown") = "grown"
  /\ OutcomeAt("thrown") = "thrown"
BY DEF OutcomeAt

LEMMA GrowthInitRefines == Init => Atomic!AInit
BY GrowthAssumption DEF Init, Atomic!AInit, InProgress, OutcomeAt

(* The steps of the atomic growth that each step of malloc_particle is.    *)
LEMMA GrowthStepRefines ==
  ASSUME GrowthInv, NEW t \in Growers, Step(t)
  PROVE  \/ Atomic!Grow(t) \/ Atomic!Throw(t) \/ Atomic!Return(t)
         \/ UNCHANGED <<all_memalign, Left, Outcomes>>
<1> USE GrowthAssumption DEF GrowthInv, Goto, Load
<1>0. /\ memory \in Nat /\ Num \in Nat /\ n[t] \in 0..Num
      /\ Outcomes[t] = OutcomeAt(pc[t])
  BY DEF TypeOK, Outcomes
<1>1. CASE Start(t)
  <2>1. Left' = Left
    BY <1>1 DEF Start, Left, InProgress, Making, MutexHeld, TypeOK
  <2>2. Outcomes' = Outcomes
    BY <1>1 DEF Start, Outcomes, OutcomeAt, TypeOK
  <2> QED BY <1>1, <2>1, <2>2 DEF Start
<1>2. CASE Lock(t) \/ MakeOne(t) \/ CountOne(t) \/ HostBlock(t) \/ CountBlock(t) \/ LoadAgain(t) \/ CountAgain(t)
  <2>1. Left' = Left
    <3>1. CASE Lock(t)
      BY <3>1 DEF Lock, MutexFree, Left, InProgress, Making, MutexHeld, TypeOK
    <3>2. CASE MakeOne(t)
      BY <3>2 DEF MakeOne, Left, InProgress, Making, MutexHeld, TypeOK
    <3>3. CASE CountOne(t)
      BY <3>3 DEF CountOne, Left, InProgress, Making, MutexHeld, TypeOK
    <3>4. CASE HostBlock(t) \/ CountBlock(t)
      BY <3>4 DEF HostBlock, CountBlock, Left, InProgress, MutexHeld, TypeOK
    <3>5. CASE LoadAgain(t) \/ CountAgain(t)
      BY <3>5 DEF LoadAgain, CountAgain, Left, InProgress, Making, MutexHeld, TypeOK
    <3> QED BY <1>2, <3>1, <3>2, <3>3, <3>4, <3>5
  <2>2. Outcomes' = Outcomes
    BY <1>2 DEF Lock, MakeOne, CountOne, HostBlock, CountBlock, LoadAgain, CountAgain, Outcomes, OutcomeAt, TypeOK
  <2>3. all_memalign' = all_memalign
    BY <1>2 DEF Lock, MakeOne, CountOne, HostBlock, CountBlock, LoadAgain, CountAgain
  <2> QED BY <2>1, <2>2, <2>3
<1>3. CASE MakeOneThrows(t)
  <2>1. Left < Num /\ Left' = 0 /\ all_memalign
    BY <1>3 DEF MakeOneThrows, MoreToMake, AfterThrow, Left, InProgress, Making, MutexHeld, TypeOK
  <2>2. Outcomes' = [Outcomes EXCEPT ![t] = "thrown"] /\ Outcomes[t] = "none"
    <3>1. pc[t] = "each" /\ pc' = [pc EXCEPT ![t] = "thrown"]
      BY <1>3 DEF MakeOneThrows
    <3>2. Outcomes' = [Outcomes EXCEPT ![t] = OutcomeAt("thrown")]
      BY <3>1, OutcomeBecomes
    <3> QED BY <1>0, <3>1, <3>2, OutcomeIs
  <2> QED BY <1>3, <2>1, <2>2 DEF MakeOneThrows, Atomic!Throw, Left, Outcomes
<1>4. CASE Unlock(t)
  <2>1. Left >= Num /\ Left' = Left - Num
    BY <1>4 DEF Unlock, MoreToMake, Left, InProgress, Making, MutexHeld, TypeOK
  <2>2. Outcomes' = [Outcomes EXCEPT ![t] = "grown"] /\ Outcomes[t] = "none"
    <3>1. pc[t] = "each" /\ pc' = [pc EXCEPT ![t] = "load"]
      BY <1>4 DEF Unlock
    <3>2. Outcomes' = [Outcomes EXCEPT ![t] = OutcomeAt("load")]
      BY <3>1, OutcomeBecomes
    <3> QED BY <1>0, <3>1, <3>2, OutcomeIs
  <2> QED BY <1>4, <2>1, <2>2 DEF Unlock, Atomic!Grow, Left, Outcomes
<1>5. CASE MakeBlock(t)
  <2>1. Left >= Num /\ Left' = Left - Num
    BY <1>5 DEF MakeBlock, Left, InProgress, MutexHeld, TypeOK
  <2>2. Outcomes' = [Outcomes EXCEPT ![t] = "grown"] /\ Outcomes[t] = "none"
    <3>1. pc[t] = "block" /\ pc' = [pc EXCEPT ![t] = "lock2"]
      BY <1>5 DEF MakeBlock
    <3>2. Outcomes' = [Outcomes EXCEPT ![t] = OutcomeAt("lock2")]
      BY <3>1, OutcomeBecomes
    <3> QED BY <1>0, <3>1, <3>2, OutcomeIs
  <2> QED BY <1>5, <2>1, <2>2 DEF MakeBlock, Atomic!Grow, Left, Outcomes
<1>6. CASE MakeBlockThrows(t)
  <2>1. Left < Num /\ Left' = Left /\ ~all_memalign
    BY <1>6 DEF MakeBlockThrows, Left, InProgress, MutexHeld, TypeOK
  <2>2. Outcomes' = [Outcomes EXCEPT ![t] = "thrown"] /\ Outcomes[t] = "none"
    <3>1. pc[t] = "block" /\ pc' = [pc EXCEPT ![t] = "thrown"]
      BY <1>6 DEF MakeBlockThrows
    <3>2. Outcomes' = [Outcomes EXCEPT ![t] = OutcomeAt("thrown")]
      BY <3>1, OutcomeBecomes
    <3> QED BY <1>0, <3>1, <3>2, OutcomeIs
  <2> QED BY <1>6, <2>1, <2>2 DEF MakeBlockThrows, Atomic!Throw, Left, Outcomes
<1>7. CASE Return(t)
  <2>1. Left' = Left
    BY <1>7 DEF Return, Left, InProgress, Making, MutexHeld, TypeOK
  <2>2. Outcomes' = [Outcomes EXCEPT ![t] = "none"] /\ Outcomes[t] # "none"
    <3>1. pc[t] \in {"grown", "thrown"} /\ pc' = [pc EXCEPT ![t] = "idle"]
      BY <1>7 DEF Return
    <3>2. Outcomes' = [Outcomes EXCEPT ![t] = OutcomeAt("idle")]
      BY <3>1, OutcomeBecomes
    <3> QED BY <1>0, <3>1, <3>2, OutcomeIs
  <2> QED BY <1>7, <2>1, <2>2 DEF Return, Atomic!Return, Left, Outcomes
<1> QED BY <1>1, <1>2, <1>3, <1>4, <1>5, <1>6, <1>7 DEF Step

(* malloc_particle, step by step and with its mutex, does what a growth in *)
(* one step would do.                                                      *)
THEOREM GrowthIsAtomic == Spec => GrowsAtomically
<1>1. GrowthInv /\ [Next]_gvars => [Atomic!ANext]_(Atomic!avars)
  <2> SUFFICES ASSUME GrowthInv, Next \/ UNCHANGED gvars
               PROVE  Atomic!ANext \/ UNCHANGED Atomic!avars
    OBVIOUS
  <2>1. CASE UNCHANGED gvars
    BY <2>1 DEF gvars, Atomic!avars, InProgress, Making
  <2>2. CASE Next
    <3>1. PICK t \in Growers : Step(t)
      BY <2>2 DEF Next
    <3>2. Atomic!Grow(t) \/ Atomic!Throw(t) \/ Atomic!Return(t) \/ UNCHANGED <<all_memalign, Left, Outcomes>>
      BY <3>1, GrowthStepRefines
    <3>3. CASE UNCHANGED <<all_memalign, Left, Outcomes>>
      BY <3>3 DEF Atomic!avars, Left, Outcomes
    <3> QED BY <3>2, <3>3 DEF Atomic!ANext
  <2> QED BY <2>1, <2>2
<1> QED BY GrowthInit, GrowthNext, GrowthInitRefines, <1>1, PTL DEF Spec, GrowsAtomically, Atomic!ASpec
===============================================================================
