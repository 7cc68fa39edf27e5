----------------------------- MODULE AtomicGrowth -----------------------------
(***************************************************************************)
(* What ParticleQueue assumes of malloc_particle: a growth happens at one  *)
(* instant.  It yields all the particles asked for, or it throws when      *)
(* there is not memory for them, after which, when every particle has its  *)
(* own allocation, the memory that was left is gone too.                   *)
(***************************************************************************)
EXTENDS Integers
CONSTANTS Growers, Num, Memory

VARIABLES all_memalign,  \* every particle has its own allocation
          left,     \* particles the memory still has room for
          outcome   \* outcome[t]: of t's growth; "none" outside one

avars == <<all_memalign, left, outcome>>

AInit == all_memalign \in BOOLEAN /\ left = Memory /\ outcome = [t \in Growers |-> "none"]

Grow(t) ==
  /\ outcome[t] = "none" /\ left >= Num
  /\ left' = left - Num
  /\ outcome' = [outcome EXCEPT ![t] = "grown"]
  /\ UNCHANGED all_memalign

Throw(t) ==
  /\ outcome[t] = "none" /\ left < Num
  /\ left' = IF all_memalign THEN 0 ELSE left
  /\ outcome' = [outcome EXCEPT ![t] = "thrown"]
  /\ UNCHANGED all_memalign

Return(t) ==
  /\ outcome[t] # "none"
  /\ outcome' = [outcome EXCEPT ![t] = "none"]
  /\ UNCHANGED <<all_memalign, left>>

ANext == \E t \in Growers : Grow(t) \/ Throw(t) \/ Return(t)
ASpec == AInit /\ [][ANext]_avars
=============================================================================
