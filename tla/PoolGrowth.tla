------------------------------ MODULE PoolGrowth ------------------------------
(***************************************************************************)
(* malloc_particle of include/queue/simpleQ_mpmc_ar.h, run by several      *)
(* producers whose P_get_tryBest found the pool empty.  ParticleQueue      *)
(* takes it as one step; here are its memory accesses: the mutex _mem_mux, *)
(* the vector _mem_hoster it protects, and the counter _depth, which is    *)
(* incremented under the mutex and, once more, outside of it.  _depth is a *)
(* plain unsigned int: an increment is a load and a store, and without the *)
(* mutex those of two threads interleave.                                  *)
(***************************************************************************)
EXTENDS Integers, FiniteSets

CONSTANTS
  Growers,       \* threads that may call init_dataPool
  Num,           \* particles per growth (64)
  InitDepth,     \* particles the constructor made
  Memory,        \* particles the memory has room for after construction
  Nobody

ASSUME GrowthAssumption ==
  /\ IsFiniteSet(Growers) /\ Growers # {} /\ Nobody \notin Growers
  /\ Num \in Nat \ {0} /\ InitDepth \in Nat \ {0} /\ Memory \in Nat

VARIABLES
  all_memalign, \* _all_memalign: one allocation per particle; never changes
  memory,    \* what is left of it
  lock,      \* owner of _mem_mux
  hoster,    \* particles whose memory _mem_hoster keeps
  depth,     \* _depth
  made,      \* particles that reached, or will reach, the pool
  n,         \* n[t]: the loop counter
  reg,       \* reg[t]: _depth as thread t has loaded it
  pc

gvars == <<all_memalign, memory, lock, hoster, depth, made, n, reg, pc>>

Goto(t, label) == pc' = [pc EXCEPT ![t] = label]
Load(t) == reg' = [reg EXCEPT ![t] = depth]

(* The constructor has run malloc_particle(init_depth) alone, which counts *)
(* every particle under the mutex and once more at the end.                *)
Init ==
  /\ all_memalign \in BOOLEAN
  /\ memory = Memory /\ lock = Nobody
  /\ hoster = InitDepth /\ made = InitDepth /\ depth = 2 * InitDepth
  /\ n = [t \in Growers |-> 0]
  /\ reg = [t \in Growers |-> 0]
  /\ pc = [t \in Growers |-> "idle"]

Start(t) ==
  /\ pc[t] = "idle"
  /\ Goto(t, IF all_memalign THEN "lock" ELSE "block")
  /\ UNCHANGED <<all_memalign, memory, lock, hoster, depth, made, n, reg>>

AnyTime == TRUE                  \* mutant: the mutex is not taken
MutexFree == lock = Nobody

Lock(t) ==
  /\ pc[t] = "lock"
  /\ MutexFree
  /\ lock' = t
  /\ n' = [n EXCEPT ![t] = 0]
  /\ Goto(t, "each")
  /\ UNCHANGED <<all_memalign, memory, hoster, depth, made, reg>>

MoreToMake(t) == n[t] < Num

(* One aligned allocation per particle; _depth++ begins with a load. *)
MakeOne(t) ==
  /\ pc[t] = "each"
  /\ MoreToMake(t)
  /\ memory > 0
  /\ memory' = memory - 1
  /\ hoster' = hoster + 1
  /\ Load(t)
  /\ Goto(t, "count")
  /\ UNCHANGED <<all_memalign, lock, depth, made, n>>

CountedAll(t) == reg[t] + Num    \* mutant: += num in the loop too
Counted(t) == reg[t] + 1

CountOne(t) ==
  /\ pc[t] = "count"
  /\ depth' = Counted(t)
  /\ n' = [n EXCEPT ![t] = @ + 1]
  /\ Goto(t, "each")
  /\ UNCHANGED <<all_memalign, memory, lock, hoster, made, reg>>

(* posix_memalign fails: the exception unwinds through the lock_guard. *)
AfterThrow(t) == Nobody

MakeOneThrows(t) ==
  /\ pc[t] = "each"
  /\ MoreToMake(t)
  /\ memory = 0
  /\ lock' = AfterThrow(t)
  /\ n' = [n EXCEPT ![t] = 0]
  /\ Goto(t, "thrown")
  /\ UNCHANGED <<all_memalign, memory, hoster, depth, made, reg>>

Unlock(t) ==
  /\ pc[t] = "each"
  /\ ~MoreToMake(t)
  /\ lock' = Nobody
  /\ n' = [n EXCEPT ![t] = 0]
  /\ Goto(t, "load")
  /\ UNCHANGED <<all_memalign, memory, hoster, depth, made, reg>>

(* The other branch: one allocation for all, before the mutex is taken. *)
MakeBlock(t) ==
  /\ pc[t] = "block"
  /\ memory >= Num
  /\ memory' = memory - Num
  /\ Goto(t, "lock2")
  /\ UNCHANGED <<all_memalign, lock, hoster, depth, made, n, reg>>

MakeBlockThrows(t) ==
  /\ pc[t] = "block"
  /\ memory < Num
  /\ Goto(t, "thrown")
  /\ UNCHANGED <<all_memalign, memory, lock, hoster, depth, made, n, reg>>

HostBlock(t) ==
  /\ pc[t] = "lock2"
  /\ MutexFree
  /\ lock' = t
  /\ hoster' = hoster + Num
  /\ Load(t)
  /\ Goto(t, "count2")
  /\ UNCHANGED <<all_memalign, memory, depth, made, n>>

CountBlock(t) ==
  /\ pc[t] = "count2"
  /\ depth' = reg[t] + Num
  /\ lock' = Nobody
  /\ Goto(t, "load")
  /\ UNCHANGED <<all_memalign, memory, hoster, made, n, reg>>

(* Both branches end with _depth += num, outside the mutex. *)
LoadAgain(t) ==
  /\ pc[t] = "load"
  /\ Load(t)
  /\ Goto(t, "store")
  /\ UNCHANGED <<all_memalign, memory, lock, hoster, depth, made, n>>

CountAgain(t) ==
  /\ pc[t] = "store"
  /\ depth' = reg[t] + Num
  /\ made' = made + Num
  /\ Goto(t, "grown")
  /\ UNCHANGED <<all_memalign, memory, lock, hoster, n, reg>>

(* Back in P_get_tryBest, or in the client that caught the exception. *)
Return(t) ==
  /\ pc[t] \in {"grown", "thrown"}
  /\ Goto(t, "idle")
  /\ reg' = [reg EXCEPT ![t] = 0]
  /\ UNCHANGED <<all_memalign, memory, lock, hoster, depth, made, n>>

Step(t) ==
  \/ Start(t) \/ Lock(t) \/ MakeOne(t) \/ CountOne(t) \/ MakeOneThrows(t) \/ Unlock(t)
  \/ MakeBlock(t) \/ MakeBlockThrows(t) \/ HostBlock(t) \/ CountBlock(t)
  \/ LoadAgain(t) \/ CountAgain(t) \/ Return(t)

Next == \E t \in Growers : Step(t)

Spec == Init /\ [][Next]_gvars

-----------------------------------------------------------------------------
Idle == \A t \in Growers : pc[t] = "idle"

TypeOK ==
  /\ all_memalign \in BOOLEAN /\ memory \in 0..Memory
  /\ lock \in Growers \cup {Nobody}
  /\ hoster \in Nat /\ depth \in Nat /\ made \in Nat
  /\ n \in [Growers -> 0..Num]
  /\ reg \in [Growers -> Nat]
  /\ pc \in [Growers -> {"idle", "lock", "each", "count", "block", "lock2", "count2",
                         "load", "store", "grown", "thrown"}]

(* Every particle is counted twice, so _depth is at most the particles that    *)
(* have memory plus those given to the pool; lost updates only lower it.   *)
DepthNeverOver == depth <= hoster + made

(* getDepth is documented as the depth of the data pool: the number of     *)
(* particles that circulate.                                               *)
DepthIsPoolDepth == Idle => depth = made

(* Refinement: a growth takes effect when its memory is all there.         *)
Making(t) == IF pc[t] = "count" THEN n[t] + 1 ELSE n[t]
InProgress == IF lock = Nobody \/ ~all_memalign THEN 0 ELSE Making(lock)

OutcomeAt(label) ==
  CASE label \in {"lock2", "count2", "load", "store", "grown"} -> "grown"
    [] label = "thrown" -> "thrown"
    [] OTHER -> "none"

Atomic == INSTANCE AtomicGrowth WITH
  left <- memory + InProgress,
  outcome <- [t \in Growers |-> OutcomeAt(pc[t])]

(* Holding the mutex over the whole loop makes growths that share scarce   *)
(* memory take effect one after the other: a producer that fails has not   *)
(* kept another one from succeeding.                                       *)
GrowsAtomically == Atomic!ASpec
=============================================================================
