---------------------------- MODULE ParticleQueue ----------------------------
(***************************************************************************)
(* The auto-recycling frame queue of include/queue/simpleQ_mpmc_ar.h and   *)
(* its single-producer variant simpleQ_spmc_ar.h.                          *)
(*                                                                         *)
(* Frames ("particles") circulate between two lock-free queues: dataPool   *)
(* holds the empty ones, dataPtoC those on their way to a consumer.  A     *)
(* thread holds a particle through a carrier, a reference-counted object   *)
(* whose destructor enqueues the particle to the queue named by pHostQ:    *)
(* dropping, overwriting or resetting a producer's carrier SENDS the       *)
(* particle, and dropping a consumer's carrier RECYCLES it.  No carrier is *)
(* ever shared between threads here, so a carrier dies when the variable   *)
(* holding it is overwritten.                                              *)
(*                                                                         *)
(* The two queues are moodycamel::BlockingConcurrentQueue, outside src/:   *)
(* an enqueue appends to the sub-queue ("lane") of the enqueuing thread or *)
(* of the producer token, a dequeue takes the head of any non-empty lane.  *)
(* The order of the pool is of no consequence and the pool is a set.       *)
(*                                                                         *)
(* Steps: a queue operation is one step; the code between two of them is   *)
(* thread-local and belongs to the step that precedes or follows it.       *)
(***************************************************************************)
EXTENDS Integers, Sequences, FiniteSets

CONSTANTS
  Producers,       \* threads that call the P_ operations
  Consumers,       \* threads that call the C_ operations; a thread may do both
  Particles,       \* every particle the memory of the process has room for
  InitParticles,   \* those the constructor creates (init_depth of them)
  GrowBy,          \* particles a growth asks for (64 in the code)
  MaxBulk,         \* bound: the longest vector of carriers a client builds
  Infos,           \* contents of a frame (info and buffer)
  DefaultInfo,     \* the content of a frame nobody has written
  AllMemalign,     \* all_memalign: one allocation per particle, or one for all
  SingleProducer,  \* TRUE: simpleQ_spmc_ar_t, which enqueues with a token
  EnqueueMayFail,  \* an enqueue may find no memory for its bookkeeping
  TokenLane,       \* the lane of ptok_dataPtoC
  NoParticle       \* the null shared_ptr

Threads == Producers \cup Consumers
Lanes == Threads \cup {TokenLane}

ASSUME ConstantAssumption ==
  /\ Producers # {} /\ Consumers # {}
  /\ TokenLane \notin Threads
  /\ NoParticle \notin Particles
  /\ InitParticles \subseteq Particles /\ InitParticles # {}
  /\ IsFiniteSet(Particles)
  /\ GrowBy \in Nat \ {0} /\ MaxBulk \in Nat \ {0}
  /\ DefaultInfo \in Infos
  /\ AllMemalign \in BOOLEAN
  /\ SingleProducer \in BOOLEAN
  /\ EnqueueMayFail \in BOOLEAN
  /\ SingleProducer => \E p \in Producers : Producers = {p}

VARIABLES
  pool,      \* _dataPool
  ptoc,      \* _dataPtoC: each lane a sequence of particles
  slot,      \* slot[t]: the carrier in thread t's variable p
  bulk,      \* bulk[t]: the carriers in thread t's vector pv
  local,     \* local[t]: particles in pool_data / pruducted_data of the running call
  fresh,     \* fresh[t]: particles init_dataPool has not enqueued yet
  created,   \* particles whose memory is in _mem_hoster
  leaked,    \* created particles whose last shared_ptr is gone
  info,      \* the content of every particle; recycling does not reset it
  pc         \* pc[t]: the call thread t is in, and how far

vars == <<pool, ptoc, slot, bulk, local, fresh, created, leaked, info, pc>>

-----------------------------------------------------------------------------
(* Carriers: a particle and the queue its destructor enqueues it to.  Nil  *)
(* stands for a null pointer and for a carrier without pHostQ, neither of  *)
(* which releases anything.                                                *)
NoHost == "none"      \* mutant: the carrier is made without its queue
ToConsumers == IF SingleProducer THEN "token" ELSE "ptoc"

Nil == [data |-> NoParticle, host |-> "none"]
Carriers == [data : Particles, host : {"pool", ToConsumers}] \cup {Nil}
Carrier(d, h) == [data |-> d, host |-> h]
ForConsumers(d) == Carrier(d, ToConsumers)
BackToConsumers(d) == Carrier(d, ToConsumers)   \* mutant: the wrong queue
ForPool(d) == Carrier(d, "pool")

(* What P_send_bulk leaves of a carrier: no pHostQ, and a pQdata moved from. *)
KeepsHost(c) == [c EXCEPT !.data = NoParticle]     \* mutant: pHostQ stays
KeepsBoth(c) == c                                  \* mutant: a copy is sent
LeftOf(c) == Nil

SinglesByToken(t, c) == TokenLane     \* mutant: tokens for single frames only
LaneOf(t, c) == IF c.host = "token" THEN TokenLane ELSE t

(* enqueue allocates when it has to, so it fails only if memory runs out.  *)
TryEnqueue == TRUE       \* mutant: try_enqueue, which does not allocate
EnqueueFails == EnqueueMayFail

(* ~queParticle_ar_t, run by thread t on carrier c.  The result of enqueue *)
(* is ignored: when it finds no memory the particle is gone.               *)
Release(t, c) ==
  \/ /\ c.host = "none"
     /\ UNCHANGED <<pool, ptoc, leaked>>
  \/ /\ c.host = "pool"
     /\ pool' = pool \cup {c.data}
     /\ UNCHANGED <<ptoc, leaked>>
  \/ /\ c.host \in {"ptoc", "token"}
     /\ ptoc' = [ptoc EXCEPT ![LaneOf(t, c)] = Append(@, c.data)]
     /\ UNCHANGED <<pool, leaked>>
  \/ /\ EnqueueFails
     /\ c.host # "none"
     /\ leaked' = leaked \cup {c.data}
     /\ UNCHANGED <<pool, ptoc>>

PoolEmpty == pool = {}
PtoCEmpty == \A l \in Lanes : ptoc[l] = <<>>

Goto(t, label) == pc' = [pc EXCEPT ![t] = label]

P_Calls == {"P_get", "P_get_timeout", "P_get_tryBest"}
C_Calls == {"C_recv", "C_recv_try", "C_recv_timeout", "C_getBulk"}
Labels == P_Calls \cup C_Calls \cup
  {"idle", "P_assign", "C_assign", "assign_null", "malloc", "fill", "thrown",
   "send_bulk", "resize", "bulk_assign", "clear"}

-----------------------------------------------------------------------------
(* The constructor: malloc_particle(init_depth), then every particle into  *)
(* the pool.  init_depth = 0 throws, hence InitParticles # {}.             *)
Init ==
  /\ pool = InitParticles
  /\ created = InitParticles
  /\ leaked = {}
  /\ ptoc = [l \in Lanes |-> <<>>]
  /\ slot = [t \in Threads |-> Nil]
  /\ bulk = [t \in Threads |-> <<>>]
  /\ local = [t \in Threads |-> <<>>]
  /\ fresh = [t \in Threads |-> {}]
  /\ info = [d \in Particles |-> DefaultInfo]
  /\ pc = [t \in Threads |-> "idle"]

(* A client thread enters one of the operations that may find no particle. *)
Call(t, op) ==
  /\ pc[t] = "idle"
  /\ op \in P_Calls => t \in Producers
  /\ op \in C_Calls => t \in Consumers
  /\ Goto(t, op)
  /\ UNCHANGED <<pool, ptoc, slot, bulk, local, fresh, created, leaked, info>>

(* wait_dequeue, wait_dequeue_timed or try_dequeue on _dataPool succeeds. *)
TakeFromPool(t) ==
  /\ pc[t] \in P_Calls
  /\ \E d \in pool :
       /\ pool' = pool \ {d}
       /\ local' = [local EXCEPT ![t] = <<d>>]
  /\ Goto(t, "P_assign")
  /\ UNCHANGED <<ptoc, slot, bulk, fresh, created, leaked, info>>

(* wait_dequeue_timed runs out of time on an empty pool. *)
P_Timeout(t) ==
  /\ pc[t] = "P_get_timeout"
  /\ PoolEmpty
  /\ Goto(t, "assign_null")
  /\ UNCHANGED <<pool, ptoc, slot, bulk, local, fresh, created, leaked, info>>

(* try_dequeue finds the pool empty: P_get_tryBest grows it. *)
P_Miss(t) ==
  /\ pc[t] = "P_get_tryBest"
  /\ PoolEmpty
  /\ Goto(t, "malloc")
  /\ UNCHANGED <<pool, ptoc, slot, bulk, local, fresh, created, leaked, info>>

(* p = make_shared<carrier>(pool_data, _dataPtoC): p gets the new carrier  *)
(* first and the one it held dies after that.                              *)
P_Assign(t) ==
  /\ pc[t] = "P_assign"
  /\ Release(t, slot[t])
  /\ slot' = [slot EXCEPT ![t] = ForConsumers(Head(local[t]))]
  /\ local' = [local EXCEPT ![t] = <<>>]
  /\ Goto(t, "idle")
  /\ UNCHANGED <<bulk, fresh, created, info>>

(* p = nullptr; return false. *)
AssignNull(t) ==
  /\ pc[t] = "assign_null"
  /\ Release(t, slot[t])
  /\ slot' = [slot EXCEPT ![t] = Nil]
  /\ Goto(t, "idle")
  /\ UNCHANGED <<bulk, local, fresh, created, info>>

(* malloc_particle(64).  char_array_t throws when posix_memalign fails, so *)
(* a failed growth never returns: the exception passes P_get_tryBest and   *)
(* leaves p as it was.  With all_memalign the particles made before the    *)
(* failing one lose their shared_ptr while _mem_hoster keeps their memory. *)
Malloc(t) ==
  /\ pc[t] = "malloc"
  /\ \E S \in SUBSET (Particles \ created) :
       /\ Cardinality(S) = GrowBy
       /\ created' = created \cup S
       /\ fresh' = [fresh EXCEPT ![t] = S]
  /\ Goto(t, "fill")
  /\ UNCHANGED <<pool, ptoc, slot, bulk, local, leaked, info>>

MallocThrows(t) ==
  /\ pc[t] = "malloc"
  /\ Cardinality(Particles \ created) < GrowBy
  /\ IF AllMemalign
     THEN /\ created' = Particles
          /\ leaked' = leaked \cup (Particles \ created)
     ELSE UNCHANGED <<created, leaked>>
  /\ Goto(t, "thrown")
  /\ UNCHANGED <<pool, ptoc, slot, bulk, local, fresh, info>>

(* The client handles the exception. *)
Catch(t) ==
  /\ pc[t] = "thrown"
  /\ Goto(t, "idle")
  /\ UNCHANGED <<pool, ptoc, slot, bulk, local, fresh, created, leaked, info>>

(* init_dataPool hands the new particles to the pool one by one ... *)
FillPool(t) ==
  /\ pc[t] = "fill"
  /\ \E d \in fresh[t] :
       /\ pool' = pool \cup {d}
       /\ fresh' = [fresh EXCEPT ![t] = @ \ {d}]
  /\ UNCHANGED <<ptoc, slot, bulk, local, created, leaked, info, pc>>

(* ... P_get_tryBest then starts over, against everybody else's dequeues ... *)
FillDone(t) ==
  /\ pc[t] = "fill"
  /\ fresh[t] = {}
  /\ Goto(t, "P_get_tryBest")
  /\ UNCHANGED <<pool, ptoc, slot, bulk, local, fresh, created, leaked, info>>

(* ... and a failed enqueue ends the loop, dropping the rest.  init_dataPool *)
(* reports failure only if not one particle got through.                     *)
FillFails(t) ==
  /\ EnqueueFails
  /\ pc[t] = "fill"
  /\ fresh[t] # {}
  /\ leaked' = leaked \cup fresh[t]
  /\ fresh' = [fresh EXCEPT ![t] = {}]
  /\ Goto(t, IF Cardinality(fresh[t]) = GrowBy THEN "assign_null" ELSE "P_get_tryBest")
  /\ UNCHANGED <<pool, ptoc, slot, bulk, local, created, info>>

(* wait_dequeue, try_dequeue or wait_dequeue_timed on _dataPtoC succeeds. *)
TakeFromPtoC(t) ==
  /\ pc[t] \in {"C_recv", "C_recv_try", "C_recv_timeout"}
  /\ \E l \in Lanes :
       /\ ptoc[l] # <<>>
       /\ local' = [local EXCEPT ![t] = <<Head(ptoc[l])>>]
       /\ ptoc' = [ptoc EXCEPT ![l] = Tail(@)]
  /\ Goto(t, "C_assign")
  /\ UNCHANGED <<pool, slot, bulk, fresh, created, leaked, info>>

C_Polls == {"C_recv_try"}     \* mutant: C_recv_timeout waits without a limit
C_Returns == {"C_recv_try", "C_recv_timeout"}

C_Miss(t) ==
  /\ pc[t] \in C_Returns
  /\ PtoCEmpty
  /\ Goto(t, "assign_null")
  /\ UNCHANGED <<pool, ptoc, slot, bulk, local, fresh, created, leaked, info>>

(* p = make_shared<carrier>(pruducted_data, _dataPool). *)
C_Assign(t) ==
  /\ pc[t] = "C_assign"
  /\ Release(t, slot[t])
  /\ slot' = [slot EXCEPT ![t] = ForPool(Head(local[t]))]
  /\ local' = [local EXCEPT ![t] = <<>>]
  /\ Goto(t, "idle")
  /\ UNCHANGED <<bulk, fresh, created, info>>

(* P_send, C_return, or the end of p's scope: p.reset(). *)
Reset(t) ==
  /\ pc[t] = "idle"
  /\ slot[t] # Nil
  /\ Release(t, slot[t])
  /\ slot' = [slot EXCEPT ![t] = Nil]
  /\ UNCHANGED <<bulk, local, fresh, created, info, pc>>

-----------------------------------------------------------------------------
(* Vectors of carriers. *)

(* The client moves p to the end of its vector. *)
Stash(t) ==
  /\ pc[t] = "idle"
  /\ slot[t] # Nil
  /\ Len(bulk[t]) < MaxBulk
  /\ bulk' = [bulk EXCEPT ![t] = Append(@, slot[t])]
  /\ slot' = [slot EXCEPT ![t] = Nil]
  /\ UNCHANGED <<pool, ptoc, local, fresh, created, leaked, info, pc>>

(* P_send_bulk: every carrier loses its pHostQ and gives its particle to   *)
(* pruducted_data.  Null pointers in the vector would be dereferenced.     *)
P_SendBulk(t) ==
  /\ pc[t] = "idle"
  /\ t \in Producers
  /\ bulk[t] # <<>>
  /\ \A i \in 1..Len(bulk[t]) : bulk[t][i] # Nil
  /\ local' = [local EXCEPT ![t] = [i \in 1..Len(bulk[t]) |-> bulk[t][i].data]]
  /\ bulk' = [bulk EXCEPT ![t] = [i \in 1..Len(bulk[t]) |-> LeftOf(bulk[t][i])]]
  /\ Goto(t, "send_bulk")
  /\ UNCHANGED <<pool, ptoc, slot, fresh, created, leaked, info>>

(* enqueue_bulk takes no token: the frames go to the calling thread's own  *)
(* lane in both variants, and its result is ignored.  pv.clear() follows.  *)
EnqueueBulk(t) ==
  /\ pc[t] = "send_bulk"
  /\ \/ /\ ptoc' = [ptoc EXCEPT ![t] = @ \o local[t]]
        /\ UNCHANGED leaked
     \/ /\ EnqueueFails
        /\ leaked' = leaked \cup {local[t][i] : i \in 1..Len(local[t])}
        /\ UNCHANGED ptoc
  /\ local' = [local EXCEPT ![t] = <<>>]
  /\ Goto(t, "clear")
  /\ UNCHANGED <<pool, slot, bulk, fresh, created, info>>

(* wait_dequeue_bulk_timed collects up to max_nb particles, visiting the   *)
(* lanes one after the other; other threads may run in between.            *)
TakeOneOfBulk(t) ==
  /\ pc[t] = "C_getBulk"
  /\ Len(local[t]) < MaxBulk
  /\ \E l \in Lanes :
       /\ ptoc[l] # <<>>
       /\ local' = [local EXCEPT ![t] = Append(@, Head(ptoc[l]))]
       /\ ptoc' = [ptoc EXCEPT ![l] = Tail(@)]
  /\ UNCHANGED <<pool, slot, bulk, fresh, created, leaked, info, pc>>

TakeBulkDone(t) ==
  /\ pc[t] = "C_getBulk"
  /\ local[t] # <<>> \/ PtoCEmpty
  /\ Goto(t, "resize")
  /\ UNCHANGED <<pool, ptoc, slot, bulk, local, fresh, created, leaked, info>>

(* pv.resize(m): carriers beyond m die, null pointers fill up. *)
ShrinkBulk(t) ==
  LET m == Len(local[t]) IN
  /\ pc[t] = "resize"
  /\ Len(bulk[t]) > m
  /\ Release(t, bulk[t][m + 1])
  /\ bulk' = [bulk EXCEPT ![t] = SubSeq(@, 1, m) \o SubSeq(@, m + 2, Len(@))]
  /\ UNCHANGED <<slot, local, fresh, created, info, pc>>

PadBulk(t) ==
  LET m == Len(local[t]) IN
  /\ pc[t] = "resize"
  /\ Len(bulk[t]) <= m
  /\ bulk' = [bulk EXCEPT ![t] =
                [i \in 1..m |-> IF i <= Len(bulk[t]) THEN bulk[t][i] ELSE Nil]]
  /\ Goto(t, IF m = 0 THEN "idle" ELSE "bulk_assign")
  /\ UNCHANGED <<pool, ptoc, slot, local, fresh, created, leaked, info>>

(* pv[n++] = move(p), and the carrier pv[n] held dies. *)
AssignBulk(t) ==
  LET n == Len(bulk[t]) - Len(local[t]) + 1 IN
  /\ pc[t] = "bulk_assign"
  /\ Release(t, bulk[t][n])
  /\ bulk' = [bulk EXCEPT ![t][n] = ForPool(Head(local[t]))]
  /\ local' = [local EXCEPT ![t] = Tail(@)]
  /\ Goto(t, IF Len(local[t]) = 1 THEN "idle" ELSE "bulk_assign")
  /\ UNCHANGED <<slot, fresh, created, info>>

(* pv.clear(), by P_send_bulk or by the client: the carriers die in turn. *)
ClearBulk(t) ==
  /\ pc[t] = "clear"
  /\ bulk[t] # <<>>
  /\ Release(t, Head(bulk[t]))
  /\ bulk' = [bulk EXCEPT ![t] = Tail(@)]
  /\ UNCHANGED <<slot, local, fresh, created, info, pc>>

ClearDone(t) ==
  /\ pc[t] = "clear"
  /\ bulk[t] = <<>>
  /\ Goto(t, "idle")
  /\ UNCHANGED <<pool, ptoc, slot, bulk, local, fresh, created, leaked, info>>

(* The client writes the frame it holds. *)
Write(t, x) ==
  /\ pc[t] = "idle"
  /\ slot[t] # Nil
  /\ info' = [info EXCEPT ![slot[t].data] = x]
  /\ UNCHANGED <<pool, ptoc, slot, bulk, local, fresh, created, leaked, pc>>

-----------------------------------------------------------------------------
(* The steps a call in progress takes, and those a client chooses. *)
InCall(t) ==
  \/ TakeFromPool(t) \/ P_Timeout(t) \/ P_Miss(t) \/ P_Assign(t) \/ AssignNull(t)
  \/ Malloc(t) \/ MallocThrows(t) \/ Catch(t)
  \/ FillPool(t) \/ FillDone(t) \/ FillFails(t)
  \/ TakeFromPtoC(t) \/ C_Miss(t) \/ C_Assign(t)
  \/ EnqueueBulk(t) \/ TakeOneOfBulk(t) \/ TakeBulkDone(t)
  \/ ShrinkBulk(t) \/ PadBulk(t) \/ AssignBulk(t) \/ ClearBulk(t) \/ ClearDone(t)

ClientStep(t) ==
  \/ \E op \in P_Calls \cup C_Calls \cup {"clear"} : Call(t, op)
  \/ Reset(t) \/ Stash(t) \/ P_SendBulk(t)
  \/ \E x \in Infos : Write(t, x)

Next == \E t \in Threads : InCall(t) \/ ClientStep(t)

Spec == Init /\ [][Next]_vars

(* The operating system keeps scheduling a thread that can take a step. *)
FairSpec == Spec /\ \A t \in Threads : WF_vars(InCall(t))

-----------------------------------------------------------------------------
(* Properties. *)

Elems(s) == {s[i] : i \in 1..Len(s)}
Distinct(s) == \A i, j \in 1..Len(s) : s[i] = s[j] => i = j

SlotData(t) == {slot[t].data} \ {NoParticle}
BulkData(t) == {bulk[t][i].data : i \in 1..Len(bulk[t])} \ {NoParticle}

(* What thread t refers to from its stack: nobody else may touch these. *)
Private(t) == SlotData(t) \cup BulkData(t) \cup Elems(local[t]) \cup fresh[t]
InFlight == UNION {Elems(ptoc[l]) : l \in Lanes}

TypeOK ==
  /\ pool \subseteq Particles
  /\ ptoc \in [Lanes -> Seq(Particles)]
  /\ slot \in [Threads -> Carriers]
  /\ bulk \in [Threads -> Seq(Carriers)]
  /\ local \in [Threads -> Seq(Particles)]
  /\ fresh \in [Threads -> SUBSET Particles]
  /\ created \subseteq Particles
  /\ leaked \subseteq Particles
  /\ info \in [Particles -> Infos]
  /\ pc \in [Threads -> Labels]

(* A particle is never reachable twice: not twice in a queue, not from two *)
(* threads, not from a queue and a thread, not twice from one thread.      *)
(* This is what makes it safe to hand over the buffer instead of a copy.   *)
OneOwner ==
  /\ \A l \in Lanes : Distinct(ptoc[l])
  /\ \A l, m \in Lanes : l # m => Elems(ptoc[l]) \cap Elems(ptoc[m]) = {}
  /\ pool \cap InFlight = {}
  /\ leaked \cap (pool \cup InFlight) = {}
  /\ \A t \in Threads :
       /\ Private(t) \cap (pool \cup InFlight \cup leaked) = {}
       /\ \A u \in Threads : t # u => Private(t) \cap Private(u) = {}
       /\ Distinct(local[t])
       /\ \A i, j \in 1..Len(bulk[t]) :
            bulk[t][i].data = bulk[t][j].data => i = j \/ bulk[t][i] = Nil
       /\ SlotData(t) \cap (BulkData(t) \cup Elems(local[t]) \cup fresh[t]) = {}
       /\ BulkData(t) \cap (Elems(local[t]) \cup fresh[t]) = {}
       /\ Elems(local[t]) \cap fresh[t] = {}

(* No frame drops out of circulation, whatever the order of implicit and   *)
(* explicit releases: every particle whose memory the queue keeps is in a  *)
(* queue, held by a thread, or was leaked by an allocation failure.        *)
NothingLost ==
  created = pool \cup InFlight \cup leaked \cup UNION {Private(t) : t \in Threads}

(* Refinement: the stage of a particle as its clients see it.  A particle  *)
(* that a call has dequeued but not yet wrapped belongs to the caller, and *)
(* one that has not reached the pool yet does not exist for them.          *)
Carried(t, hosts) ==
  {c.data : c \in {k \in {slot[t]} \cup Elems(bulk[t]) : k.host \in hosts}}
Outgoing(t) == pc[t] \in {"P_assign", "send_bulk"}
FillingBy(t) ==
  Carried(t, {"ptoc", "token"}) \cup (IF Outgoing(t) THEN Elems(local[t]) ELSE {})
ReadingBy(t) ==
  Carried(t, {"pool"}) \cup (IF Outgoing(t) THEN {} ELSE Elems(local[t]))

StageOf(d) ==
  CASE d \in pool -> "free"
    [] d \in InFlight -> "sent"
    [] d \in leaked -> "lost"
    [] \E t \in Threads : d \in FillingBy(t) -> "filling"
    [] \E t \in Threads : d \in ReadingBy(t) -> "reading"
    [] OTHER -> "absent"

HolderOf(d) ==
  IF \E t \in Threads : d \in FillingBy(t) \cup ReadingBy(t)
  THEN CHOOSE t \in Threads : d \in FillingBy(t) \cup ReadingBy(t)
  ELSE NoParticle

Handoff == INSTANCE FrameHandoff WITH
  Frames <- Particles, InitFrames <- InitParticles, Nobody <- NoParticle,
  stage <- [d \in Particles |-> StageOf(d)],
  holder <- [d \in Particles |-> HolderOf(d)]

(* The queue implements the hand-over of simpleQ.h: no interleaving of its *)
(* calls lets a thread write, pass on or free a frame it does not hold.    *)
HandsOver == Handoff!HSpec

(* A call that is not documented to block returns, or throws: however      *)
(* often other producers take the particles it has just created, and       *)
(* whatever the other threads wait for.                                    *)
MayBlock == {"idle", "P_get", "C_recv"}
CallsReturn == \A t \in Threads : pc[t] \notin MayBlock ~> pc[t] = "idle"

=============================================================================
