------------------------------ MODULE SemaRounds ------------------------------
(***************************************************************************)
(* semaphore_t of include/common/s4semaphore.h (a counter of permits and a *)
(* separate atomic counter of workers that are ready) and the protocol of  *)
(* application/test_semaphore.cpp that makes a barrier of it: productor    *)
(* waits until THREAD_NUM workers are ready, opens a round with THREAD_NUM *)
(* permits, and comsumor threads share the slots of the workspace.         *)
(*                                                                         *)
(* Permits have no owner: a worker that is done early may take the permit  *)
(* of one that has not woken up yet.                                       *)
(***************************************************************************)
EXTENDS Integers, FiniteSets

CONSTANTS
  Workers,     \* the comsumor threads (THREAD_NUM of them)
  Stride,      \* workingSeq += 10
  Size,        \* workingspace.size() (200)
  Rounds,      \* calls of productor() before productor(true) (200)
  Nobody

N == Cardinality(Workers)

ASSUME SemaAssumption ==
  /\ IsFiniteSet(Workers) /\ Workers # {} /\ Nobody \notin Workers
  /\ Stride \in Nat \ {0} /\ Size \in Nat /\ Rounds \in Nat

VARIABLES
  ready,       \* _ready
  count,       \* _count
  g_stop,
  workingSeq,
  worked,      \* worked[s]: how often slot s has been worked on
  seq,         \* seq[w]: the slot worker w has drawn
  round,       \* rounds started
  main,        \* the statement of productor, or of main, that is next
  pc           \* the statement of each comsumor that is next

svars == <<ready, count, g_stop, workingSeq, worked, seq, round, main, pc>>

(* workingSeq += Stride returns the new value: slot 0 is never drawn. *)
Slots == {s \in 1..(Size - 1) : s % Stride = 0}

Init ==
  /\ ready = 0 /\ count = 0
  /\ g_stop = FALSE /\ workingSeq = 0
  /\ worked = [s \in Slots |-> 0]
  /\ seq = [w \in Workers |-> 0]
  /\ round = 0
  /\ main = "spin"
  /\ pc = [w \in Workers |-> "setReady"]

Goto(w, label) == pc' = [pc EXCEPT ![w] = label]
producerVars == <<g_stop, round, main>>

-----------------------------------------------------------------------------
(* comsumor *)

SetReady(w) ==
  /\ pc[w] = "setReady"
  /\ ready' = ready + 1
  /\ Goto(w, "wait")
  /\ UNCHANGED <<count, workingSeq, worked, seq, producerVars>>

Eagerly == count >= 0            \* mutant: the predicate is off by one
HasPermit == count > 0
Kept == count                    \* mutant: a permit is not used up
UsedUp == count - 1

(* wait: the mutex is held from the test of _count to its decrement. *)
Wait(w) ==
  /\ pc[w] = "wait"
  /\ HasPermit
  /\ count' = UsedUp
  /\ Goto(w, "check")
  /\ UNCHANGED <<ready, workingSeq, worked, seq, producerVars>>

CheckStop(w) ==
  /\ pc[w] = "check"
  /\ Goto(w, IF g_stop THEN "exited" ELSE "draw")
  /\ UNCHANGED <<ready, count, workingSeq, worked, seq, producerVars>>

(* seq = (workingSeq += 10); past the end the worker is done. *)
Draw(w) ==
  /\ pc[w] = "draw"
  /\ workingSeq' = workingSeq + Stride
  /\ IF workingSeq + Stride >= Size
     THEN Goto(w, "setReady") /\ UNCHANGED seq
     ELSE Goto(w, "work") /\ seq' = [seq EXCEPT ![w] = workingSeq + Stride]
  /\ UNCHANGED <<ready, count, worked, producerVars>>

Work(w) ==
  /\ pc[w] = "work"
  /\ worked' = [worked EXCEPT ![seq[w]] = @ + 1]
  /\ Goto(w, "draw")
  /\ UNCHANGED <<ready, count, workingSeq, seq, producerVars>>

Comsumor(w) == SetReady(w) \/ Wait(w) \/ CheckStop(w) \/ Draw(w) \/ Work(w)

-----------------------------------------------------------------------------
(* productor, called by main Rounds times and then once with stop = true *)

MainGoto(label) == main' = label
workerVars == <<worked, seq, pc>>

(* while (getReady() != THREAD_NUM); *)
AlmostReady == ready >= N - 1    \* mutant: one worker too few
AllReady == ready = N

Spin ==
  /\ main = "spin"
  /\ AllReady
  /\ MainGoto(IF round = Rounds THEN "stop" ELSE "reset")
  /\ UNCHANGED <<ready, count, g_stop, workingSeq, round, workerVars>>

Stop ==
  /\ main = "stop"
  /\ g_stop' = TRUE
  /\ MainGoto("notifyStop")
  /\ UNCHANGED <<ready, count, workingSeq, round, workerVars>>

OneShort == count + N - 1        \* mutant: one permit too few
Permits == count + N

NotifyStop ==
  /\ main = "notifyStop"
  /\ count' = Permits
  /\ MainGoto("reset")
  /\ UNCHANGED <<ready, g_stop, workingSeq, round, workerVars>>

ResetSeq ==
  /\ main = "reset"
  /\ workingSeq' = 0
  /\ round' = round + 1
  /\ MainGoto("clrReady")
  /\ UNCHANGED <<ready, count, g_stop, workerVars>>

ClrReady ==
  /\ main = "clrReady"
  /\ ready' = 0
  /\ MainGoto("notify")
  /\ UNCHANGED <<count, g_stop, workingSeq, round, workerVars>>

Notify ==
  /\ main = "notify"
  /\ count' = Permits
  /\ MainGoto(IF g_stop THEN "join" ELSE "spin")
  /\ UNCHANGED <<ready, g_stop, workingSeq, round, workerVars>>

Join ==
  /\ main = "join"
  /\ \A w \in Workers : pc[w] = "exited"
  /\ MainGoto("end")
  /\ UNCHANGED <<ready, count, g_stop, workingSeq, round, workerVars>>

Productor == Spin \/ Stop \/ NotifyStop \/ ResetSeq \/ ClrReady \/ Notify \/ Join

Ended == main = "end" /\ UNCHANGED svars

Next == Productor \/ (\E w \in Workers : Comsumor(w)) \/ Ended

Spec == Init /\ [][Next]_svars

(* Every thread that can take a step is scheduled again. *)
FairSpec == Spec /\ WF_svars(Productor) /\ \A w \in Workers : WF_svars(Comsumor(w))

-----------------------------------------------------------------------------
(* Properties. *)

Busy == {w \in Workers : pc[w] \in {"check", "draw", "work", "setReady"}}

TypeOK ==
  /\ ready \in Nat /\ count \in Nat /\ g_stop \in BOOLEAN
  /\ workingSeq \in Nat /\ round \in Nat
  /\ worked \in [Slots -> Nat]
  /\ seq \in [Workers -> Slots \cup {0}]
  /\ main \in {"spin", "stop", "notifyStop", "reset", "clrReady", "notify", "join", "end"}
  /\ pc \in [Workers -> {"setReady", "wait", "check", "draw", "work", "exited"}]

(* Permits, ready workers and workers between the two add up to THREAD_NUM *)
(* until the stop: no setReady is lost to clrReady, which resets a counter *)
(* other threads increment, and no permit is left over for a later round.  *)
TokensConserved ==
  ~g_stop =>
    IF main = "notify" THEN ready = 0 /\ count = 0 /\ Busy = {}
    ELSE ready + count + Cardinality(Busy) = N

(* When productor resets the shared position every worker is waiting: the  *)
(* number of setReady calls stands for all of them, although a fast worker *)
(* may have called it twice and a slow one not at all.                     *)
RoundsDoNotOverlap ==
  main \in {"stop", "reset", "clrReady", "notify"} /\ ~g_stop =>
    \A w \in Workers : pc[w] = "wait"

(* Refinement to work in rounds: what of this round is left, and who works *)
(* on a slot.                                                              *)
Todo == IF round = 0 THEN {} ELSE {s \in Slots : s > workingSeq}
WorkingOn(s) == {w \in Workers : pc[w] = "work" /\ seq[w] = s}
WorkerIn(ws) == IF ws = {} THEN Nobody ELSE CHOOSE w \in ws : TRUE
WorkerOf == [s \in Slots |-> WorkerIn(WorkingOn(s))]

Barrier == INSTANCE WorkRounds WITH todo <- Todo, worker <- WorkerOf

WorksInRounds == Barrier!RSpec

(* Every thread ends: the permits of the stop reach each worker once, even *)
(* if one never got a permit in all the rounds before.                     *)
AllThreadsEnd == <>(main = "end")
=============================================================================
