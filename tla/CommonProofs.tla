---------------------------- MODULE CommonProofs -----------------------------
(***************************************************************************)
(* Theorems about common/.  s4semaphore and the rounds of                  *)
(* test_semaphore.cpp, for any number of workers, any stride, size and     *)
(* number of rounds: no permit and no setReady is lost, no worker is       *)
(* inside a round when the next begins, and each slot of a round is worked *)
(* on by one worker.  s4logger, for any folders, preambles and sets of     *)
(* enabled files, and any sequence of configurations and messages.         *)
(* s4time, for every day, and every second of the years that tm_to_utc is  *)
(* meant for.  s4string's replacement of texts and grouping of digits, for *)
(* every text.                                                             *)
(***************************************************************************)
EXTENDS SemaRounds, Logger, Calendar, FiniteSetTheorems, SequenceTheorems, WellFoundedInduction, TLAPS

-----------------------------------------------------------------------------
(* s4semaphore and test_semaphore.cpp. *)

Labels == {"setReady", "wait", "check", "draw", "work", "exited"}
CountTypes == ready \in Nat /\ count \in Nat /\ g_stop \in BOOLEAN /\ pc \in [Workers -> Labels]

(* Where productor can be, before and after g_stop is set. *)
Phases ==
  /\ main \in {"spin", "stop"} => ~g_stop
  /\ main \in {"notifyStop", "join", "end"} => g_stop
  /\ main \in {"spin", "stop", "notifyStop", "reset", "clrReady", "notify", "join", "end"}

(* Nobody leaves before the stop; and while productor prepares a round,    *)
(* every worker has called setReady.                                       *)
NobodyLeft == ~g_stop => \A w \in Workers : pc[w] # "exited"
AllCalled == ~g_stop /\ main \in {"stop", "reset", "clrReady"} => ready = N

RoundInv == CountTypes /\ Phases /\ NobodyLeft /\ AllCalled /\ TokensConserved

(* Busy is a finite set of workers. *)
LEMMA BusyFinite ==
  /\ IsFiniteSet(Busy) /\ Cardinality(Busy) \in Nat
  /\ Cardinality(Busy) = 0 <=> Busy = {}
  /\ N \in Nat /\ N > 0
<1>1. IsFiniteSet(Busy) /\ Cardinality(Busy) \in Nat
  BY SemaAssumption, FS_Subset, FS_CardinalityType DEF Busy
<1>2. N \in Nat /\ N # 0
  BY SemaAssumption, FS_CardinalityType, FS_EmptySet DEF N
<1> QED BY <1>1, <1>2, FS_EmptySet

(* While productor prepares a round every worker waits, and no permit is   *)
(* left: the counts leave room for nothing else.                           *)
LEMMA EverybodyWaits ==
  ASSUME RoundInv, ~g_stop, main \in {"stop", "reset", "clrReady", "notify"}
  PROVE  count = 0 /\ Busy = {} /\ \A w \in Workers : pc[w] = "wait"
<1>1. count = 0 /\ Busy = {}
  BY BusyFinite DEF RoundInv, CountTypes, AllCalled, TokensConserved
<1>2. \A w \in Workers : pc[w] = "wait"
  BY <1>1 DEF RoundInv, CountTypes, NobodyLeft, Busy, Labels
<1> QED BY <1>1, <1>2

LEMMA RoundInit == Init => RoundInv
<1> SUFFICES ASSUME Init PROVE RoundInv
  OBVIOUS
<1>1. CountTypes /\ Phases /\ NobodyLeft /\ AllCalled
  BY DEF Init, CountTypes, Labels, Phases, NobodyLeft, AllCalled
<1>2. Busy = Workers
  BY DEF Init, Busy
<1>3. TokensConserved
  BY <1>2, BusyFinite DEF Init, TokensConserved, N
<1> QED BY <1>1, <1>3 DEF RoundInv

(* A worker that moves: what becomes of Busy. *)
LEMMA WaitsAfter ==
  ASSUME CountTypes, NEW w \in Workers, pc' = [pc EXCEPT ![w] = "wait"]
  PROVE  Busy' = Busy \ {w}
BY DEF CountTypes, Busy

LEMMA BusyAfter ==
  ASSUME CountTypes, NEW w \in Workers, NEW label \in {"check", "draw", "work", "setReady"},
         pc' = [pc EXCEPT ![w] = label]
  PROVE  Busy' = Busy \cup {w}
BY DEF CountTypes, Busy

LEMMA WorkerInv ==
  ASSUME RoundInv, NEW w \in Workers, Comsumor(w)
  PROVE  RoundInv'
<1>0. UNCHANGED producerVars
  BY DEF Comsumor, SetReady, Wait, CheckStop, Draw, Work
<1>1. CASE g_stop
  <2>1. CountTypes'
    BY <1>0, <1>1
    DEF RoundInv, CountTypes, Labels, producerVars, Comsumor, SetReady, Wait, CheckStop, Draw, Work,
        HasPermit, UsedUp, Goto
  <2> QED BY <1>0, <1>1, <2>1 DEF RoundInv, Phases, NobodyLeft, AllCalled, TokensConserved, producerVars
<1>2. CASE ~g_stop
  <2>1. g_stop' = g_stop /\ main' = main
    BY <1>0 DEF producerVars
  <2>2. main = "spin"
    <3>1. main = "spin" \/ (pc[w] = "wait" /\ count = 0)
      BY <1>2, EverybodyWaits DEF RoundInv, Phases
    <3>2. ~(pc[w] = "wait" /\ count = 0)
      BY DEF RoundInv, CountTypes, Comsumor, SetReady, Wait, CheckStop, Draw, Work, HasPermit
    <3> QED BY <3>1, <3>2
  <2>3. ready + count + Cardinality(Busy) = N
    BY <1>2, <2>2 DEF RoundInv, TokensConserved
  <2>4. CASE SetReady(w)
    <3>1. pc' = [pc EXCEPT ![w] = "wait"] /\ ready' = ready + 1 /\ count' = count /\ w \in Busy
      BY <2>4 DEF SetReady, Goto, Busy
    <3>2. Busy' = Busy \ {w}
      BY <3>1, WaitsAfter DEF RoundInv
    <3>3. Cardinality(Busy') = Cardinality(Busy) - 1
      <4>1. Cardinality(Busy \ {w}) = Cardinality(Busy) - 1
        BY <3>1, BusyFinite, FS_RemoveElement
      <4> QED BY <3>2, <4>1
    <3>4. ready' + count' + Cardinality(Busy') = N
      BY <2>3, <3>1, <3>3, BusyFinite DEF RoundInv, CountTypes
    <3>5. CountTypes' /\ NobodyLeft'
      BY <2>1, <3>1 DEF RoundInv, CountTypes, NobodyLeft, Labels
    <3> QED BY <2>1, <2>2, <3>4, <3>5 DEF RoundInv, Phases, AllCalled, TokensConserved
  <2>5. CASE Wait(w)
    <3>1. pc' = [pc EXCEPT ![w] = "check"] /\ ready' = ready /\ count' = count - 1 /\ count > 0 /\ w \notin Busy
      BY <2>5 DEF Wait, Goto, Busy, HasPermit, UsedUp
    <3>2. Busy' = Busy \cup {w}
      BY <3>1, BusyAfter DEF RoundInv
    <3>3. Cardinality(Busy') = Cardinality(Busy) + 1
      <4>1. Cardinality(Busy \cup {w}) = Cardinality(Busy) + 1
        BY <3>1, BusyFinite, FS_AddElement
      <4> QED BY <3>2, <4>1
    <3>4. ready' + count' + Cardinality(Busy') = N
      BY <2>3, <3>1, <3>3, BusyFinite DEF RoundInv, CountTypes
    <3>5. CountTypes' /\ NobodyLeft'
      BY <2>1, <3>1 DEF RoundInv, CountTypes, NobodyLeft, Labels
    <3> QED BY <2>1, <2>2, <3>4, <3>5 DEF RoundInv, Phases, AllCalled, TokensConserved
  <2>6. CASE CheckStop(w) \/ Draw(w) \/ Work(w)
    <3>1. PICK label \in {"draw", "setReady", "work"} : pc' = [pc EXCEPT ![w] = label]
      BY <1>2, <2>6 DEF CheckStop, Draw, Work, Goto
    <3>2. ready' = ready /\ count' = count /\ w \in Busy
      BY <2>6 DEF CheckStop, Draw, Work, Busy
    <3>3. Busy' = Busy
      BY <3>1, <3>2, BusyAfter, ZenonT(40) DEF RoundInv
    <3>4. CountTypes' /\ NobodyLeft'
      BY <2>1, <3>1, <3>2 DEF RoundInv, CountTypes, NobodyLeft, Labels
    <3> QED BY <2>1, <2>2, <2>3, <3>2, <3>3, <3>4 DEF RoundInv, Phases, AllCalled, TokensConserved
  <2> QED BY <2>4, <2>5, <2>6 DEF Comsumor
<1> QED BY <1>1, <1>2

LEMMA ProductorInv ==
  ASSUME RoundInv, Productor
  PROVE  RoundInv'
<1> USE BusyFinite DEF RoundInv, CountTypes, Phases, NobodyLeft, AllCalled, TokensConserved, Labels, MainGoto
<1>0. Busy' = Busy
  BY DEF Busy, Productor, Spin, Stop, NotifyStop, ResetSeq, ClrReady, Notify, Join, workerVars
<1>1. CASE Spin
  BY <1>0, <1>1 DEF Spin, AllReady, workerVars
<1>2. CASE Stop
  BY <1>0, <1>2 DEF Stop, workerVars
<1>3. CASE NotifyStop
  BY <1>0, <1>3 DEF NotifyStop, Permits, workerVars
<1>4. CASE ResetSeq
  BY <1>0, <1>4 DEF ResetSeq, workerVars
<1>5. CASE ClrReady
  BY <1>0, <1>5, EverybodyWaits DEF ClrReady, workerVars
<1>6. CASE Notify
  BY <1>0, <1>6 DEF Notify, Permits, workerVars
<1>7. CASE Join
  BY <1>0, <1>7 DEF Join, workerVars
<1> QED BY <1>1, <1>2, <1>3, <1>4, <1>5, <1>6, <1>7 DEF Productor

LEMMA RoundNext == RoundInv /\ [Next]_svars => RoundInv'
<1> SUFFICES ASSUME RoundInv, [Next]_svars PROVE RoundInv'
  OBVIOUS
<1>1. CASE UNCHANGED svars
  BY <1>1 DEF svars, RoundInv, CountTypes, Phases, NobodyLeft, AllCalled, TokensConserved, Busy
<1>2. CASE Next
  BY <1>1, <1>2, WorkerInv, ProductorInv DEF Next, Ended
<1> QED BY <1>1, <1>2

(* No permit is left over for a later round and no setReady is swept away  *)
(* by clrReady.                                                            *)
THEOREM TokensAreConserved == Spec => []TokensConserved
<1>1. RoundInv => TokensConserved
  BY DEF RoundInv
<1> QED BY RoundInit, RoundNext, <1>1, PTL DEF Spec

(* Every worker waits while productor prepares the next round. *)
THEOREM RoundsAreApart == Spec => []RoundsDoNotOverlap
<1>1. RoundInv => RoundsDoNotOverlap
  BY EverybodyWaits DEF RoundsDoNotOverlap
<1> QED BY RoundInit, RoundNext, <1>1, PTL DEF Spec

-----------------------------------------------------------------------------
(* The slots of a round. *)

(* The slots are Stride, 2 * Stride, ... below Size. *)
LEMMA StrideMod ==
  ASSUME NEW k \in Nat, NEW s \in Nat
  PROVE  /\ (Stride * k) % Stride = 0
         /\ s % Stride = 0 /\ s > Stride * k => s >= Stride * k + Stride
<1> DEFINE d == Stride
<1>0. d \in Nat \ {0}
  BY SemaAssumption
<1> HIDE DEF d
<1>1. \A m \in Int : m > 0 => d * m >= d
  BY <1>0
<1>2. \A a \in Nat : a \div d \in Int /\ a % d \in 0..(d - 1) /\ a = d * (a \div d) + (a % d)
  BY <1>0
<1>3. ASSUME NEW m \in Int, NEW n \in Int
      PROVE  d * (m - n) = d * m - d * n
  BY <1>0
<1>4. ASSUME NEW m \in Int, NEW n \in Int, d * m > d * n
      PROVE  d * m >= d * n + d
  <2>1. m - n > 0
    <3>1. m <= n => d * m <= d * n
      BY <1>0
    <3>2. d * m \in Int /\ d * n \in Int
      BY <1>0
    <3> QED BY <1>4, <3>1, <3>2
  <2>2. m - n \in Int
    OBVIOUS
  <2>3. d * (m - n) >= d
    BY <1>1, <2>1, <2>2
  <2> QED BY <1>0, <1>3, <2>3
<1>5. (d * k) % d = 0
  <2> DEFINE p == (d * k) \div d
             r == (d * k) % d
  <2>1. p \in Int /\ r \in 0..(d - 1) /\ d * k = d * p + r
    <3>1. d * k \in Nat
      BY <1>0
    <3> QED BY <1>2, <3>1
  <2> HIDE DEF p, r
  <2>2. CASE r > 0
    BY <1>0, <1>4, <2>1, <2>2
  <2> QED BY <1>0, <2>1, <2>2 DEF r
<1>6. ASSUME s % d = 0, s > d * k
      PROVE  s >= d * k + d
  <2> DEFINE p == s \div d
  <2>1. p \in Int /\ s = d * p
    BY <1>0, <1>2, <1>6
  <2> HIDE DEF p
  <2> QED BY <1>4, <1>6, <2>1
<1> QED BY <1>5, <1>6 DEF d

(* The shared position is a multiple of Stride, and no two workers are at  *)
(* the same slot.                                                          *)
AtMultiple == workingSeq \in Nat /\ \E k \in Nat : workingSeq = Stride * k
DrawnOnce ==
  /\ \A w \in Workers : pc[w] = "work" => seq[w] \in Slots /\ seq[w] <= workingSeq
  /\ \A w, v \in Workers : pc[w] = "work" /\ pc[v] = "work" /\ seq[w] = seq[v] => w = v

(* Before the first round no worker has a permit, unless the stop gives it *)
(* one.                                                                     *)
BeforeFirstRound ==
  round = 0 =>
    /\ workingSeq = 0 /\ main \in {"spin", "stop", "notifyStop", "reset"}
    /\ \A w \in Workers : pc[w] \notin {"draw", "work"}
    /\ ~g_stop => count = 0 /\ \A w \in Workers : pc[w] # "check"
(* The stop comes between rounds, and no round follows it.                  *)
AfterStop == g_stop => \A w \in Workers : pc[w] \in {"wait", "check", "exited"}

(* A worker calls setReady again only when it finds no slot left; so when *)
(* productor sees workers ready, the shared position is past the last one. *)
AskedAgain == ready > 0 \/ \E w \in Workers : pc[w] = "setReady"
AllDrawn ==
  round > 0 /\ (main \in {"stop", "notifyStop", "reset"} \/ (main = "spin" /\ AskedAgain))
    => workingSeq + Stride >= Size

WorkInv == RoundInv /\ TypeOK /\ AtMultiple /\ DrawnOnce /\ BeforeFirstRound /\ AfterStop /\ AllDrawn

LEMMA WorkInit == Init => WorkInv
<1> SUFFICES ASSUME Init PROVE WorkInv
  OBVIOUS
<1>1. AtMultiple
  <2>1. 0 \in Nat /\ Stride * 0 = 0
    BY SemaAssumption
  <2> QED BY <2>1 DEF Init, AtMultiple
<1>2. TypeOK
  BY DEF Init, TypeOK
<1>3. DrawnOnce /\ BeforeFirstRound /\ AfterStop /\ AllDrawn
  BY DEF Init, DrawnOnce, BeforeFirstRound, AfterStop, AllDrawn
<1> QED BY <1>1, <1>2, <1>3, RoundInit DEF WorkInv

(* A worker that draws: round is not 0, and it gets the next slot if there *)
(* is one.                                                                 *)
LEMMA NextSlot ==
  ASSUME WorkInv, NEW w \in Workers, pc[w] = "draw"
  PROVE  /\ ~g_stop /\ round > 0
         /\ workingSeq + Stride \in Nat
         /\ \E k \in Nat : workingSeq + Stride = Stride * k
         /\ workingSeq + Stride < Size => workingSeq + Stride \in Slots
         /\ \A s \in Slots : s > workingSeq => s >= workingSeq + Stride
<1>1. ~g_stop /\ round > 0
  BY DEF WorkInv, AfterStop, BeforeFirstRound, TypeOK
<1>2. PICK k \in Nat : workingSeq = Stride * k
  BY DEF WorkInv, AtMultiple
<1>3. Stride * (k + 1) = Stride * k + Stride /\ k + 1 \in Nat /\ workingSeq \in Nat
  BY SemaAssumption DEF WorkInv, TypeOK
<1>4. workingSeq + Stride = Stride * (k + 1) /\ workingSeq + Stride \in Nat
  BY <1>2, <1>3, SemaAssumption
<1>5. workingSeq + Stride < Size => workingSeq + Stride \in Slots
  <2>1. (Stride * (k + 1)) % Stride = 0
    BY <1>3, StrideMod
  <2>2. (workingSeq + Stride) % Stride = 0
    BY <1>4, <2>1
  <2>3. workingSeq + Stride >= 1
    BY <1>3, SemaAssumption
  <2> QED BY <1>4, <2>2, <2>3, SemaAssumption DEF Slots
<1>6. \A s \in Slots : s > workingSeq => s >= workingSeq + Stride
  <2> SUFFICES ASSUME NEW s \in Slots, s > workingSeq PROVE s >= workingSeq + Stride
    OBVIOUS
  <2>1. s \in Nat /\ s % Stride = 0
    BY DEF Slots
  <2>2. s > Stride * k
    BY <1>2
  <2>3. s >= Stride * k + Stride
    BY <2>1, <2>2, StrideMod
  <2> QED BY <1>2, <2>3
<1> QED BY <1>1, <1>3, <1>4, <1>5, <1>6

(* A draw: a slot nobody has is handed out, or the worker is done.          *)
LEMMA DrawKeeps ==
  ASSUME WorkInv, NEW w \in Workers, Draw(w)
  PROVE  TypeOK' /\ AtMultiple' /\ DrawnOnce' /\ BeforeFirstRound' /\ AfterStop' /\ AllDrawn'
<1> DEFINE s == workingSeq + Stride
<1>1. /\ pc[w] = "draw" /\ workingSeq' = s /\ UNCHANGED <<ready, count, worked, g_stop, round, main>>
      /\ \/ s >= Size /\ pc' = [pc EXCEPT ![w] = "setReady"] /\ seq' = seq
         \/ ~(s >= Size) /\ pc' = [pc EXCEPT ![w] = "work"] /\ seq' = [seq EXCEPT ![w] = s]
  BY DEF Draw, Goto, producerVars
<1>2. /\ ~g_stop /\ round > 0 /\ s \in Nat /\ \E k \in Nat : s = Stride * k
      /\ s < Size => s \in Slots
  BY <1>1, NextSlot
<1>3. s > workingSeq /\ workingSeq \in Nat
  BY SemaAssumption DEF WorkInv, TypeOK
<1> HIDE DEF s
<1>4. AtMultiple' /\ BeforeFirstRound' /\ AfterStop'
  BY <1>1, <1>2 DEF AtMultiple, BeforeFirstRound, AfterStop
<1>5. CASE s >= Size
  <2>1. TypeOK'
    BY <1>1, <1>2, <1>5 DEF WorkInv, TypeOK
  <2>2. DrawnOnce'
    BY <1>1, <1>2, <1>3, <1>5 DEF WorkInv, TypeOK, DrawnOnce, Slots
  <2>3. AllDrawn'
    BY <1>1, <1>2, <1>5, SemaAssumption DEF AllDrawn
  <2> QED BY <1>4, <2>1, <2>2, <2>3
<1>6. CASE ~(s >= Size)
  <2>0. s \in Slots
    BY <1>2, <1>6, SemaAssumption
  <2>1. TypeOK'
    BY <1>1, <1>2, <1>6, <2>0 DEF WorkInv, TypeOK
  <2>2. DrawnOnce'
    <3>1. \A v \in Workers : pc'[v] = "work" =>
            \/ v = w /\ seq'[v] = s
            \/ v # w /\ pc[v] = "work" /\ seq'[v] = seq[v] /\ seq[v] \in Slots /\ seq[v] <= workingSeq
      BY <1>1, <1>6 DEF WorkInv, TypeOK, DrawnOnce
    <3>2. \A v \in Slots : v \in Nat
      BY DEF Slots
    <3>3. ASSUME NEW v \in Workers, pc'[v] = "work"
          PROVE  seq'[v] \in Slots /\ seq'[v] <= s
      <4>1. CASE v = w
        BY <1>2, <2>0, <3>1, <3>3, <4>1
      <4>2. CASE v # w
        BY <1>2, <1>3, <3>1, <3>2, <3>3, <4>2
      <4> QED BY <4>1, <4>2
    <3>4. ASSUME NEW u \in Workers, NEW v \in Workers, pc'[u] = "work", pc'[v] = "work", seq'[u] = seq'[v]
          PROVE  u = v
      <4>1. CASE u # w /\ v # w
        BY <3>1, <3>4, <4>1 DEF WorkInv, DrawnOnce
      <4>2. CASE u = w \/ v = w
        BY <1>2, <1>3, <3>1, <3>2, <3>4, <4>2
      <4> QED BY <4>1, <4>2
    <3> QED BY <1>1, <3>3, <3>4 DEF DrawnOnce
  <2>3. AskedAgain' => AskedAgain
    BY <1>1, <1>6 DEF WorkInv, TypeOK, AskedAgain
  <2>4. AllDrawn'
    BY <1>1, <1>2, <1>3, <2>3, SemaAssumption DEF WorkInv, AllDrawn
  <2> QED BY <1>4, <2>1, <2>2, <2>4
<1> QED BY <1>5, <1>6

(* The other statements of a worker.                                        *)
LEMMA ComsumorKeeps ==
  ASSUME WorkInv, NEW w \in Workers, Comsumor(w)
  PROVE  TypeOK' /\ AtMultiple' /\ DrawnOnce' /\ BeforeFirstRound' /\ AfterStop' /\ AllDrawn'
<1> USE DEF WorkInv, TypeOK, producerVars
<1>1. ASSUME NEW label \in {"wait", "check", "draw", "exited"},
             pc' = [pc EXCEPT ![w] = label], pc[w] # "work",
             UNCHANGED <<workingSeq, worked, seq, g_stop, round, main>>,
             ready' \in Nat, count' \in Nat,
             AskedAgain' => AskedAgain,
             label # "draw" \/ (~g_stop /\ round # 0),
             g_stop => label \in {"wait", "check", "exited"},
             round = 0 /\ ~g_stop => count' = 0 /\ label # "check"
      PROVE  TypeOK' /\ AtMultiple' /\ DrawnOnce' /\ BeforeFirstRound' /\ AfterStop' /\ AllDrawn'
  <2>1. TypeOK' /\ AtMultiple'
    BY <1>1 DEF AtMultiple
  <2>2. DrawnOnce'
    BY <1>1 DEF DrawnOnce
  <2>3. BeforeFirstRound' /\ AfterStop'
    BY <1>1 DEF BeforeFirstRound, AfterStop
  <2>4. AllDrawn'
    BY <1>1 DEF AllDrawn
  <2> QED BY <2>1, <2>2, <2>3, <2>4
<1>2. CASE SetReady(w)
  <2>1. AskedAgain
    BY <1>2 DEF SetReady, AskedAgain
  <2>2. round = 0 /\ ~g_stop => count' = 0
    BY <1>2 DEF SetReady, BeforeFirstRound
  <2> QED BY <1>1, <1>2, <2>1, <2>2 DEF SetReady, Goto
<1>3. CASE Wait(w)
  <2>1. AskedAgain' => AskedAgain
    BY <1>3 DEF Wait, Goto, AskedAgain
  <2>2. count > 0 /\ count' = count - 1
    BY <1>3 DEF Wait, HasPermit, UsedUp
  <2>3. ~(round = 0 /\ ~g_stop)
    BY <2>2 DEF BeforeFirstRound
  <2> QED BY <1>1, <1>3, <2>1, <2>2, <2>3 DEF Wait, Goto
<1>4. CASE CheckStop(w)
  <2>1. AskedAgain' => AskedAgain
    BY <1>4 DEF CheckStop, Goto, AskedAgain
  <2>2. ~(round = 0 /\ ~g_stop)
    BY <1>4 DEF CheckStop, BeforeFirstRound
  <2> QED BY <1>1, <1>4, <2>1, <2>2 DEF CheckStop, Goto
<1>5. CASE Draw(w)
  BY <1>5, DrawKeeps
<1>6. CASE Work(w)
  <2>1. pc[w] = "work" /\ pc' = [pc EXCEPT ![w] = "draw"]
        /\ UNCHANGED <<ready, count, workingSeq, seq, g_stop, round, main>>
    BY <1>6 DEF Work, Goto
  <2>2. worked' \in [Slots -> Nat]
    BY <1>6 DEF Work, DrawnOnce
  <2>3. ~g_stop /\ round # 0
    BY <2>1 DEF AfterStop, BeforeFirstRound
  <2>4. AskedAgain' => AskedAgain
    BY <2>1 DEF AskedAgain
  <2>5. TypeOK' /\ AtMultiple'
    BY <2>1, <2>2 DEF AtMultiple
  <2>6. DrawnOnce' /\ BeforeFirstRound' /\ AfterStop' /\ AllDrawn'
    BY <2>1, <2>3, <2>4 DEF DrawnOnce, BeforeFirstRound, AfterStop, AllDrawn
  <2> QED BY <2>5, <2>6
<1> QED BY <1>2, <1>3, <1>4, <1>5, <1>6 DEF Comsumor

(* The statements of productor.                                             *)
LEMMA ProductorKeeps ==
  ASSUME WorkInv, Productor
  PROVE  TypeOK' /\ AtMultiple' /\ DrawnOnce' /\ BeforeFirstRound' /\ AfterStop' /\ AllDrawn'
<1> USE BusyFinite DEF WorkInv, TypeOK, workerVars, MainGoto
<1>0. UNCHANGED <<worked, seq, pc>>
  BY DEF Productor, Spin, Stop, NotifyStop, ResetSeq, ClrReady, Notify, Join
<1>1. TypeOK'
  <2>1. ready' \in Nat /\ count' \in Nat /\ workingSeq' \in Nat /\ round' \in Nat /\ g_stop' \in BOOLEAN
    <3>1. CASE Spin \/ Join
      BY <3>1 DEF Spin, Join
    <3>2. CASE Stop \/ ResetSeq \/ ClrReady
      <4>1. CASE Stop
        BY <4>1 DEF Stop
      <4>2. CASE ResetSeq
        BY <4>2 DEF ResetSeq
      <4>3. CASE ClrReady
        BY <4>3 DEF ClrReady
      <4> QED BY <3>2, <4>1, <4>2, <4>3
    <3>3. CASE NotifyStop \/ Notify
      <4>1. N \in Nat /\ count \in Nat
        OBVIOUS
      <4> HIDE DEF N
      <4> QED BY <3>3, <4>1 DEF NotifyStop, Notify, Permits
    <3> QED BY <3>1, <3>2, <3>3 DEF Productor
  <2>2. main' \in {"spin", "stop", "notifyStop", "reset", "clrReady", "notify", "join", "end"}
    BY DEF Productor, Spin, Stop, NotifyStop, ResetSeq, ClrReady, Notify, Join
  <2> QED BY <1>0, <2>1, <2>2
<1>2. CASE Spin
  <2>1. AskedAgain
    BY <1>2 DEF Spin, AllReady, AskedAgain
  <2>2. AtMultiple' /\ DrawnOnce' /\ BeforeFirstRound' /\ AfterStop'
    BY <1>2 DEF Spin, AtMultiple, DrawnOnce, BeforeFirstRound, AfterStop
  <2>3. AllDrawn'
    BY <1>2, <2>1 DEF Spin, AllDrawn
  <2> QED BY <1>1, <2>2, <2>3
<1>3. CASE Stop
  <2>1. \A w \in Workers : pc[w] = "wait"
    BY <1>3, EverybodyWaits DEF Stop, RoundInv, Phases
  <2>2. AtMultiple' /\ DrawnOnce' /\ BeforeFirstRound'
    BY <1>3 DEF Stop, AtMultiple, DrawnOnce, BeforeFirstRound
  <2>3. AfterStop' /\ AllDrawn'
    BY <1>3, <2>1 DEF Stop, AfterStop, AllDrawn
  <2> QED BY <1>1, <2>2, <2>3
<1>4. CASE NotifyStop
  <2>1. g_stop
    BY <1>4 DEF NotifyStop, RoundInv, Phases
  <2>2. AtMultiple' /\ DrawnOnce' /\ BeforeFirstRound'
    BY <1>4, <2>1 DEF NotifyStop, AtMultiple, DrawnOnce, BeforeFirstRound
  <2>3. AfterStop' /\ AllDrawn'
    BY <1>4 DEF NotifyStop, AfterStop, AllDrawn
  <2> QED BY <1>1, <2>2, <2>3
<1>5. CASE ResetSeq
  <2>1. \A w \in Workers : pc[w] # "work"
    BY <1>5, EverybodyWaits DEF ResetSeq, AfterStop
  <2>2. AtMultiple'
    <3>1. 0 \in Nat /\ Stride * 0 = 0
      BY SemaAssumption
    <3> QED BY <1>5, <3>1 DEF ResetSeq, AtMultiple
  <2>3. DrawnOnce' /\ BeforeFirstRound' /\ AfterStop' /\ AllDrawn'
    BY <1>5, <2>1 DEF ResetSeq, DrawnOnce, BeforeFirstRound, AfterStop, AllDrawn
  <2> QED BY <1>1, <2>2, <2>3
<1>6. CASE ClrReady
  BY <1>1, <1>6 DEF ClrReady, AtMultiple, DrawnOnce, BeforeFirstRound, AfterStop, AllDrawn
<1>7. CASE Notify
  <2>1. round # 0
    BY <1>7 DEF Notify, BeforeFirstRound
  <2>2. ~g_stop => ready = 0 /\ \A w \in Workers : pc[w] = "wait"
    BY <1>7, EverybodyWaits DEF Notify, RoundInv, TokensConserved
  <2>3. AtMultiple' /\ DrawnOnce' /\ BeforeFirstRound' /\ AfterStop'
    BY <1>7, <2>1 DEF Notify, AtMultiple, DrawnOnce, BeforeFirstRound, AfterStop
  <2>4. AllDrawn'
    BY <1>7, <2>2 DEF Notify, AllDrawn, AskedAgain
  <2> QED BY <1>1, <2>3, <2>4
<1>8. CASE Join
  BY <1>1, <1>8 DEF Join, AtMultiple, DrawnOnce, BeforeFirstRound, AfterStop, AllDrawn
<1> QED BY <1>2, <1>3, <1>4, <1>5, <1>6, <1>7, <1>8 DEF Productor

LEMMA WorkNext == WorkInv /\ [Next]_svars => WorkInv'
<1> SUFFICES ASSUME WorkInv, [Next]_svars PROVE WorkInv'
  OBVIOUS
<1>1. RoundInv'
  BY RoundNext DEF WorkInv
<1>2. CASE UNCHANGED svars
  <2>1. TypeOK' /\ AtMultiple' /\ DrawnOnce'
    BY <1>2 DEF WorkInv, svars, TypeOK, AtMultiple, DrawnOnce
  <2>2. BeforeFirstRound' /\ AfterStop' /\ AllDrawn'
    BY <1>2 DEF WorkInv, svars, BeforeFirstRound, AfterStop, AllDrawn, AskedAgain
  <2> QED BY <1>1, <2>1, <2>2 DEF WorkInv
<1>3. CASE Productor \/ \E w \in Workers : Comsumor(w)
  BY <1>1, <1>3, ProductorKeeps, ComsumorKeeps DEF WorkInv
<1> QED BY <1>2, <1>3 DEF Next, Ended

LEMMA WorkSafe == Spec => []WorkInv
<1> QED BY WorkInit, WorkNext, PTL DEF Spec

(* Every variable keeps its type; a worker that works has drawn a slot of   *)
(* the workspace, so that no worker writes past its end.                    *)
THEOREM TypeCorrect == Spec => []TypeOK
<1>1. WorkInv => TypeOK
  BY DEF WorkInv
<1> QED BY <1>1, WorkSafe, PTL

(* What WorkerIn picks.                                                     *)
LEMMA WorkerInSet ==
  /\ WorkerIn({}) = Nobody
  /\ \A w : WorkerIn({w}) = w
  /\ \A ws : ws # {} => WorkerIn(ws) \in ws
BY DEF WorkerIn

(* Nobody works on a slot no worker is at. *)
LEMMA WorkerAt ==
  ASSUME DrawnOnce, NEW s \in Slots
  PROVE  /\ WorkerOf[s] = Nobody <=> WorkingOn(s) = {}
         /\ \A w \in Workers : WorkerOf[s] = w <=> pc[w] = "work" /\ seq[w] = s
<1>1. WorkerOf[s] = WorkerIn(WorkingOn(s))
  BY DEF WorkerOf
<1>2. \A w \in WorkingOn(s) : w \in Workers /\ w # Nobody /\ pc[w] = "work" /\ seq[w] = s
  BY SemaAssumption DEF WorkingOn
<1>3. \A w, v \in WorkingOn(s) : w = v
  BY <1>2 DEF DrawnOnce
<1>4. \A w \in Workers : pc[w] = "work" /\ seq[w] = s => w \in WorkingOn(s)
  BY DEF WorkingOn
<1>5. CASE WorkingOn(s) = {}
  BY <1>1, <1>4, <1>5, WorkerInSet, SemaAssumption
<1>6. CASE WorkingOn(s) # {}
  <2>1. WorkerOf[s] \in WorkingOn(s)
    BY <1>1, <1>6, WorkerInSet
  <2> QED BY <1>2, <1>3, <1>4, <1>6, <2>1
<1> QED BY <1>5, <1>6

(* A step that lets no worker begin or end its work leaves the mapped      *)
(* workers as they are.                                                    *)
LEMMA SameWorkers ==
  ASSUME \A w \in Workers : (pc'[w] = "work" <=> pc[w] = "work") /\ (pc[w] = "work" => seq'[w] = seq[w])
  PROVE  WorkerOf' = WorkerOf
<1>1. \A s \in Slots : WorkingOn(s)' = WorkingOn(s)
  BY DEF WorkingOn
<1>2. ASSUME NEW s \in Slots PROVE WorkerIn(WorkingOn(s))' = WorkerIn(WorkingOn(s))
  <2>1. WorkingOn(s)' = WorkingOn(s)
    BY <1>1
  <2> QED BY <2>1 DEF WorkerIn
<1> QED BY <1>2 DEF WorkerOf

LEMMA RoundsBegin == Init => Barrier!RInit
<1> SUFFICES ASSUME Init PROVE Barrier!RInit
  OBVIOUS
<1>1. Todo = {}
  BY DEF Init, Todo
<1>2. \A s \in Slots : WorkingOn(s) = {}
  BY DEF Init, WorkingOn
<1>3. WorkerOf = [s \in Slots |-> Nobody]
  BY <1>2, WorkerInSet DEF WorkerOf
<1> QED BY <1>1, <1>3 DEF Barrier!RInit

(* A draw takes the lowest slot left of the round, or finds none.           *)
LEMMA DrawTakes ==
  ASSUME WorkInv, NEW w \in Workers, Draw(w)
  PROVE  Barrier!RNext \/ UNCHANGED <<Todo, WorkerOf>>
<1>0. PICK s : s = workingSeq + Stride
  OBVIOUS
<1>1. /\ pc[w] = "draw" /\ workingSeq' = s /\ UNCHANGED round
      /\ \/ s >= Size /\ pc' = [pc EXCEPT ![w] = "setReady"] /\ seq' = seq
         \/ ~(s >= Size) /\ pc' = [pc EXCEPT ![w] = "work"] /\ seq' = [seq EXCEPT ![w] = s]
  BY <1>0 DEF Draw, Goto, producerVars
<1>2. /\ round > 0 /\ s \in Nat
      /\ s < Size => s \in Slots
      /\ \A z \in Slots : z > workingSeq => z >= s
  BY <1>0, <1>1, NextSlot
<1>3. s > workingSeq /\ workingSeq \in Nat /\ Size \in Nat
  BY <1>0, SemaAssumption DEF WorkInv, TypeOK
<1>4. /\ \A z \in Slots : z \in Nat /\ z < Size
      /\ pc \in [Workers -> {"setReady", "wait", "check", "draw", "work", "exited"}]
      /\ seq \in [Workers -> Slots \cup {0}]
  BY <1>3 DEF WorkInv, TypeOK, Slots
<1>5. Todo = {z \in Slots : z > workingSeq} /\ Todo' = {z \in Slots : z > s}
  BY <1>1, <1>2 DEF Todo
<1>6. CASE s >= Size
  <2>1. Todo' = Todo
    BY <1>2, <1>3, <1>4, <1>5, <1>6
  <2>2. WorkerOf' = WorkerOf
    BY <1>1, <1>2, <1>3, <1>4, <1>6, SameWorkers
  <2> QED BY <2>1, <2>2
<1>7. CASE ~(s >= Size)
  <2>1. s \in Slots /\ pc' = [pc EXCEPT ![w] = "work"] /\ seq' = [seq EXCEPT ![w] = s]
    BY <1>1, <1>2, <1>3, <1>7
  <2>2. s \in Todo /\ Todo' = Todo \ {s}
    <3>1. s \in Todo
      BY <1>3, <1>5, <2>1
    <3>2. \A z \in Slots : z > s <=> z > workingSeq /\ z # s
      BY <1>2, <1>3, <1>4
    <3> QED BY <1>5, <3>1, <3>2
  <2>3. \A z \in Slots : WorkerOf[z] # w
    BY <1>1, WorkerAt DEF WorkInv
  <2>4. WorkingOn(s)' = {w}
    <3>1. \A v \in Workers : pc[v] = "work" => seq[v] # s
      BY <1>3, <1>4 DEF WorkInv, DrawnOnce
    <3>2. \A v \in Workers : pc'[v] = "work" /\ seq'[v] = s <=> v = w
      BY <1>4, <2>1, <3>1
    <3> QED BY <3>2 DEF WorkingOn
  <2>5. \A z \in Slots \ {s} : WorkingOn(z)' = WorkingOn(z)
    BY <1>1, <1>4, <2>1 DEF WorkingOn
  <2>6. WorkerOf' = [WorkerOf EXCEPT ![s] = w]
    <3>1. ASSUME NEW z \in Slots \ {s} PROVE WorkerIn(WorkingOn(z))' = WorkerIn(WorkingOn(z))
      <4>1. WorkingOn(z)' = WorkingOn(z)
        BY <2>5
      <4> QED BY <4>1 DEF WorkerIn
    <3>2. WorkerIn(WorkingOn(s))' = w
      BY <2>4 DEF WorkerIn
    <3>3. \A z \in Slots : WorkerOf'[z] = IF z = s THEN w ELSE WorkerOf[z]
      BY <3>1, <3>2 DEF WorkerOf
    <3> QED BY <2>1, <3>3 DEF WorkerOf
  <2>7. Barrier!Take(w, s)
    BY <2>2, <2>3, <2>6 DEF Barrier!Take
  <2> QED BY <2>1, <2>7 DEF Barrier!RNext
<1> QED BY <1>6, <1>7

LEMMA WorkFinishes ==
  ASSUME WorkInv, NEW w \in Workers, Work(w)
  PROVE  Barrier!RNext
<1>0. PICK s : s = seq[w]
  OBVIOUS
<1>1. /\ pc[w] = "work" /\ pc' = [pc EXCEPT ![w] = "draw"] /\ UNCHANGED <<workingSeq, round, seq>>
      /\ pc \in [Workers -> {"setReady", "wait", "check", "draw", "work", "exited"}]
  BY DEF Work, Goto, producerVars, WorkInv, TypeOK
<1>2. s \in Slots /\ WorkerOf[s] = w
  BY <1>0, <1>1, WorkerAt DEF WorkInv, DrawnOnce
<1>3. Todo' = Todo
  BY <1>1 DEF Todo
<1>4. WorkingOn(s)' = {}
  BY <1>0, <1>1 DEF WorkingOn, WorkInv, DrawnOnce
<1>5. \A z \in Slots \ {s} : WorkingOn(z)' = WorkingOn(z)
  BY <1>0, <1>1 DEF WorkingOn
<1>6. WorkerOf' = [WorkerOf EXCEPT ![s] = Nobody]
  <2>1. ASSUME NEW z \in Slots \ {s} PROVE WorkerIn(WorkingOn(z))' = WorkerIn(WorkingOn(z))
    <3>1. WorkingOn(z)' = WorkingOn(z)
      BY <1>5
    <3> QED BY <3>1 DEF WorkerIn
  <2>2. WorkerIn(WorkingOn(s))' = Nobody
    BY <1>4 DEF WorkerIn
  <2>3. \A z \in Slots : WorkerOf'[z] = IF z = s THEN Nobody ELSE WorkerOf[z]
    BY <2>1, <2>2 DEF WorkerOf
  <2> QED BY <1>2, <2>3 DEF WorkerOf
<1> QED BY <1>2, <1>3, <1>6 DEF Barrier!RNext, Barrier!Finish

(* productor resets the shared position: every slot of the round before has *)
(* been taken and none is being worked on, so a round starts.               *)
LEMMA ResetStarts ==
  ASSUME WorkInv, ResetSeq
  PROVE  Barrier!RNext
<1>1. /\ main = "reset" /\ workingSeq' = 0 /\ round' = round + 1 /\ round \in Nat
      /\ UNCHANGED <<pc, seq>>
  BY DEF ResetSeq, workerVars, WorkInv, TypeOK
<1>2. \A w \in Workers : pc[w] # "work"
  BY <1>1, EverybodyWaits DEF WorkInv, AfterStop
<1>3. WorkerOf' = WorkerOf
  BY <1>1, SameWorkers
<1>4. \A s \in Slots : WorkerOf[s] = Nobody
  BY <1>2, WorkerAt DEF WorkInv, WorkingOn
<1>5. Todo = {}
  <2>1. CASE round = 0
    BY <2>1 DEF Todo
  <2>2. CASE round # 0
    <3>1. workingSeq + Stride >= Size /\ workingSeq \in Nat
      BY <1>1, <2>2 DEF WorkInv, AllDrawn, TypeOK
    <3>2. PICK k \in Nat : workingSeq = Stride * k
      BY DEF WorkInv, AtMultiple
    <3>3. ASSUME NEW s \in Slots, s > workingSeq
          PROVE  FALSE
      <4>1. s \in Nat /\ s % Stride = 0 /\ s < Size
        BY <3>3, SemaAssumption DEF Slots
      <4>2. s > Stride * k
        BY <3>2, <3>3
      <4>3. s >= Stride * k + Stride
        BY <4>1, <4>2, StrideMod
      <4>4. s >= workingSeq + Stride
        BY <3>2, <4>3
      <4> QED BY <3>1, <4>1, <4>4, SemaAssumption
    <3> QED BY <3>3 DEF Todo
  <2> QED BY <2>1, <2>2
<1>6. Todo' = Slots
  BY <1>1 DEF Todo, Slots
<1> QED BY <1>3, <1>4, <1>5, <1>6 DEF Barrier!RNext, Barrier!StartRound

(* Every other step is invisible in WorkRounds.                             *)
LEMMA StepInRounds == WorkInv /\ [Next]_svars => [Barrier!RNext]_(Barrier!rvars)
<1> SUFFICES ASSUME WorkInv, [Next]_svars
             PROVE  Barrier!RNext \/ UNCHANGED <<Todo, WorkerOf>>
  BY DEF Barrier!rvars
<1> USE DEF WorkInv, TypeOK
<1>1. CASE \E w \in Workers : SetReady(w) \/ Wait(w) \/ CheckStop(w)
  <2>1. UNCHANGED <<workingSeq, round, seq>> /\ \A w \in Workers : pc'[w] = "work" <=> pc[w] = "work"
    BY <1>1 DEF SetReady, Wait, CheckStop, Goto, producerVars
  <2>2. Todo' = Todo
    BY <2>1 DEF Todo
  <2> QED BY <2>1, <2>2, SameWorkers
<1>2. CASE \E w \in Workers : Draw(w)
  BY <1>2, DrawTakes
<1>3. CASE \E w \in Workers : Work(w)
  BY <1>3, WorkFinishes
<1>4. CASE ResetSeq
  BY <1>4, ResetStarts
<1>5. CASE Spin \/ Stop \/ NotifyStop \/ ClrReady \/ Notify \/ Join \/ Ended \/ UNCHANGED svars
  <2>1. UNCHANGED <<workingSeq, round, seq, pc>>
    BY <1>5 DEF Spin, Stop, NotifyStop, ClrReady, Notify, Join, Ended, svars, workerVars
  <2>2. Todo' = Todo
    BY <2>1 DEF Todo
  <2> QED BY <2>1, <2>2, SameWorkers
<1> QED BY <1>1, <1>2, <1>3, <1>4, <1>5 DEF Next, Comsumor, Productor

(* The barrier test_semaphore.cpp makes of the semaphore implements work in *)
(* rounds: whatever the threads do, a slot is taken once in a round, by one *)
(* worker, and a round starts when the last one is finished.                *)
THEOREM RoundsImplemented == Spec => WorksInRounds
<1>1. WorkInv /\ [Next]_svars => [Barrier!RNext]_(Barrier!rvars)
  BY StepInRounds
<1> QED BY <1>1, RoundsBegin, WorkSafe, PTL DEF Spec, WorksInRounds, Barrier!RSpec

-----------------------------------------------------------------------------
(* s4logger. *)

(* What FilesAsConfigured rests on: the map and the registry agree whatever *)
(* the state, and there are no files before the object is made.            *)
Registered ==
  /\ registry \in [Names -> Folders \cup {None}]
  /\ _file_loggers = {n \in Names : registry[n] # None}
  /\ _param \in Configs

NothingYet == state = "none" => _file_loggers = {} /\ sinks = {} /\ _param.console

(* A file that is not in use has nothing in its buffer. *)
OthersEmpty ==
  /\ buffered \in [Names -> Nat]
  /\ \A n \in Names \ sinks : buffered[n] = 0

LogInv == Registered /\ NothingYet /\ FilesAsConfigured /\ OthersEmpty

LEMMA WantedAreNames ==
  ASSUME NEW p \in Configs
  PROVE  Wanted(p) \subseteq Names /\ Unwanted(p) \subseteq Names /\ Wanted(p) \cap Unwanted(p) = {}
         /\ p.save_path \in Folders
BY LoggerAssumption DEF Configs, Wanted, Unwanted, Names

LEMMA LogInitInv == LogInit => LogInv
BY DEF LogInit, LogInv, Registered, NothingYet, FilesAsConfigured, OthersEmpty

(* init() leaves the files of the new configuration in use, where it wants *)
(* them if none had to move, and hands over what was buffered.             *)
LEMMA InitFilesInv ==
  ASSUME LogInv, NEW p \in Configs, Moved(p) = {}, InitFiles(p)
  PROVE  /\ registry' \in [Names -> Folders \cup {None}]
         /\ _file_loggers' = {n \in Names : registry'[n] # None}
         /\ sinks' = Wanted(p) /\ \A n \in Wanted(p) : registry'[n] = p.save_path
         /\ OthersEmpty'
<1>1. /\ registry \in [Names -> Folders \cup {None}]
      /\ _file_loggers = {n \in Names : registry[n] # None}
      /\ None \notin Folders
  BY LoggerAssumption DEF LogInv, Registered
<1>2. /\ Wanted(p) \subseteq Names /\ Unwanted(p) \subseteq Names /\ Wanted(p) \cap Unwanted(p) = {}
      /\ p.save_path \in Folders
  BY WantedAreNames
<1>3. \A n \in Names : registry'[n] = IF n \in Unwanted(p) \cap _file_loggers THEN None
                                      ELSE IF n \in Wanted(p) \ _file_loggers THEN p.save_path
                                      ELSE registry[n]
  BY DEF InitFiles
<1>4. registry' \in [Names -> Folders \cup {None}]
  BY <1>1, <1>2 DEF InitFiles
<1>5. _file_loggers' = {n \in Names : registry'[n] # None}
  <2>1. _file_loggers' = (_file_loggers \ (Unwanted(p) \cap _file_loggers)) \cup Wanted(p)
    BY DEF InitFiles, Dropped
  <2>2. \A n \in Names : registry'[n] # None <=> n \in _file_loggers'
    BY <1>1, <1>2, <1>3, <2>1
  <2> QED BY <1>1, <1>2, <2>1, <2>2
<1>6. sinks' = Wanted(p) /\ \A n \in Wanted(p) : registry'[n] = p.save_path
  BY <1>1, <1>2, <1>3 DEF InitFiles, Moved
<1>7. OthersEmpty'
  <2>1. \A n \in Names : Flushed(buffered)[n] = 0
    BY DEF LogInv, OthersEmpty, Flushed
  <2>2. \A n \in Names : buffered'[n] = 0
    BY <2>1 DEF InitFiles
  <2>3. buffered' = [n \in Names |-> IF n \in Dropped(p) THEN 0 ELSE Flushed(buffered)[n]]
    BY DEF InitFiles
  <2> HIDE DEF Flushed
  <2> QED BY <2>1, <2>2, <2>3 DEF OthersEmpty
<1> QED BY <1>4, <1>5, <1>6, <1>7

LEMMA MakeInstanceInv ==
  ASSUME LogInv, MakeInstance \/ \E got \in {{}, {<<_param.file_preamble, "all_pure">>}} : MakeInstanceFails(got)
  PROVE  LogInv'
<1>1. _param \in Configs /\ state = "none" /\ _file_loggers = {} /\ _param.console
  BY DEF LogInv, Registered, NothingYet, MakeInstance, MakeInstanceFails
<1>2. CASE MakeInstance
  <2>1. Moved(_param) = {}
    BY <1>1 DEF Moved
  <2>2. _param' = _param /\ state' = "running" /\ _console' = TRUE /\ InitFiles(_param)
    BY <1>2 DEF MakeInstance
  <2>3. /\ registry' \in [Names -> Folders \cup {None}]
        /\ _file_loggers' = {n \in Names : registry'[n] # None}
        /\ sinks' = Wanted(_param) /\ \A n \in Wanted(_param) : registry'[n] = _param.save_path
        /\ OthersEmpty'
    BY <1>1, <2>1, <2>2, InitFilesInv
  <2>4. _param.console = TRUE
    BY <1>1 DEF Configs
  <2>5. FilesAsConfigured'
    BY <2>2, <2>3, <2>4 DEF FilesAsConfigured, Wanted
  <2> QED BY <1>1, <2>2, <2>3, <2>5 DEF LogInv, Registered, NothingYet
<1>3. ASSUME NEW got \in {{}, {<<_param.file_preamble, "all_pure">>}}, MakeInstanceFails(got)
      PROVE  LogInv'
  <2>1. got \subseteq Names /\ _param.save_path \in Folders /\ None \notin Folders
    BY <1>1, <1>3, LoggerAssumption DEF Configs, Names, Kinds
  <2>2. /\ registry' = [n \in Names |-> IF n \in got THEN _param.save_path ELSE None]
        /\ _file_loggers' = got /\ sinks' = got /\ state' = "half"
        /\ UNCHANGED <<_param, buffered>>
    BY <1>3 DEF MakeInstanceFails
  <2>3. Registered'
    BY <1>1, <2>1, <2>2 DEF Registered
  <2>4. \A n \in Names : buffered[n] = 0
    <3>1. \A n \in Names : n \notin sinks
      BY <1>1 DEF LogInv, NothingYet
    <3> QED BY <3>1 DEF LogInv, OthersEmpty
  <2> QED BY <2>2, <2>3, <2>4 DEF LogInv, OthersEmpty, FilesAsConfigured, NothingYet
<1> QED BY <1>2, <1>3

LEMMA ConfigureInv ==
  ASSUME LogInv, NEW p \in Configs, Configure(p)
  PROVE  LogInv'
<1>1. Moved(p) = {} /\ InitFiles(p) /\ _param' = p /\ state' = "running" /\ _console' = p.console
  BY DEF Configure
<1>2. /\ registry' \in [Names -> Folders \cup {None}]
      /\ _file_loggers' = {n \in Names : registry'[n] # None}
      /\ sinks' = Wanted(p) /\ \A n \in Wanted(p) : registry'[n] = p.save_path
      /\ OthersEmpty'
  BY <1>1, InitFilesInv
<1>3. FilesAsConfigured'
  BY <1>1, <1>2 DEF FilesAsConfigured, Wanted
<1> QED BY <1>1, <1>2, <1>3 DEF LogInv, Registered, NothingYet

(* Messages only put something into the buffers of files in use. *)
LEMMA MessageInv ==
  ASSUME LogInv, NEW level \in Levels, NEW written \in SUBSET Targets(level),
         Log(level, written) \/ LogThrows(level, written)
  PROVE  LogInv'
<1>1. /\ UNCHANGED <<_param, registry, _file_loggers, sinks, _console>>
      /\ state' # "none" /\ (state' = "running" => state = "running")
  BY DEF Log, LogThrows, Running
<1>2. /\ Buffer(written) \in [Names -> Nat]
      /\ \A n \in Names \ sinks : Buffer(written)[n] = 0
  BY DEF LogInv, OthersEmpty, Buffer, Targets
<1>3. buffered' = Buffer(written) \/ buffered' = Flushed(Buffer(written))
  BY DEF Log, LogThrows
<1>4. OthersEmpty'
  <2> HIDE DEF Buffer
  <2> QED BY <1>1, <1>2, <1>3 DEF OthersEmpty, Flushed
<1> QED BY <1>1, <1>4 DEF LogInv, Registered, NothingYet, FilesAsConfigured, Wanted

LEMMA LogNextInv == LogInv /\ [LogNext]_logVars => LogInv'
<1> SUFFICES ASSUME LogInv, [LogNext]_logVars PROVE LogInv'
  OBVIOUS
<1>1. CASE UNCHANGED logVars \/ MinutePasses
  BY <1>1 DEF logVars, MinutePasses, LogInv, Registered, NothingYet, FilesAsConfigured, OthersEmpty, Wanted
<1>2. CASE ConfigureFails \/ \E p \in Configs : ConfigureRefused(p)
  BY <1>2 DEF ConfigureFails, ConfigureRefused, End, LogInv, Registered, NothingYet, FilesAsConfigured, OthersEmpty
<1> QED BY <1>1, <1>2, MakeInstanceInv, ConfigureInv, MessageInv DEF LogNext

(* Whatever configurations came before, the file of a known logger can be  *)
(* asked for and the name of an unknown one is free.                       *)
THEOREM MapAndRegistryAgree == LogSpec => []NamesAgree
<1>1. LogInv => NamesAgree
  BY DEF LogInv, Registered, NamesAgree
<1> QED BY LogInitInv, LogNextInv, <1>1, PTL DEF LogSpec

(* A logger that runs writes the enabled files in the configured folder.   *)
THEOREM ConfigurationHolds == LogSpec => []FilesAsConfigured
<1>1. LogInv => FilesAsConfigured
  BY DEF LogInv
<1> QED BY LogInitInv, LogNextInv, <1>1, PTL DEF LogSpec

(* When a warning, an error or a fatal message returns, nothing is left in *)
(* any buffer.                                                             *)
THEOREM SavedIsSaved == LogSpec => SavedMessagesSaveAll
<1>1. LogInv /\ [LogNext]_logVars
        => [(\E level \in Saved : Returned(level)) => \A n \in Names : buffered'[n] = 0]_logVars
  <2> SUFFICES ASSUME LogInv, NEW level \in Saved, NEW written \in SUBSET Targets(level), Log(level, written),
                      NEW n \in Names
               PROVE  buffered'[n] = 0
    BY DEF Returned
  <2>1. n \notin sinks => Buffer(written)[n] = 0
    BY DEF LogInv, OthersEmpty, Buffer, Targets
  <2>2. buffered' = Flushed(Buffer(written))
    BY DEF Log
  <2> HIDE DEF Buffer
  <2> QED BY <2>1, <2>2 DEF Flushed
<1> QED BY LogInitInv, LogNextInv, <1>1, PTL DEF LogSpec, SavedMessagesSaveAll

-----------------------------------------------------------------------------

(***************************************************************************)
(* Induction.  A set of numbers that is not empty has a least one.         *)
(***************************************************************************)
LEMMA LeastNumber ==
  ASSUME NEW T, T \subseteq Nat, T # {}
  PROVE  \E x \in T : \A y \in T : ~(y < x)
<1> DEFINE R == OpToRel(<, Nat)
<1>1. IsWellFoundedOn(R, Nat)
  BY NatLessThanWellFounded, PTL
<1>2. \A x, y \in Nat : y < x => <<y, x>> \in R
  BY DEF OpToRel
<1> HIDE DEF R
<1>3. \E x \in T : \A y \in T : ~ (<<y, x>> \in R)
  BY <1>1, WFMin
<1> QED BY <1>2, <1>3

(* A set that holds 0 and with n always n + 1 holds every number. *)
LEMMA Induction ==
  ASSUME NEW S, 0 \in S, \A n \in Nat : n \in S => n + 1 \in S
  PROVE  Nat \subseteq S
<1>1. SUFFICES ASSUME Nat \ S # {} PROVE FALSE
  OBVIOUS
<1>2. PICK x \in Nat \ S : \A y \in Nat \ S : ~(y < x)
  BY <1>1, LeastNumber
<1>3. x - 1 \in Nat /\ x - 1 < x
  BY <1>2
<1> QED BY <1>2, <1>3

(* A loop over 1..m: a function F that says what one pass makes of a state *)
(* gives the states after each pass.                                       *)
Passes(S, m) == [S \X (1..m) -> S]
States(S, m, a, F) == {g \in [0..m -> S] : g[0] = a /\ \A i \in 1..m : g[i] = F[<<g[i - 1], i>>]}

(* A loop of m passes from a has a state after each of them. *)
LEMMA LoopStates ==
  ASSUME NEW S, NEW m \in Nat, NEW a \in S, NEW F \in Passes(S, m)
  PROVE  \E g : g \in States(S, m, a, F)
<1> USE DEF Passes, States
<1> DEFINE T == {n \in Nat : n <= m => \E g \in [0..n -> S] : g[0] = a /\ \A i \in 1..n : g[i] = F[<<g[i - 1], i>>]}
<1>1. 0 \in T
  <2> DEFINE g == [i \in 0..0 |-> a]
  <2>1. g \in [0..0 -> S] /\ g[0] = a /\ \A i \in 1..0 : g[i] = F[<<g[i - 1], i>>]
    OBVIOUS
  <2> QED BY <2>1
<1>2. ASSUME NEW n \in Nat, n \in T, n + 1 <= m PROVE n + 1 \in T
  <2>1. PICK g \in [0..n -> S] : g[0] = a /\ \A i \in 1..n : g[i] = F[<<g[i - 1], i>>]
    BY <1>2
  <2> DEFINE h == [i \in 0..(n + 1) |-> IF i <= n THEN g[i] ELSE F[<<g[n], n + 1>>]]
  <2>2. \A i \in 0..n : h[i] = g[i]
    OBVIOUS
  <2>3. h[n + 1] = F[<<g[n], n + 1>>] /\ g[n] \in S /\ n + 1 \in 1..m
    BY <1>2
  <2>4. h \in [0..(n + 1) -> S]
    BY <2>3
  <2> HIDE DEF h
  <2>5. \A i \in 1..(n + 1) : h[i] = F[<<h[i - 1], i>>]
    <3> TAKE i \in 1..(n + 1)
    <3>1. CASE i = n + 1
      BY <2>2, <2>3, <3>1
    <3>2. CASE i # n + 1
      BY <2>1, <2>2, <3>2
    <3> QED BY <3>1, <3>2
  <2> QED BY <2>1, <2>2, <2>4, <2>5
<1>3. Nat \subseteq T
  <2>1. \A n \in Nat : n \in T => n + 1 \in T
    BY <1>2
  <2> HIDE DEF T
  <2> QED BY <1>1, <2>1, Induction
<1>4. m \in T
  <2> HIDE DEF T
  <2> QED BY <1>3
<1> QED BY <1>4

(* Whatever makes these passes goes through these states. *)
Follows(n, S, m, a, F) ==
  /\ n = [i \in 0..m |-> n[i]] /\ n[0] = a
  /\ \A i \in 1..m : n[i - 1] \in S => n[i] = F[<<n[i - 1], i>>]

(* A function that begins with a and takes a pass at a time is these       *)
(* states.                                                                 *)
LEMMA LoopFollows ==
  ASSUME NEW S, NEW m \in Nat, NEW a \in S, NEW F \in Passes(S, m), NEW n, Follows(n, S, m, a, F)
  PROVE  n \in States(S, m, a, F)
<1> DEFINE T == {i \in Nat : i <= m => n[i] \in S}
<1>1. 0 \in T
  BY DEF Follows
<1>2. ASSUME NEW i \in Nat, i \in T, i + 1 <= m PROVE n[i + 1] \in S
  <2>1. i + 1 \in 1..m /\ (i + 1) - 1 = i /\ n[i] \in S
    BY <1>2
  <2>2. n[i + 1] = F[<<n[i], i + 1>>]
    BY <2>1 DEF Follows
  <2> QED BY <2>1, <2>2 DEF Passes
<1>3. \A i \in 0..m : n[i] \in S
  <2>1. \A i \in Nat : i \in T => i + 1 \in T
    BY <1>2
  <2> HIDE DEF T
  <2>2. Nat \subseteq T
    BY <1>1, <2>1, Induction
  <2> QED BY <2>2 DEF T
<1>4. \A i \in 1..m : n[i - 1] \in S
  BY <1>3
<1>5. n \in [0..m -> S]
  BY <1>3 DEF Follows
<1> QED BY <1>4, <1>5 DEF Follows, States

-----------------------------------------------------------------------------
(* Numbers as texts. *)

(* Digits and powers. *)
DigitChars == {Digits[i] : i \in 1..10}
LEMMA DigitFacts ==
  /\ \A v \in 0..9 : Digits[v + 1] \in DigitChars /\ DigitValue(Digits[v + 1]) = v
  /\ \A c \in DigitChars : DigitValue(c) \in 0..9 /\ Digits[DigitValue(c) + 1] = c /\ IsDigit(c)
<1>1. \A i, j \in 1..10 : Digits[i] = Digits[j] => i = j
  BY DEF Digits
<1>2. \A i \in 1..10 : DigitValue(Digits[i]) = i - 1
  BY <1>1 DEF DigitValue
<1>3. \A v \in 0..9 : v + 1 \in 1..10
  OBVIOUS
<1>4. ASSUME NEW c \in DigitChars
      PROVE  DigitValue(c) \in 0..9 /\ Digits[DigitValue(c) + 1] = c /\ IsDigit(c)
  <2>1. PICK i \in 1..10 : c = Digits[i]
    BY DEF DigitChars
  <2>2. DigitValue(c) = i - 1 /\ i - 1 \in 0..9 /\ (i - 1) + 1 = i
    BY <1>2, <2>1
  <2> QED BY <2>1, <2>2 DEF IsDigit
<1>5. ASSUME NEW v \in 0..9 PROVE Digits[v + 1] \in DigitChars /\ DigitValue(Digits[v + 1]) = v
  BY <1>2, <1>3 DEF DigitChars
<1> QED BY <1>4, <1>5

(* Number, as the states of its loop. *)
LEMMA NumberLoop ==
  ASSUME NEW text \in Seq(DigitChars)
  PROVE  \E g \in [0..Len(text) -> Nat] :
           /\ g[0] = 0 /\ \A i \in 1..Len(text) : g[i] = 10 * g[i - 1] + DigitValue(text[i])
           /\ Number(text) = g[Len(text)]
<1> DEFINE m == Len(text)
           F == [x \in Nat \X (1..m) |-> 10 * x[1] + DigitValue(text[x[2]])]
           n == CHOOSE n : n = [i \in 0..m |-> IF i = 0 THEN 0 ELSE 10 * n[i - 1] + DigitValue(text[i])]
<1>1. m \in Nat /\ F \in Passes(Nat, m)
  <2>1. \A i \in 1..m : DigitValue(text[i]) \in Nat
    BY DigitFacts
  <2> QED BY <2>1 DEF Passes
<1>2. \A k \in Nat, i \in 1..m : F[<<k, i>>] = 10 * k + DigitValue(text[i])
  OBVIOUS
<1>3. n = [i \in 0..m |-> IF i = 0 THEN 0 ELSE 10 * n[i - 1] + DigitValue(text[i])]
  <2> HIDE DEF m, F
  <2>1. PICK g : g \in States(Nat, m, 0, F)
    BY <1>1, LoopStates
  <2>2. g \in [0..m -> Nat] /\ g[0] = 0 /\ \A i \in 1..m : g[i - 1] \in Nat /\ g[i] = F[<<g[i - 1], i>>]
    BY <1>1, <2>1 DEF States
  <2>3. \A i \in 0..m : i # 0 => i \in 1..m
    BY <1>1
  <2>4. \A i \in 1..m : g[i] = 10 * g[i - 1] + DigitValue(text[i])
    BY <1>2, <2>2
  <2>5. g = [i \in 0..m |-> IF i = 0 THEN 0 ELSE 10 * g[i - 1] + DigitValue(text[i])]
    BY <2>2, <2>3, <2>4
  <2> QED BY <2>5
<1>4. Number(text) = n[m]
  BY DEF Number
<1> HIDE DEF m, n, F
<1>5. n \in States(Nat, m, 0, F)
  <2>1. Follows(n, Nat, m, 0, F)
    BY <1>1, <1>2, <1>3, SMTT(30) DEF Follows
  <2> QED BY <1>1, <2>1, LoopFollows
<1>6. n \in [0..m -> Nat] /\ n[0] = 0 /\ \A i \in 1..m : n[i - 1] \in Nat /\ n[i] = F[<<n[i - 1], i>>]
  BY <1>1, <1>5 DEF States
<1>7. \A i \in 1..m : n[i] = 10 * n[i - 1] + DigitValue(text[i])
  BY <1>2, <1>6
<1> QED BY <1>4, <1>6, <1>7 DEF m

TenTo(k) == 10^k

LEMMA PowersOfTen ==
  /\ TenTo(0) = 1 /\ TenTo(1) = 10 /\ TenTo(2) = 100 /\ TenTo(3) = 1000 /\ TenTo(4) = 10000
  /\ TenTo(5) = 100000 /\ TenTo(6) = 1000000 /\ TenTo(7) = 10000000
  /\ TenTo(8) = 100000000 /\ TenTo(9) = 1000000000
BY SMT DEF TenTo

LEMMA Products ==
  ASSUME NEW b \in Nat, NEW x \in Int, NEW y \in Int, x < y
  PROVE  b * x \in Int /\ b * y \in Int /\ b * x + b <= b * y
<1>1. b * (y - x) = b * y - b * x /\ y - x - 1 \in Nat
  BY SMT
<1>2. b * (y - x - 1) >= 0 /\ b * (y - x - 1) = b * (y - x) - b
  BY <1>1, SMT
<1> QED BY <1>1, <1>2, SMT

(* The quotient and the remainder are the only ones. *)
LEMMA QuotientIs ==
  ASSUME NEW n \in Int, NEW b \in Nat \ {0}, NEW q \in Int, NEW r \in 0..(b - 1), n = b * q + r
  PROVE  n \div b = q /\ n % b = r
<1> DEFINE d == n \div b
           m == n % b
<1>1. d \in Int /\ m \in 0..(b - 1) /\ n = b * d + m
  BY SMT
<1> HIDE DEF d, m
<1>2. ~(d < q)
  <2> SUFFICES ASSUME d < q PROVE FALSE
    OBVIOUS
  <2>1. b * d + b <= b * q /\ b * d \in Int /\ b * q \in Int
    BY <1>1, Products
  <2> QED BY <1>1, <2>1, SMT
<1>3. ~(q < d)
  <2> SUFFICES ASSUME q < d PROVE FALSE
    OBVIOUS
  <2>1. b * q + b <= b * d /\ b * d \in Int /\ b * q \in Int
    BY <1>1, Products
  <2> QED BY <1>1, <2>1, SMT
<1>4. d = q
  BY <1>1, <1>2, <1>3, SMT
<1> QED BY <1>1, <1>4, SMT DEF d, m

(* Dividing by one zero more takes the last digit away. *)
LEMMA Divided ==
  ASSUME NEW n \in Nat, NEW a \in Nat \ {0}
  PROVE  /\ n \div a \in Nat /\ n \div (10 * a) \in Nat
         /\ n \div a = 10 * (n \div (10 * a)) + ((n \div a) % 10)
<1> DEFINE d == n \div a
           s == d \div 10
           t == d % 10
           r == n % a
<1>1. d \in Nat /\ r \in 0..(a - 1) /\ n = a * d + r
  BY SMT
<1>2. s \in Nat /\ t \in 0..9 /\ d = 10 * s + t
  BY <1>1, SMT
<1> HIDE DEF d, s, t, r
<1>3. a * d = (10 * a) * s + a * t
  BY <1>2, SMT
<1>4. a * t \in Nat /\ a * t + a <= 10 * a
  <2>1. a * t + a <= a * 10 /\ a * t \in Int
    BY <1>2, Products
  <2>2. a * t \in Nat
    BY <1>2, SMT
  <2> QED BY <2>1, <2>2, SMT
<1>5. a * t + r \in 0..(10 * a - 1) /\ 10 * a \in Nat \ {0} /\ (10 * a) * s \in Nat
  BY <1>1, <1>2, <1>4, SMT
<1>6. n = (10 * a) * s + (a * t + r)
  <2>0. r \in Int
    BY <1>1
  <2>1. \A x, y, z \in Int : n = x + r /\ x = y + z => n = y + (z + r)
    BY <2>0
  <2>2. a * d \in Int /\ (10 * a) * s \in Int /\ a * t \in Int
    BY <1>1, <1>2, <1>4, <1>5, SMT
  <2> QED BY <1>1, <1>3, <2>1, <2>2
<1>7. n \div (10 * a) = s
  BY <1>2, <1>5, <1>6, QuotientIs
<1> QED BY <1>1, <1>2, <1>7 DEF d, s, t

LEMMA OneDigitMore ==
  ASSUME NEW n \in Nat, NEW j \in 0..8
  PROVE  /\ TenTo(j) \in Nat \ {0} /\ TenTo(j + 1) \in Nat \ {0} /\ TenTo(j) < TenTo(j + 1)
         /\ n \div TenTo(j) \in Nat /\ n \div TenTo(j + 1) \in Nat
         /\ n \div TenTo(j) = 10 * (n \div TenTo(j + 1)) + ((n \div TenTo(j)) % 10)
<1>1. TenTo(j) \in Nat \ {0} /\ TenTo(j + 1) = 10 * TenTo(j)
  <2> DEFINE Fine(i) == TenTo(i) \in Nat \ {0} /\ TenTo(i + 1) = 10 * TenTo(i)
  <2>1. Fine(0) /\ Fine(1) /\ Fine(2) /\ Fine(3) /\ Fine(4)
    BY SMT DEF TenTo
  <2>2. Fine(5) /\ Fine(6) /\ Fine(7) /\ Fine(8)
    BY SMT DEF TenTo
  <2>3. j \in {0, 1, 2, 3, 4, 5, 6, 7, 8}
    OBVIOUS
  <2> HIDE DEF Fine
  <2>4. Fine(j)
    BY <2>1, <2>2, <2>3
  <2> QED BY <2>4 DEF Fine
<1> DEFINE a == TenTo(j)
<1>2. a \in Nat \ {0} /\ TenTo(j + 1) = 10 * a
  BY <1>1
<1> HIDE DEF a
<1>3. 10 * a \in Nat \ {0} /\ a < 10 * a
  BY <1>2, SMT
<1>4. /\ n \div a \in Nat /\ n \div (10 * a) \in Nat
      /\ n \div a = 10 * (n \div (10 * a)) + ((n \div a) % 10)
  BY <1>2, Divided
<1> QED BY <1>2, <1>3, <1>4 DEF a

DigitOf(n, j) == Digits[((n \div TenTo(j)) % 10) + 1]

LEMMA DigitOfIs ==
  ASSUME NEW n \in Nat, NEW j \in 0..8
  PROVE  /\ ((n \div TenTo(j)) % 10) \in 0..9 /\ DigitOf(n, j) \in DigitChars
         /\ DigitValue(DigitOf(n, j)) = (n \div TenTo(j)) % 10
<1>1. n \div TenTo(j) \in Nat
  BY OneDigitMore
<1>2. \A q \in Nat : (q % 10) \in 0..9
  OBVIOUS
<1>3. ((n \div TenTo(j)) % 10) \in 0..9
  BY <1>1, <1>2
<1> QED BY <1>3, DigitFacts DEF DigitOf

LEMMA MinOf ==
  ASSUME NEW S, S \subseteq Nat, S # {}
  PROVE  Min(S) \in S /\ \A y \in S : Min(S) <= y
<1>1. PICK x \in S : \A y \in S : ~(y < x)
  BY LeastNumber
<1>2. \A y \in S : x <= y
  BY <1>1
<1> QED BY <1>2 DEF Min

LEMMA MaxOf ==
  ASSUME NEW S, S \subseteq Nat, S # {}, NEW b \in Nat, \A y \in S : y <= b
  PROVE  Max(S) \in S /\ \A y \in S : y <= Max(S)
<1> DEFINE T == {b - y : y \in S}
<1>1. T \subseteq Nat /\ T # {}
  <2>1. \A y \in S : y \in Nat /\ y <= b
    OBVIOUS
  <2>2. \A y \in S : b - y \in Nat
    BY <2>1
  <2> QED BY <2>2
<1>2. PICK z \in T : \A y \in T : ~(y < z)
  <2> HIDE DEF T
  <2> QED BY <1>1, LeastNumber
<1>3. PICK x \in S : z = b - x
  BY <1>2
<1>4. \A y \in S : y <= x
  BY <1>2, <1>3
<1> QED BY <1>4 DEF Max

(* DigitCount is the least number of digits that n fits in. *)
LEMMA DigitCountIs ==
  ASSUME NEW n \in Nat, n < TenTo(9)
  PROVE  /\ DigitCount(n) \in 1..9 /\ n < TenTo(DigitCount(n))
         /\ \A k \in 1..9 : n < TenTo(k) => DigitCount(n) <= k
<1> DEFINE S == {k \in 1..10 : k = 10 \/ n < TenTo(k)}
<1>1. S \subseteq Nat /\ 9 \in S
  BY PowersOfTen
<1>2. Min(S) \in S /\ \A k \in S : Min(S) <= k
  <2> HIDE DEF S
  <2> QED BY <1>1, MinOf
<1>3. Min(S) <= 9
  BY <1>1, <1>2
<1>4. Min(S) \in 1..9 /\ n < TenTo(Min(S))
  BY <1>2, <1>3
<1>5. \A k \in 1..9 : n < TenTo(k) => Min(S) <= k
  BY <1>2
<1> QED BY <1>4, <1>5 DEF DigitCount, TenTo

(* What Padded writes: at least w digits, and each is the one of its       *)
(* place.                                                                  *)
LEMMA PaddedIs ==
  ASSUME NEW n \in Nat, n < TenTo(9), NEW w \in 1..9
  PROVE  /\ Padded(n, w) \in Seq(DigitChars)
         /\ Len(Padded(n, w)) \in w..9
         /\ n < TenTo(w) => Len(Padded(n, w)) = w
         /\ n < TenTo(Len(Padded(n, w)))
         /\ \A i \in 1..Len(Padded(n, w)) :
              Padded(n, w)[i] = DigitOf(n, Len(Padded(n, w)) - i)
<1> DEFINE k == Max({w, DigitCount(n)})
<1>1. k \in w..9 /\ n < TenTo(k) /\ (n < TenTo(w) => k = w)
  <2> DEFINE d == DigitCount(n)
  <2>1. d \in 1..9 /\ n < TenTo(d) /\ \A j \in 1..9 : n < TenTo(j) => d <= j
    BY DigitCountIs
  <2> HIDE DEF d
  <2>2. Max({w, d}) \in {w, d} /\ \A y \in {w, d} : y <= Max({w, d})
    BY <2>1, MaxOf
  <2>3. n < TenTo(Max({w, d}))
    <3>1. CASE Max({w, d}) = d
      BY <2>1, <3>1
    <3>2. CASE Max({w, d}) = w /\ d < w
      <4>1. \A j \in 0..8 : TenTo(j) \in Nat /\ TenTo(j + 1) \in Nat /\ TenTo(j) < TenTo(j + 1)
        BY OneDigitMore
      <4> DEFINE U == {j \in Nat : d + j <= 9 => n < TenTo(d + j)}
      <4>2. 0 \in U
        BY <2>1
      <4>3. ASSUME NEW j \in Nat, j \in U PROVE j + 1 \in U
        <5>1. CASE d + j + 1 <= 9
          <6>1. d + j \in 0..8 /\ n < TenTo(d + j) /\ d + (j + 1) = (d + j) + 1
            BY <2>1, <4>3, <5>1
          <6>2. n < TenTo((d + j) + 1)
            BY <4>1, <6>1
          <6> QED BY <6>1, <6>2
        <5> QED BY <2>1, <5>1
      <4> HIDE DEF U
      <4>4. Nat \subseteq U
        BY <4>2, <4>3, Induction
      <4>5. w - d \in U /\ d + (w - d) = w /\ w <= 9
        BY <2>1, <3>2, <4>4
      <4> QED BY <3>2, <4>5 DEF U
    <3> QED BY <2>1, <2>2, <3>1, <3>2
  <2>4. n < TenTo(w) => Max({w, d}) = w
    BY <2>1, <2>2
  <2> QED BY <2>1, <2>2, <2>3, <2>4 DEF d
<1> HIDE DEF k
<1>2. Padded(n, w) = [i \in 1..k |-> DigitOf(n, k - i)]
  <2>1. \A i \in 1..k : ~(k - i > 9)
    BY <1>1
  <2> QED BY <2>1 DEF Padded, k, TenTo, DigitOf
<1>3. \A i \in 1..k : k - i \in 0..8
  BY <1>1
<1>4. \A i \in 1..k : DigitOf(n, k - i) \in DigitChars
  BY <1>3, DigitOfIs
<1>5. Padded(n, w) \in Seq(DigitChars) /\ Len(Padded(n, w)) = k
  BY <1>1, <1>2, <1>4
<1> QED BY <1>1, <1>2, <1>5

(* What %0wd writes is the number again. *)
LEMMA NumberPadded ==
  ASSUME NEW n \in Nat, n < TenTo(9), NEW w \in 1..9
  PROVE  Number(Padded(n, w)) = n
<1> DEFINE P == Padded(n, w)
           k == Len(P)
<1>1. P \in Seq(DigitChars) /\ k \in 1..9 /\ n < TenTo(k)
      /\ \A i \in 1..k : P[i] = DigitOf(n, k - i)
  <2>1. P \in Seq(DigitChars) /\ k \in w..9 /\ n < TenTo(k)
    BY PaddedIs
  <2>2. \A i \in 1..k : P[i] = DigitOf(n, k - i)
    BY PaddedIs
  <2> HIDE DEF P, k
  <2>3. k \in 1..9
    BY <2>1
  <2> QED BY <2>1, <2>2, <2>3
<1> HIDE DEF P, k
<1>2. PICK g \in [0..k -> Nat] : g[0] = 0 /\ (\A i \in 1..k : g[i] = 10 * g[i - 1] + DigitValue(P[i]))
                                 /\ Number(P) = g[k]
  BY <1>1, NumberLoop DEF k
<1> DEFINE U == {i \in Nat : i <= k => g[i] = n \div TenTo(k - i)}
<1>3. 0 \in U
  <2>1. TenTo(k) \in Nat \ {0} /\ k - 0 = k
    <3>1. k - 1 \in 0..8 /\ (k - 1) + 1 = k /\ k - 0 = k
      BY <1>1
    <3>2. TenTo((k - 1) + 1) \in Nat \ {0}
      BY <3>1, OneDigitMore
    <3> QED BY <3>1, <3>2
  <2>2. \A m \in Nat \ {0} : n < m => n \div m = 0
    OBVIOUS
  <2> QED BY <1>1, <1>2, <2>1, <2>2
<1>4. ASSUME NEW i \in Nat, i \in U PROVE i + 1 \in U
  <2>1. CASE i + 1 <= k
    <3> DEFINE j == k - (i + 1)
    <3>1. j \in 0..8 /\ j + 1 = k - i /\ k - (i + 1) = j /\ i + 1 \in 1..k /\ (i + 1) - 1 = i
      BY <1>1, <2>1
    <3> HIDE DEF j
    <3>2. g[i] = n \div TenTo(j + 1)
      <4>1. i <= k
        BY <1>1, <2>1
      <4> QED BY <1>4, <3>1, <4>1
    <3>3. /\ n \div TenTo(j) \in Nat /\ n \div TenTo(j + 1) \in Nat
          /\ n \div TenTo(j) = 10 * (n \div TenTo(j + 1)) + ((n \div TenTo(j)) % 10)
      BY <3>1, OneDigitMore
    <3>4. P[i + 1] = DigitOf(n, j)
      BY <1>1, <3>1
    <3>5. DigitValue(P[i + 1]) = (n \div TenTo(j)) % 10
      BY <3>1, <3>4, DigitOfIs
    <3>6. g[i + 1] = 10 * g[i] + DigitValue(P[i + 1])
      BY <1>2, <3>1
    <3> QED BY <3>1, <3>2, <3>3, <3>5, <3>6
  <2> QED BY <1>1, <2>1
<1> HIDE DEF U
<1>5. k \in U
  <2>1. Nat \subseteq U
    BY <1>3, <1>4, Induction
  <2> QED BY <1>1, <2>1
<1>6. g[k] = n \div TenTo(0)
  BY <1>1, <1>5 DEF U
<1> QED BY <1>2, <1>6, PowersOfTen DEF P

-----------------------------------------------------------------------------
(* s4time. *)

(* Leaps counts one more in each leap year, before and after year 0. *)
LEMMA LeapStep ==
  ASSUME NEW y \in Int
  PROVE  /\ Leaps(y) \in Int /\ Leaps(y - 1) \in Int
         /\ Leaps(y) = Leaps(y - 1) + (IF __isleap(y) THEN 1 ELSE 0)
         /\ YearLength(y) = 365 + Leaps(y) - Leaps(y - 1)
<1>1. /\ y \div 4 = ((y - 1) \div 4) + (IF y % 4 = 0 THEN 1 ELSE 0)
      /\ y \div 100 = ((y - 1) \div 100) + (IF y % 100 = 0 THEN 1 ELSE 0)
      /\ y \div 400 = ((y - 1) \div 400) + (IF y % 400 = 0 THEN 1 ELSE 0)
  BY SMT
<1>2. (y % 400 = 0 => y % 100 = 0) /\ (y % 100 = 0 => y % 4 = 0)
  BY SMT
<1>3. Leaps(y) \in Int /\ Leaps(y - 1) \in Int
  BY SMT DEF Leaps, LEAPS_THRU_END_OF
<1>4. Leaps(y) = Leaps(y - 1) + (IF __isleap(y) THEN 1 ELSE 0)
  BY <1>1, <1>2, SMT DEF Leaps, LEAPS_THRU_END_OF, __isleap
<1> QED BY <1>3, <1>4 DEF YearLength

(* In k years there are at most k leap years. *)
LEMMA LeapsGrow ==
  ASSUME NEW a \in Int, NEW k \in Nat
  PROVE  Leaps(a) \in Int /\ Leaps(a + k) - Leaps(a) \in 0..k
<1> DEFINE T == {n \in Nat : Leaps(a + n) - Leaps(a) \in 0..n}
<1>1. \A y \in Int : Leaps(y) \in Int
  BY LeapStep
<1>2. 0 \in T
  BY <1>1
<1>3. ASSUME NEW n \in Nat, n \in T PROVE n + 1 \in T
  <2> DEFINE y == a + (n + 1)
  <2>1. y \in Int /\ y - 1 = a + n
    OBVIOUS
  <2>2. Leaps(y) = Leaps(y - 1) \/ Leaps(y) = Leaps(y - 1) + 1
    <3> HIDE DEF y
    <3>1. Leaps(y) = Leaps(y - 1) + (IF __isleap(y) THEN 1 ELSE 0) /\ Leaps(y - 1) \in Int
      BY <2>1, LeapStep
    <3> QED BY <3>1
  <2>3. Leaps(a + n) - Leaps(a) \in 0..n
    BY <1>3
  <2>4. Leaps(y) - Leaps(a) \in 0..(n + 1)
    <3> HIDE DEF y
    <3> QED BY <1>1, <2>1, <2>2, <2>3
  <2> QED BY <2>4
<1>4. k \in T
  <2> HIDE DEF T
  <2> QED BY <1>2, <1>3, Induction
<1> QED BY <1>1, <1>4

(* The days from year 0 to the beginning of a year. *)
YearStart(y) == 365 * y + Leaps(y - 1)
DayOf(r) == YearStart(r.y) + r.days
Inside(r) == r.days >= 0 /\ r.days < YearLength(r.y)

(* A year ends before the next one begins. *)
LEMMA YearsFollow ==
  ASSUME NEW y \in Int, NEW z \in Int, y < z
  PROVE  YearStart(y) \in Int /\ YearStart(z) \in Int /\ YearLength(y) \in Int
         /\ YearStart(y) + YearLength(y) <= YearStart(z)
<1>1. Leaps(y) \in Int /\ Leaps(y - 1) \in Int /\ Leaps(z - 1) \in Int
      /\ YearLength(y) = 365 + Leaps(y) - Leaps(y - 1)
  BY LeapStep
<1>2. Leaps(z - 1) - Leaps(y) >= 0
  <2>1. z - 1 - y \in Nat /\ y + (z - 1 - y) = z - 1
    OBVIOUS
  <2>2. Leaps(y + (z - 1 - y)) - Leaps(y) \in 0..(z - 1 - y)
    BY <2>1, LeapsGrow
  <2> QED BY <2>1, <2>2, <1>1
<1> QED BY <1>1, <1>2 DEF YearStart

(* A day lies within one year only. *)
LEMMA OneYear ==
  ASSUME NEW r \in Guesses, NEW s \in Guesses, Inside(r), Inside(s), DayOf(r) = DayOf(s)
  PROVE  r = s
<1>1. r.y \in Int /\ s.y \in Int /\ r.days \in Int /\ s.days \in Int
  BY DEF Guesses
<1>2. YearStart(r.y) \in Int /\ YearStart(s.y) \in Int
  <2>1. \A y \in Int : y < y + 1 /\ y + 1 \in Int
    OBVIOUS
  <2> QED BY <1>1, <2>1, YearsFollow
<1>3. ~(r.y < s.y)
  BY <1>1, <1>2, YearsFollow DEF Inside, DayOf
<1>4. ~(s.y < r.y)
  BY <1>1, <1>2, YearsFollow DEF Inside, DayOf
<1>5. r.y = s.y
  BY <1>1, <1>3, <1>4
<1>6. r.days = s.days
  BY <1>1, <1>2, <1>5 DEF DayOf
<1> QED BY <1>5, <1>6 DEF Guesses

(* What one pass of the loop makes of the days left and the year. *)
Corrected(r) ==
  LET yg == r.y + r.days \div 365
  IN [days |-> r.days - ((yg - r.y) * 365 + Leaps(yg - 1) - Leaps(r.y - 1)), y |-> yg]
Passing(r) == IF r.days \div 365 >= 0 THEN r.days \div 365 ELSE -(r.days \div 365)

(* A pass of the loop of __offtime keeps the day, and leaves fewer years   *)
(* between the guess and the day's year, until the guess is right or the   *)
(* next one is.                                                            *)
LEMMA CorrectedIs ==
  ASSUME NEW r \in Guesses
  PROVE  /\ Corrected(r) \in Guesses /\ DayOf(Corrected(r)) = DayOf(r)
         /\ Passing(r) \in Nat
         /\ Passing(r) = 0 => Inside(r)
         /\ Passing(r) = 1 => Inside(r) \/ Inside(Corrected(r))
         /\ Passing(r) > 1 => Passing(Corrected(r)) < Passing(r)
<1>0. PICK y \in Int, q \in Int, m \in 0..364 : r.y = y /\ r.days = 365 * q + m /\ r.days \div 365 = q
  <2>1. r.y \in Int /\ r.days \in Int /\ r.days \div 365 \in Int /\ r.days % 365 \in 0..364
        /\ r.days = 365 * (r.days \div 365) + (r.days % 365)
    BY SMT DEF Guesses
  <2> QED BY <2>1, ZenonT(40)
<1> DEFINE L == Leaps(y + q - 1) - Leaps(y - 1)
<1>1. r.days \in Int /\ r.y = y /\ r.days = 365 * q + m /\ r.days \div 365 = q
  BY <1>0 DEF Guesses
<1>2. Leaps(y - 1) \in Int /\ Leaps(y + q - 1) \in Int /\ L \in Int
  <2>1. \A x \in Int : Leaps(x) \in Int
    BY LeapStep
  <2> QED BY <2>1
<1>3. /\ q >= 0 => L >= 0 /\ L <= q
      /\ q <= 0 => L <= 0 /\ L >= q
  <2>1. ASSUME q >= 0 PROVE L >= 0 /\ L <= q
    <3>1. q \in Nat /\ y - 1 \in Int /\ (y - 1) + q = y + q - 1
      BY <2>1
    <3>2. Leaps((y - 1) + q) - Leaps(y - 1) \in 0..q
      BY <3>1, LeapsGrow
    <3> QED BY <1>2, <3>1, <3>2
  <2>2. ASSUME q <= 0 PROVE L <= 0 /\ L >= q
    <3> DEFINE k == 0 - q
    <3>1. k \in Nat /\ y + q - 1 \in Int /\ (y + q - 1) + k = y - 1
      BY <2>2
    <3> HIDE DEF k
    <3>2. Leaps((y + q - 1) + k) - Leaps(y + q - 1) \in 0..k
      BY <3>1, LeapsGrow
    <3> QED BY <1>2, <3>1, <3>2 DEF k
  <2> QED BY <2>1, <2>2
<1>4. Corrected(r) = [days |-> m - L, y |-> y + q]
  <2>1. Corrected(r) = [days |-> r.days - (((y + q) - y) * 365 + Leaps((y + q) - 1) - Leaps(y - 1)), y |-> y + q]
    BY <1>1 DEF Corrected
  <2>2. (y + q) - 1 = y + q - 1
    OBVIOUS
  <2>3. r.days - (((y + q) - y) * 365 + Leaps(y + q - 1) - Leaps(y - 1)) = m - (Leaps(y + q - 1) - Leaps(y - 1))
    <3>1. PICK a, b \in Int : a = Leaps(y + q - 1) /\ b = Leaps(y - 1)
      BY <1>2
    <3>2. r.days = 365 * q + m /\ (y + q) - y = q
      BY <1>1
    <3>3. (365 * q + m) - (q * 365 + a - b) = m - (a - b)
      BY <3>1
    <3>4. r.days - (((y + q) - y) * 365 + a - b) = m - (a - b)
      BY <3>2, <3>3, ZenonT(40)
    <3> QED BY <3>1, <3>4, Zenon
  <2> QED BY <2>1, <2>2, <2>3
<1>5. Corrected(r) \in Guesses /\ DayOf(Corrected(r)) = DayOf(r)
  <2>1. y + q \in Int /\ m - L \in Int
    BY <1>2
  <2>2. DayOf(r) = 365 * y + Leaps(y - 1) + r.days
    BY <1>1 DEF DayOf, YearStart
  <2>3. DayOf(Corrected(r)) = 365 * (y + q) + Leaps((y + q) - 1) + (m - L)
    BY <1>4 DEF DayOf, YearStart
  <2>4. (y + q) - 1 = y + q - 1 /\ 365 * (y + q) = 365 * y + 365 * q
    BY <1>1
  <2> QED BY <1>1, <1>2, <1>4, <2>1, <2>2, <2>3, <2>4 DEF Guesses
<1>6. Passing(r) = (IF q >= 0 THEN q ELSE -q) /\ Passing(r) \in Nat
  BY <1>1 DEF Passing
<1>7. Passing(Corrected(r)) = IF (m - L) \div 365 >= 0 THEN (m - L) \div 365 ELSE -((m - L) \div 365)
  BY <1>4 DEF Passing
<1>8. YearLength(y) \in {365, 366} /\ YearLength(y + q) \in {365, 366}
  BY DEF YearLength
<1>9. Passing(r) = 0 => Inside(r)
  <2>1. Passing(r) = 0 => q = 0
    BY <1>1, <1>6
  <2> QED BY <1>1, <1>8, <2>1 DEF Inside
<1>10. Passing(r) = 1 => Inside(r) \/ Inside(Corrected(r))
  <2>1. ASSUME q = 1 PROVE Inside(r) \/ Inside(Corrected(r))
    <3>1. y + q - 1 = y /\ y + q = y + 1
      BY <1>1, <2>1
    <3>2. L = Leaps(y) - Leaps(y - 1) /\ YearLength(y) = 365 + L
      <4>1. YearLength(y) = 365 + Leaps(y) - Leaps(y - 1) /\ Leaps(y) \in Int
        BY <1>1, LeapStep
      <4> QED BY <1>2, <3>1, <4>1
    <3> HIDE DEF L
    <3>3. Inside(Corrected(r)) <=> m - L >= 0 /\ m - L < YearLength(y + q)
      BY <1>4 DEF Inside
    <3>4. Inside(r) <=> r.days >= 0 /\ r.days < YearLength(y)
      BY <1>1 DEF Inside
    <3>5. r.days = 365 + m /\ L >= 0 /\ L <= 1
      BY <1>1, <1>3, <2>1
    <3> QED BY <1>1, <1>2, <1>8, <3>2, <3>3, <3>4, <3>5
  <2>2. ASSUME q = -1 PROVE Inside(Corrected(r))
    <3>1. y + q - 1 = (y - 1) - 1 /\ y + q = y - 1 /\ y - 1 \in Int
      BY <1>1, <2>2
    <3>2. L = Leaps((y - 1) - 1) - Leaps(y - 1) /\ YearLength(y + q) = 365 - L
      <4>1. YearLength(y - 1) = 365 + Leaps(y - 1) - Leaps((y - 1) - 1) /\ Leaps((y - 1) - 1) \in Int
        BY <3>1, LeapStep
      <4> QED BY <1>2, <3>1, <4>1
    <3> HIDE DEF L
    <3>3. Inside(Corrected(r)) <=> m - L >= 0 /\ m - L < YearLength(y + q)
      BY <1>4 DEF Inside
    <3>4. L <= 0 /\ L >= -1
      BY <1>3, <2>2
    <3> QED BY <1>1, <1>2, <1>8, <3>2, <3>3, <3>4
  <2>3. Passing(r) = 1 => q = 1 \/ q = -1
    BY <1>1, <1>6
  <2> QED BY <2>1, <2>2, <2>3
<1>11. Passing(r) > 1 => Passing(Corrected(r)) < Passing(r)
  <2>1. ASSUME q > 1 PROVE Passing(Corrected(r)) < q
    <3> HIDE DEF L
    <3>1. m - L <= 364 /\ m - L >= -q /\ m - L \in Int
      BY <1>1, <1>2, <1>3, <2>1
    <3>2. (m - L) \div 365 <= 0 /\ -((m - L) \div 365) < q
      BY <1>1, <2>1, <3>1
    <3> QED BY <1>1, <1>7, <2>1, <3>1, <3>2
  <2>2. ASSUME q < -1 PROVE Passing(Corrected(r)) < -q
    <3> HIDE DEF L
    <3>1. m - L >= 0 /\ m - L <= 364 - q /\ m - L \in Int
      BY <1>1, <1>2, <1>3, <2>2
    <3>2. (m - L) \div 365 >= 0 /\ (m - L) \div 365 < -q
      BY <1>1, <2>2, <3>1
    <3> QED BY <1>1, <1>7, <2>2, <3>1, <3>2
  <2> QED BY <1>1, <1>6, <2>1, <2>2
<1> QED BY <1>5, <1>6, <1>9, <1>10, <1>11

(* The day and the year that the calendar gives. *)
Norm(r) == CHOOSE s \in Guesses : Inside(s) /\ DayOf(s) = DayOf(r)

(* The year a day lies within is what the loop is looking for: it does not *)
(* change on the way.                                                      *)
LEMMA NormIs ==
  ASSUME NEW r \in Guesses
  PROVE  /\ Norm(r) \in Guesses /\ Inside(Norm(r)) /\ DayOf(Norm(r)) = DayOf(r)
         /\ Inside(r) => Norm(r) = r
         /\ Norm(Corrected(r)) = Norm(r)
<1> DEFINE T == {n \in Nat : \A x \in Guesses : Passing(x) <= n => \E s \in Guesses : Inside(s) /\ DayOf(s) = DayOf(x)}
<1>1. ASSUME NEW x \in Guesses, Passing(x) <= 1 PROVE \E s \in Guesses : Inside(s) /\ DayOf(s) = DayOf(x)
  <2>1. Passing(x) = 0 \/ Passing(x) = 1
    BY <1>1, CorrectedIs
  <2>2. CASE Inside(x)
    BY <2>2
  <2>3. CASE Inside(Corrected(x))
    BY <2>3, CorrectedIs
  <2> QED BY <2>1, <2>2, <2>3, CorrectedIs
<1>2. 0 \in T
  <2>1. \A x \in Guesses : Passing(x) <= 0 => Passing(x) <= 1
    BY CorrectedIs
  <2> QED BY <1>1, <2>1
<1>3. ASSUME NEW n \in Nat, n \in T PROVE n + 1 \in T
  <2>1. ASSUME NEW x \in Guesses, Passing(x) <= n + 1
        PROVE  \E s \in Guesses : Inside(s) /\ DayOf(s) = DayOf(x)
    <3>1. CASE Passing(x) <= 1
      BY <1>1, <3>1
    <3>2. CASE ~(Passing(x) <= 1)
      <4>1. /\ Corrected(x) \in Guesses /\ DayOf(Corrected(x)) = DayOf(x)
            /\ Passing(x) \in Nat /\ Passing(Corrected(x)) \in Nat
            /\ Passing(x) > 1 => Passing(Corrected(x)) < Passing(x)
        BY CorrectedIs
      <4>2. Passing(Corrected(x)) <= n
        BY <2>1, <3>2, <4>1
      <4>3. PICK s \in Guesses : Inside(s) /\ DayOf(s) = DayOf(Corrected(x))
        BY <1>3, <4>1, <4>2
      <4> QED BY <4>1, <4>3
    <3> QED BY <3>1, <3>2
  <2> QED BY <2>1
<1>4. \A x \in Guesses : \E s \in Guesses : Inside(s) /\ DayOf(s) = DayOf(x)
  <2> SUFFICES ASSUME NEW x \in Guesses PROVE \E s \in Guesses : Inside(s) /\ DayOf(s) = DayOf(x)
    OBVIOUS
  <2>1. Nat \subseteq T
    <3> HIDE DEF T
    <3> QED BY <1>2, <1>3, Induction
  <2>2. Passing(x) \in Nat /\ Passing(x) <= Passing(x)
    BY CorrectedIs
  <2> QED BY <2>1, <2>2
<1>5. \A x \in Guesses : Norm(x) \in Guesses /\ Inside(Norm(x)) /\ DayOf(Norm(x)) = DayOf(x)
  BY <1>4 DEF Norm
<1>6. Inside(r) => Norm(r) = r
  BY <1>5, OneYear
<1>7. Norm(Corrected(r)) = Norm(r)
  <2>1. Corrected(r) \in Guesses /\ DayOf(Corrected(r)) = DayOf(r)
    BY CorrectedIs
  <2> QED BY <2>1 DEF Norm
<1> QED BY <1>5, <1>6, <1>7

(* Guess is a function that satisfies its equation: the loop ends. *)
LEMMA GuessLoop == Guess = [r \in Guesses |-> IF Inside(r) THEN r ELSE Guess[Corrected(r)]]
<1> DEFINE Norms == [r \in Guesses |-> Norm(r)]
<1>1. \A r \in Guesses : (IF Inside(r) THEN r ELSE Norms[Corrected(r)]) = Norm(r)
  BY NormIs, CorrectedIs
<1>2. Norms = [r \in Guesses |-> IF Inside(r) THEN r ELSE Norms[Corrected(r)]]
  <2>1. Norms = [r \in Guesses |-> Norm(r)]
    OBVIOUS
  <2> HIDE DEF Norms
  <2> QED BY <1>1, <2>1
<1>3. \E f : f = [r \in Guesses |-> IF Inside(r) THEN r ELSE f[Corrected(r)]]
  <2> HIDE DEF Norms
  <2> QED BY <1>2
<1> QED BY <1>3 DEF Guess, Guesses, Inside, Corrected

(* Whatever day the loop starts with, it ends with the calendar's. *)
LEMMA GuessIs ==
  ASSUME NEW r \in Guesses
  PROVE  Guess[r] = Norm(r)
<1> DEFINE T == {n \in Nat : \A x \in Guesses : Passing(x) <= n => Guess[x] = Norm(x)}
<1>1. \A x \in Guesses : Guess[x] = IF Inside(x) THEN x ELSE Guess[Corrected(x)]
  BY GuessLoop, Zenon
<1>2. ASSUME NEW x \in Guesses, Inside(x) PROVE Guess[x] = Norm(x)
  BY <1>1, <1>2, NormIs
<1>3. ASSUME NEW x \in Guesses, Passing(x) <= 1 PROVE Guess[x] = Norm(x)
  <2>1. CASE Inside(x)
    BY <1>2, <2>1
  <2>2. CASE ~Inside(x)
    <3>1. Inside(Corrected(x)) /\ Corrected(x) \in Guesses
      BY <1>3, <2>2, CorrectedIs
    <3>2. Guess[x] = Guess[Corrected(x)]
      BY <1>1, <2>2
    <3> QED BY <1>2, <3>1, <3>2, NormIs
  <2> QED BY <2>1, <2>2
<1>4. 0 \in T
  <2>1. \A x \in Guesses : Passing(x) <= 0 => Passing(x) <= 1
    BY CorrectedIs
  <2> QED BY <1>3, <2>1
<1>5. ASSUME NEW n \in Nat, n \in T PROVE n + 1 \in T
  <2>1. ASSUME NEW x \in Guesses, Passing(x) <= n + 1 PROVE Guess[x] = Norm(x)
    <3>1. CASE Passing(x) <= 1
      BY <1>3, <3>1
    <3>2. CASE Inside(x)
      BY <1>2, <3>2
    <3>3. CASE ~(Passing(x) <= 1) /\ ~Inside(x)
      <4>1. /\ Corrected(x) \in Guesses
            /\ Passing(x) \in Nat /\ Passing(Corrected(x)) \in Nat
            /\ Passing(x) > 1 => Passing(Corrected(x)) < Passing(x)
        BY CorrectedIs
      <4>2. Passing(Corrected(x)) <= n
        BY <2>1, <3>3, <4>1
      <4>3. Guess[Corrected(x)] = Norm(Corrected(x))
        BY <1>5, <4>1, <4>2
      <4>4. Guess[x] = Guess[Corrected(x)]
        BY <1>1, <3>3
      <4> QED BY <4>3, <4>4, NormIs
    <3> QED BY <3>1, <3>2, <3>3
  <2> QED BY <2>1
<1>6. Passing(r) \in T
  <2>1. Passing(r) \in Nat
    BY CorrectedIs
  <2> HIDE DEF T
  <2> QED BY <1>4, <1>5, <2>1, Induction
<1>7. Passing(r) \in Nat /\ Passing(r) <= Passing(r)
  BY CorrectedIs
<1> QED BY <1>6, <1>7

(* The days before each month of a year. *)
MonthDays(y) == IF __isleap(y) THEN mon_days_leap ELSE mon_days
(* DaysBefore, as the states of its loop. *)
LEMMA MonthsFollow ==
  ASSUME NEW months \in Seq(Nat), NEW m \in Nat, m <= Len(months)
  PROVE  \E g \in [0..m -> Nat] :
           /\ g[0] = 0 /\ \A i \in 1..m : g[i] = g[i - 1] + months[i]
           /\ DaysBefore(months, m) = g[m]
<1> DEFINE F == [x \in Nat \X (1..m) |-> x[1] + months[x[2]]]
           n == CHOOSE n : n = [i \in 0..m |-> IF i = 0 THEN 0 ELSE n[i - 1] + months[i]]
<1>1. F \in Passes(Nat, m)
  <2>1. \A i \in 1..m : months[i] \in Nat
    OBVIOUS
  <2> QED BY <2>1 DEF Passes
<1>2. \A k \in Nat, i \in 1..m : F[<<k, i>>] = k + months[i]
  OBVIOUS
<1>3. n = [i \in 0..m |-> IF i = 0 THEN 0 ELSE n[i - 1] + months[i]]
  <2> HIDE DEF F
  <2>1. PICK g : g \in States(Nat, m, 0, F)
    BY <1>1, LoopStates
  <2>2. g \in [0..m -> Nat] /\ g[0] = 0 /\ \A i \in 1..m : g[i - 1] \in Nat /\ g[i] = F[<<g[i - 1], i>>]
    BY <2>1 DEF States
  <2>3. \A i \in 0..m : i # 0 => i \in 1..m
    OBVIOUS
  <2>4. \A i \in 1..m : g[i] = g[i - 1] + months[i]
    BY <1>2, <2>2
  <2>5. g = [i \in 0..m |-> IF i = 0 THEN 0 ELSE g[i - 1] + months[i]]
    BY <2>2, <2>3, <2>4
  <2> QED BY <2>5
<1>4. DaysBefore(months, m) = n[m]
  BY DEF DaysBefore
<1> HIDE DEF n, F
<1>5. n \in States(Nat, m, 0, F)
  <2>0. \A i \in 1..m : i \in 0..m /\ i # 0
    OBVIOUS
  <2>1. \A i \in 1..m : n[i] = n[i - 1] + months[i]
    BY <1>3, <2>0
  <2>2. n = [i \in 0..m |-> n[i]] /\ n[0] = 0
    BY <1>3
  <2>3. Follows(n, Nat, m, 0, F)
    BY <1>2, <2>1, <2>2 DEF Follows
  <2> QED BY <1>1, <2>3, LoopFollows
<1>6. n \in [0..m -> Nat] /\ n[0] = 0 /\ \A i \in 1..m : n[i - 1] \in Nat /\ n[i] = F[<<n[i - 1], i>>]
  BY <1>5 DEF States
<1>7. \A i \in 1..m : n[i] = n[i - 1] + months[i]
  BY <1>2, <1>6
<1> QED BY <1>4, <1>6, <1>7

(* The table of __offtime adds up the lengths of the months. *)
LEMMA MonthsAdd ==
  ASSUME NEW y \in Int, NEW i \in 0..11
  PROVE  __mon_yday(__isleap(y), i + 1) = __mon_yday(__isleap(y), i) + MonthDays(y)[i + 1]
<1> DEFINE months == MonthDays(y)
<1>1. i \in {0, 1, 2, 3, 4, 5, 6, 7, 8, 9, 10, 11}
  OBVIOUS
<1>2. CASE __isleap(y)
  <2>1. months = <<31, 29, 31, 30, 31, 30, 31, 31, 30, 31, 30, 31>>
    BY <1>2 DEF MonthDays, mon_days, mon_days_leap
  <2> DEFINE t == <<0, 31, 60, 91, 121, 152, 182, 213, 244, 274, 305, 335, 366>>
  <2>2. \A j \in 0..12 : __mon_yday(__isleap(y), j) = t[j + 1]
    BY <1>2 DEF __mon_yday
  <2>3. /\ t[1] = 0 /\ t[2] = 31 /\ t[3] = 60 /\ t[4] = 91 /\ t[5] = 121 /\ t[6] = 152 /\ t[7] = 182
        /\ t[8] = 213 /\ t[9] = 244 /\ t[10] = 274 /\ t[11] = 305 /\ t[12] = 335 /\ t[13] = 366
    OBVIOUS
  <2>4. /\ months[1] = 31 /\ months[2] = 29 /\ months[3] = 31 /\ months[4] = 30 /\ months[5] = 31 /\ months[6] = 30
        /\ months[7] = 31 /\ months[8] = 31 /\ months[9] = 30 /\ months[10] = 31 /\ months[11] = 30 /\ months[12] = 31
    BY <2>1
  <2> HIDE DEF t, months
  <2>5. /\ t[2] = t[1] + months[1] /\ t[3] = t[2] + months[2] /\ t[4] = t[3] + months[3]
        /\ t[5] = t[4] + months[4] /\ t[6] = t[5] + months[5] /\ t[7] = t[6] + months[6]
    BY <2>3, <2>4
  <2>6. /\ t[8] = t[7] + months[7] /\ t[9] = t[8] + months[8] /\ t[10] = t[9] + months[9]
        /\ t[11] = t[10] + months[10] /\ t[12] = t[11] + months[11] /\ t[13] = t[12] + months[12]
    BY <2>3, <2>4
  <2>7. t[(i + 1) + 1] = t[i + 1] + months[i + 1]
    <3>1. i \in {0, 1, 2, 3, 4, 5} => t[(i + 1) + 1] = t[i + 1] + months[i + 1]
      BY <2>5
    <3>2. i \in {6, 7, 8, 9, 10, 11} => t[(i + 1) + 1] = t[i + 1] + months[i + 1]
      BY <2>6
    <3> QED BY <1>1, <3>1, <3>2
  <2>8. i \in 0..12 /\ i + 1 \in 0..12
    OBVIOUS
  <2>9. __mon_yday(__isleap(y), i) = t[i + 1] /\ __mon_yday(__isleap(y), i + 1) = t[(i + 1) + 1]
    BY <2>2, <2>8
  <2> QED BY <2>7, <2>9 DEF months
<1>3. CASE ~__isleap(y)
  <2>1. months = <<31, 28, 31, 30, 31, 30, 31, 31, 30, 31, 30, 31>>
    BY <1>3 DEF MonthDays, mon_days
  <2> DEFINE t == <<0, 31, 59, 90, 120, 151, 181, 212, 243, 273, 304, 334, 365>>
  <2>2. \A j \in 0..12 : __mon_yday(__isleap(y), j) = t[j + 1]
    BY <1>3 DEF __mon_yday
  <2>3. /\ t[1] = 0 /\ t[2] = 31 /\ t[3] = 59 /\ t[4] = 90 /\ t[5] = 120 /\ t[6] = 151 /\ t[7] = 181
        /\ t[8] = 212 /\ t[9] = 243 /\ t[10] = 273 /\ t[11] = 304 /\ t[12] = 334 /\ t[13] = 365
    OBVIOUS
  <2>4. /\ months[1] = 31 /\ months[2] = 28 /\ months[3] = 31 /\ months[4] = 30 /\ months[5] = 31 /\ months[6] = 30
        /\ months[7] = 31 /\ months[8] = 31 /\ months[9] = 30 /\ months[10] = 31 /\ months[11] = 30 /\ months[12] = 31
    BY <2>1
  <2> HIDE DEF t, months
  <2>5. /\ t[2] = t[1] + months[1] /\ t[3] = t[2] + months[2] /\ t[4] = t[3] + months[3]
        /\ t[5] = t[4] + months[4] /\ t[6] = t[5] + months[5] /\ t[7] = t[6] + months[6]
    BY <2>3, <2>4
  <2>6. /\ t[8] = t[7] + months[7] /\ t[9] = t[8] + months[8] /\ t[10] = t[9] + months[9]
        /\ t[11] = t[10] + months[10] /\ t[12] = t[11] + months[11] /\ t[13] = t[12] + months[12]
    BY <2>3, <2>4
  <2>7. t[(i + 1) + 1] = t[i + 1] + months[i + 1]
    <3>1. i \in {0, 1, 2, 3, 4, 5} => t[(i + 1) + 1] = t[i + 1] + months[i + 1]
      BY <2>5
    <3>2. i \in {6, 7, 8, 9, 10, 11} => t[(i + 1) + 1] = t[i + 1] + months[i + 1]
      BY <2>6
    <3> QED BY <1>1, <3>1, <3>2
  <2>8. i \in 0..12 /\ i + 1 \in 0..12
    OBVIOUS
  <2>9. __mon_yday(__isleap(y), i) = t[i + 1] /\ __mon_yday(__isleap(y), i + 1) = t[(i + 1) + 1]
    BY <2>2, <2>8
  <2> QED BY <2>7, <2>9 DEF months
<1> QED BY <1>2, <1>3
(* The loop of tm_to_utc adds the months up to the entries of that table. *)
LEMMA DaysBeforeMonth ==
  ASSUME NEW y \in Int, NEW m \in 0..12
  PROVE  DaysBefore(MonthDays(y), m) = __mon_yday(__isleap(y), m)
<1> DEFINE months == MonthDays(y)
<1>1. months \in Seq(Nat) /\ m <= Len(months) /\ m \in Nat
  <2>1. mon_days \in Seq(Nat) /\ Len(mon_days) = 12
    BY DEF mon_days
  <2>2. mon_days_leap \in Seq(Nat) /\ Len(mon_days_leap) = 12
    BY DEF mon_days, mon_days_leap
  <2>3. MonthDays(y) = mon_days \/ MonthDays(y) = mon_days_leap
    BY DEF MonthDays
  <2> HIDE DEF months
  <2>4. months \in Seq(Nat) /\ Len(months) = 12
    BY <2>1, <2>2, <2>3 DEF months
  <2> QED BY <2>4
<1>2. PICK g \in [0..m -> Nat] : g[0] = 0 /\ (\A i \in 1..m : g[i] = g[i - 1] + months[i])
                                 /\ DaysBefore(months, m) = g[m]
  <2> HIDE DEF months
  <2> QED BY <1>1, MonthsFollow
<1>3. \A i \in 0..11 : __mon_yday(__isleap(y), i + 1) = __mon_yday(__isleap(y), i) + months[i + 1]
  BY MonthsAdd
<1>4. __mon_yday(__isleap(y), 0) = 0
  BY DEF __mon_yday
<1> HIDE DEF months
<1> DEFINE T == {i \in Nat : i <= m => g[i] = __mon_yday(__isleap(y), i)}
<1>5. 0 \in T
  BY <1>2, <1>4
<1>6. ASSUME NEW i \in Nat, i \in T PROVE i + 1 \in T
  <2>1. CASE i + 1 <= m
    <3>1. i \in 0..11 /\ i + 1 \in 1..m /\ (i + 1) - 1 = i /\ g[i] = __mon_yday(__isleap(y), i)
      BY <1>6, <2>1
    <3>2. g[i + 1] = g[i] + months[i + 1]
      BY <1>2, <3>1
    <3>3. __mon_yday(__isleap(y), i + 1) = __mon_yday(__isleap(y), i) + months[i + 1]
      BY <1>3, <3>1
    <3>4. g[i + 1] = __mon_yday(__isleap(y), i + 1)
      BY <3>1, <3>2, <3>3
    <3> QED BY <3>4
  <2> QED BY <2>1
<1>7. m \in T
  <2> HIDE DEF T
  <2> QED BY <1>1, <1>5, <1>6, Induction
<1> QED BY <1>2, <1>7 DEF months

LEMMA MonthFacts ==
  ASSUME NEW y \in Int, NEW i \in 0..11
  PROVE  /\ __mon_yday(__isleap(y), i) \in Nat /\ __mon_yday(__isleap(y), i + 1) \in Nat
         /\ MonthDays(y)[i + 1] \in 28..31
         /\ __mon_yday(__isleap(y), 0) = 0 /\ __mon_yday(__isleap(y), 12) = YearLength(y)
<1>1. __mon_yday(__isleap(y), 0) = 0 /\ __mon_yday(__isleap(y), 12) = YearLength(y)
  BY DEF __mon_yday, YearLength
<1>2. \A j \in 0..12 : __mon_yday(__isleap(y), j) \in Nat
  BY DEF __mon_yday
<1>3. MonthDays(y)[i + 1] \in 28..31
  <2>1. i + 1 \in 1..12
    OBVIOUS
  <2>2. \A j \in 1..12 : mon_days[j] \in 28..31
    BY DEF mon_days
  <2>3. \A j \in 1..12 : mon_days_leap[j] \in 28..31
    BY DEF mon_days, mon_days_leap
  <2> QED BY <2>1, <2>2, <2>3 DEF MonthDays
<1> QED BY <1>1, <1>2, <1>3

(* Leap years counted one by one are those the rule counts. *)
LEMMA LeapYearsIs ==
  ASSUME NEW a \in Int, NEW b \in Int, b >= a - 1
  PROVE  LeapYears(a, b) = Leaps(b) - Leaps(a - 1)
<1> DEFINE B(n) == {y \in a..(a + n - 1) : __isleap(y)}
           T == {n \in Nat : IsFiniteSet(B(n)) /\ Cardinality(B(n)) = Leaps(a + n - 1) - Leaps(a - 1)}
<1>1. \A y \in Int : Leaps(y) \in Int
  BY LeapStep
<1>2. 0 \in T
  <2>1. B(0) = {} /\ a + 0 - 1 = a - 1
    OBVIOUS
  <2>2. Leaps(a - 1) - Leaps(a - 1) = 0
    BY <1>1
  <2> HIDE DEF B
  <2> QED BY <2>1, <2>2, FS_EmptySet
<1>3. ASSUME NEW n \in Nat, n \in T PROVE n + 1 \in T
  <2> DEFINE y == a + n
  <2>1. B(n + 1) = IF __isleap(y) THEN B(n) \cup {y} ELSE B(n)
    OBVIOUS
  <2>2. y \notin B(n) /\ y \in Int /\ a + (n + 1) - 1 = y /\ y - 1 = a + n - 1
    OBVIOUS
  <2>3. IsFiniteSet(B(n)) /\ Cardinality(B(n)) = Leaps(a + n - 1) - Leaps(a - 1)
    BY <1>3
  <2>4. Leaps(y) = Leaps(y - 1) + (IF __isleap(y) THEN 1 ELSE 0)
    <3> HIDE DEF y
    <3> QED BY <2>2, LeapStep
  <2>5. IsFiniteSet(B(n + 1)) /\ Cardinality(B(n + 1)) = Leaps(a + (n + 1) - 1) - Leaps(a - 1)
    <3> HIDE DEF B, y
    <3>1. Leaps(y - 1) \in Int /\ Leaps(a - 1) \in Int
      BY <1>1, <2>2
    <3>2. CASE __isleap(y)
      <4>1. IsFiniteSet(B(n) \cup {y}) /\ Cardinality(B(n) \cup {y}) = Cardinality(B(n)) + 1
        BY <2>2, <2>3, FS_AddElement
      <4>2. B(n + 1) = B(n) \cup {y} /\ Leaps(y) = Leaps(y - 1) + 1
        BY <2>1, <2>4, <3>2
      <4>3. Cardinality(B(n)) = Leaps(y - 1) - Leaps(a - 1)
        BY <2>2, <2>3
      <4>4. Cardinality(B(n + 1)) = Leaps(y) - Leaps(a - 1)
        <5>1. Cardinality(B(n + 1)) = Cardinality(B(n)) + 1
          BY <4>1, <4>2
        <5> QED BY <3>1, <4>2, <4>3, <5>1
      <4> QED BY <2>2, <4>1, <4>2, <4>4
    <3>3. CASE ~__isleap(y)
      BY <2>1, <2>2, <2>3, <2>4, <3>1, <3>3
    <3> QED BY <3>2, <3>3
  <2> QED BY <2>5
<1>4. PICK k \in Nat : a + k - 1 = b
  <2>1. b - a + 1 \in Nat /\ a + (b - a + 1) - 1 = b
    OBVIOUS
  <2> QED BY <2>1
<1>5. k \in T
  <2> HIDE DEF T
  <2> QED BY <1>2, <1>3, Induction
<1> QED BY <1>4, <1>5 DEF LeapYears

(* Counting leap years one by one gives what LEAPS_THRU_END_OF computes. *)
LEMMA DayNumberIs ==
  ASSUME NEW y \in Int, NEW mon \in 0..11, NEW mday \in Int
  PROVE  DayNumber(y, mon, mday) =
           YearStart(y) - YearStart(1970) + __mon_yday(__isleap(y), mon) + mday - 1
<1>1. Leaps(y - 1) \in Int /\ Leaps(1969) \in Int
  <2>1. \A x \in Int : Leaps(x) \in Int
    BY LeapStep
  <2> QED BY <2>1
<1>2. LeapYears(1970, y - 1) - LeapYears(y, 1969) = Leaps(y - 1) - Leaps(1969)
  <2>1. CASE y >= 1970
    <3>1. y - 1 \in Int /\ y - 1 >= 1970 - 1 /\ 1970 - 1 = 1969
      BY <2>1
    <3>2. LeapYears(1970, y - 1) = Leaps(y - 1) - Leaps(1970 - 1)
      BY <3>1, LeapYearsIs
    <3>3. {z \in y..1969 : __isleap(z)} = {}
      BY <2>1
    <3>4. LeapYears(y, 1969) = 0
      BY <3>3, FS_EmptySet DEF LeapYears
    <3> QED BY <1>1, <3>1, <3>2, <3>4
  <2>2. CASE y < 1970
    <3>1. 1969 >= y - 1
      BY <2>2
    <3>2. LeapYears(y, 1969) = Leaps(1969) - Leaps(y - 1)
      BY <3>1, LeapYearsIs
    <3>3. {z \in 1970..(y - 1) : __isleap(z)} = {}
      BY <2>2
    <3>4. LeapYears(1970, y - 1) = 0
      BY <3>3, FS_EmptySet DEF LeapYears
    <3> QED BY <1>1, <3>1, <3>2, <3>4
  <2> QED BY <2>1, <2>2
<1>3. DaysBefore(MonthDays(y), mon) = __mon_yday(__isleap(y), mon) /\ __mon_yday(__isleap(y), mon) \in Nat
  <2>1. mon \in 0..12
    OBVIOUS
  <2>2. DaysBefore(MonthDays(y), mon) = __mon_yday(__isleap(y), mon)
    BY <2>1, DaysBeforeMonth
  <2>3. __mon_yday(__isleap(y), mon) \in Nat
    BY MonthFacts
  <2> QED BY <2>2, <2>3
<1>4. LeapYears(1970, y - 1) \in Int /\ LeapYears(y, 1969) \in Int
  <2>1. \A c, d \in Int : IsFiniteSet({z \in c..d : __isleap(z)})
    BY FS_Interval, FS_Subset
  <2>2. \A c, d \in Int : Cardinality({z \in c..d : __isleap(z)}) \in Nat
    BY <2>1, FS_CardinalityType
  <2> QED BY <2>2 DEF LeapYears
<1>5. DayNumber(y, mon, mday) = 365 * (y - 1970) + LeapYears(1970, y - 1) - LeapYears(y, 1969)
        + __mon_yday(__isleap(y), mon) + mday - 1
  BY <1>3 DEF DayNumber, MonthDays
<1>6. YearStart(y) = 365 * y + Leaps(y - 1) /\ YearStart(1970) = 365 * 1970 + Leaps(1969)
  BY DEF YearStart
<1> QED BY <1>1, <1>2, <1>3, <1>4, <1>5, <1>6

(* The month that __offtime finds. *)
MonthOf(g) == Max({m \in 0..11 : g.days >= __mon_yday(__isleap(g.y), m)})
(* The last month that has begun is the one a day lies within. *)
LEMMA MonthOfIs ==
  ASSUME NEW g \in Guesses, Inside(g)
  PROVE  /\ MonthOf(g) \in 0..11
         /\ g.days >= __mon_yday(__isleap(g.y), MonthOf(g))
         /\ g.days < __mon_yday(__isleap(g.y), MonthOf(g) + 1)
<1> DEFINE S == {m \in 0..11 : g.days >= __mon_yday(__isleap(g.y), m)}
<1>1. g.y \in Int /\ g.days \in Int /\ g.days >= 0 /\ g.days < YearLength(g.y)
  BY DEF Guesses, Inside
<1>2. S \subseteq Nat /\ 0 \in S /\ \A m \in S : m <= 11
  <2>1. __mon_yday(__isleap(g.y), 0) = 0
    <3>1. 0 \in 0..11
      OBVIOUS
    <3> QED BY <1>1, <3>1, MonthFacts
  <2> QED BY <1>1, <2>1
<1>3. Max(S) \in S /\ \A m \in S : m <= Max(S)
  <2> HIDE DEF S
  <2> QED BY <1>2, MaxOf
<1>4. MonthOf(g) = Max(S)
  BY DEF MonthOf
<1> DEFINE mon == MonthOf(g)
<1>5. mon \in 0..11 /\ g.days >= __mon_yday(__isleap(g.y), mon)
  BY <1>3, <1>4
<1>6. \A m \in 0..11 : g.days >= __mon_yday(__isleap(g.y), m) => m <= mon
  BY <1>3, <1>4
<1> HIDE DEF mon, S
<1>7. g.days < __mon_yday(__isleap(g.y), mon + 1)
  <2>1. CASE mon = 11
    <3>1. __mon_yday(__isleap(g.y), 12) = YearLength(g.y)
      BY <1>1, <1>5, MonthFacts
    <3> QED BY <1>1, <2>1, <3>1
  <2>2. CASE mon # 11
    <3>1. mon + 1 \in 0..11 /\ ~(mon + 1 <= mon)
      BY <1>5, <2>2
    <3>2. __mon_yday(__isleap(g.y), mon + 1) \in Nat
      BY <1>1, <1>5, MonthFacts
    <3>3. ~(g.days >= __mon_yday(__isleap(g.y), mon + 1))
      BY <1>6, <3>1
    <3> QED BY <1>1, <3>2, <3>3
  <2> QED BY <2>1, <2>2
<1> QED BY <1>5, <1>7 DEF mon

LEMMA StartOfYear ==
  ASSUME NEW y \in Int
  PROVE  YearStart(y) \in Int
<1>1. y < y + 1 /\ y + 1 \in Int
  OBVIOUS
<1> QED BY <1>1, YearsFollow

(* The parts that __offtime breaks a time into. *)
Parts(t, y, mon, mday) ==
  LET tm == __offtime(t)
  IN /\ tm.tm_year = y - 1900 /\ tm.tm_mon = mon /\ tm.tm_mday = mday
     /\ tm.tm_hour = t.rem \div 3600 /\ tm.tm_min = (t.rem % 3600) \div 60 /\ tm.tm_sec = t.rem % 60
(* __offtime finds a year, a month and a day of it that a day number       *)
(* stands for.                                                             *)
LEMMA DateFound ==
  ASSUME NEW t \in [days : Int, rem : Int]
  PROVE  \E y \in Int, mon \in 0..11, mday \in Nat :
           /\ mday \in 1..MonthDays(y)[mon + 1]
           /\ YearStart(y) + __mon_yday(__isleap(y), mon) + mday - 1 = YearStart(1970) + t.days
           /\ __mon_yday(__isleap(y), mon) + mday - 1 < YearLength(y)
           /\ Parts(t, y, mon, mday)
<1> DEFINE r == [days |-> t.days, y |-> 1970]
<1>1. r \in Guesses /\ r.y = 1970 /\ r.days = t.days /\ t.days \in Int
  BY DEF Guesses
<1>2. PICK g \in Guesses : Inside(g) /\ DayOf(g) = DayOf(r) /\ Guess[r] = g
  <2> HIDE DEF r
  <2> QED BY <1>1, NormIs, GuessIs
<1>3. /\ __offtime(t).tm_year = Guess[r].y - 1900
      /\ __offtime(t).tm_mon = MonthOf(Guess[r])
      /\ __offtime(t).tm_mday = Guess[r].days - __mon_yday(__isleap(Guess[r].y), MonthOf(Guess[r])) + 1
      /\ __offtime(t).tm_hour = t.rem \div 3600
      /\ __offtime(t).tm_min = (t.rem % 3600) \div 60
      /\ __offtime(t).tm_sec = t.rem % 60
  BY DEF __offtime, MonthOf
<1> HIDE DEF r
<1>4. PICK y \in Int, days \in Int : y = g.y /\ days = g.days
  BY DEF Guesses
<1>5. YearStart(y) + days = YearStart(1970) + t.days
  BY <1>1, <1>2, <1>4 DEF DayOf
<1>6. PICK mon \in 0..11 : mon = MonthOf(g)
  BY <1>2, MonthOfIs
<1>7. days >= __mon_yday(__isleap(y), mon) /\ days < __mon_yday(__isleap(y), mon + 1)
  BY <1>2, <1>4, <1>6, MonthOfIs
<1>8. PICK u \in Nat : u = __mon_yday(__isleap(y), mon)
  BY MonthFacts
<1>9. PICK len \in Nat : len = MonthDays(y)[mon + 1]
  <2>1. MonthDays(y)[mon + 1] \in 28..31
    BY MonthFacts
  <2> QED BY <2>1
<1>10. days >= u /\ days < u + len
  <2>1. __mon_yday(__isleap(y), mon + 1) = u + len
    BY <1>8, <1>9, MonthsAdd
  <2> QED BY <1>7, <1>8, <2>1
<1> DEFINE mday == days - u + 1
<1>11. mday \in Nat /\ mday \in 1..MonthDays(y)[mon + 1]
  BY <1>9, <1>10
<1>12. YearStart(y) + __mon_yday(__isleap(y), mon) + mday - 1 = YearStart(1970) + t.days
  <2>1. YearStart(y) \in Int /\ YearStart(1970) \in Int
    BY StartOfYear
  <2>2. YearStart(y) + u + mday - 1 = YearStart(y) + days
    BY <2>1
  <2> QED BY <1>5, <1>8, <2>2
<1>13. Parts(t, y, mon, mday)
  BY <1>2, <1>3, <1>4, <1>6, <1>8 DEF Parts
<1>14. __mon_yday(__isleap(y), mon) + mday - 1 < YearLength(y)
  <2>1. days < YearLength(y)
    BY <1>2, <1>4 DEF Inside
  <2>2. u + mday - 1 = days
    OBVIOUS
  <2> QED BY <1>8, <2>1, <2>2
<1> HIDE DEF mday
<1> QED BY <1>11, <1>12, <1>13, <1>14

(* __offtime finds the day of every day number there is: whatever years it *)
(* guesses on the way it ends, in the year the day lies within.            *)
THEOREM DaysAreFound ==
  ASSUME NEW days \in Int
  PROVE  DayIsFound([days |-> days, rem |-> 0])
<1> DEFINE t == [days |-> days, rem |-> 0]
<1>1. t \in [days : Int, rem : Int] /\ t.days = days
  OBVIOUS
<1> HIDE DEF t
<1>2. PICK y \in Int, mon \in 0..11, mday \in Nat :
         /\ mday \in 1..MonthDays(y)[mon + 1]
         /\ YearStart(y) + __mon_yday(__isleap(y), mon) + mday - 1 = YearStart(1970) + t.days
         /\ Parts(t, y, mon, mday)
  BY <1>1, DateFound
<1>3. __offtime(t).tm_year + 1900 = y /\ __offtime(t).tm_mon = mon /\ __offtime(t).tm_mday = mday
  BY <1>2 DEF Parts
<1>4. DayNumber(y, mon, mday) = t.days
  <2>1. DayNumber(y, mon, mday) =
          YearStart(y) - YearStart(1970) + __mon_yday(__isleap(y), mon) + mday - 1
    BY DayNumberIs
  <2>2. YearStart(y) \in Int /\ YearStart(1970) \in Int /\ __mon_yday(__isleap(y), mon) \in Nat
    <3>1. YearStart(y) \in Int /\ YearStart(1970) \in Int
      BY StartOfYear
    <3>2. __mon_yday(__isleap(y), mon) \in Nat
      BY MonthFacts
    <3> QED BY <3>1, <3>2
  <2> QED BY <1>1, <1>2, <2>1, <2>2
<1>5. DayIsFound(t)
  BY <1>2, <1>3, <1>4 DEF DayIsFound, MonthDays
<1> QED BY <1>5 DEF t

(* What the loop of strtol has read when it has come to each place of a text. *)
Reading == [n : Seq(Nat), fresh : BOOLEAN]
NothingRead == [n |-> <<>>, fresh |-> TRUE]
Reads(g, text) ==
  /\ g[0] = NothingRead
  /\ \A i \in 1..Len(text) : g[i] = Read(g[i - 1], text[i])

LEMMA LastChanged ==
  ASSUME NEW x \in Seq(Nat), NEW v, Len(x) > 0 => v \in Nat
  PROVE  [x EXCEPT ![Len(x)] = v] \in Seq(Nat)
<1>1. PICK m \in Nat : m = Len(x) /\ x \in [1..m -> Nat]
  BY LenProperties
<1>2. [x EXCEPT ![m] = v] = [i \in 1..m |-> IF i = m THEN v ELSE x[i]]
  BY <1>1
<1>3. \A i \in 1..m : (IF i = m THEN v ELSE x[i]) \in Nat
  <2> TAKE i \in 1..m
  <2>1. v \in Nat /\ x[i] \in Nat
    BY <1>1
  <2> QED BY <2>1
<1>4. [i \in 1..m |-> IF i = m THEN v ELSE x[i]] \in Seq(Nat)
  BY <1>3
<1> QED BY <1>1, <1>2, <1>4

LEMMA LastAgain ==
  ASSUME NEW x \in Seq(Nat), NEW v \in Nat, NEW w \in Nat
  PROVE  [Append(x, v) EXCEPT ![Len(Append(x, v))] = w] = Append(x, w)
<1>1. PICK m \in Nat : m = Len(x)
  OBVIOUS
<1>2. \A u \in Nat : Append(x, u) = [i \in 1..(m + 1) |-> IF i = m + 1 THEN u ELSE x[i]]
  <2> TAKE u \in Nat
  <2>1. Append(x, u) \in Seq(Nat) /\ Len(Append(x, u)) = m + 1
    BY <1>1
  <2>2. \A i \in 1..(m + 1) : Append(x, u)[i] = IF i = m + 1 THEN u ELSE x[i]
    BY <1>1
  <2>3. Append(x, u) \in [1..(m + 1) -> Nat]
    BY <2>1, LenProperties
  <2> QED BY <2>2, <2>3
<1>3. Len(Append(x, v)) = m + 1
  BY <1>1
<1> QED BY <1>2, <1>3

LEMMA DigitsAreDigits == \A c \in DigitChars : IsDigit(c) /\ DigitValue(c) \in Nat
BY DigitFacts

(* Reading a character keeps the numbers numbers. *)
LEMMA ReadIs ==
  ASSUME NEW s \in Reading, NEW c
  PROVE  Read(s, c) \in Reading
<1>1. CASE ~IsDigit(c)
  BY <1>1 DEF Read, Reading
<1>2. IsDigit(c) => DigitValue(c) \in Nat
  <2>1. IsDigit(c) => c \in DigitChars
    BY DEF IsDigit, DigitChars
  <2> QED BY <2>1, DigitFacts
<1>3. CASE IsDigit(c) /\ s.fresh
  <2>1. Append(s.n, DigitValue(c)) \in Seq(Nat)
    BY <1>2, <1>3 DEF Reading
  <2> QED BY <1>3, <2>1 DEF Read, Reading
<1>4. CASE IsDigit(c) /\ ~s.fresh
  <2> DEFINE q == [s.n EXCEPT ![Len(s.n)] = 10 * @ + DigitValue(c)]
  <2>1. q \in Seq(Nat)
    <3>1. s.n \in Seq(Nat) /\ DigitValue(c) \in Nat
      BY <1>2, <1>4 DEF Reading
    <3>2. Len(s.n) > 0 => 10 * (s.n)[Len(s.n)] + DigitValue(c) \in Nat
      BY <3>1
    <3> QED BY <3>1, <3>2, LastChanged
  <2>2. Read(s, c) = [s EXCEPT !.n = q]
    BY <1>4 DEF Read
  <2> HIDE DEF q
  <2> QED BY <2>1, <2>2 DEF Reading
<1> QED BY <1>1, <1>3, <1>4

(* NumbersIn, as the states of its loop. *)
LEMMA NumbersRead ==
  ASSUME NEW T, NEW text \in Seq(T)
  PROVE  \E g : Reads(g, text) /\ NumbersIn(text) = g[Len(text)].n
<1> DEFINE m == Len(text)
           F == [x \in Reading \X (1..m) |-> Read(x[1], text[x[2]])]
           s == CHOOSE s : s = [i \in 0..m |-> IF i = 0 THEN NothingRead ELSE Read(s[i - 1], text[i])]
<1>1. m \in Nat /\ F \in Passes(Reading, m) /\ NothingRead \in Reading
  <2>1. \A x \in Reading, i \in 1..m : Read(x, text[i]) \in Reading
    BY ReadIs
  <2>2. NothingRead \in Reading
    BY DEF NothingRead, Reading
  <2> QED BY <2>1, <2>2 DEF Passes
<1>2. \A x \in Reading, i \in 1..m : F[<<x, i>>] = Read(x, text[i])
  OBVIOUS
<1>3. s = [i \in 0..m |-> IF i = 0 THEN NothingRead ELSE Read(s[i - 1], text[i])]
  <2> HIDE DEF m, F
  <2>1. PICK g : g \in States(Reading, m, NothingRead, F)
    BY <1>1, LoopStates
  <2>2. g \in [0..m -> Reading] /\ g[0] = NothingRead
        /\ \A i \in 1..m : g[i - 1] \in Reading /\ g[i] = F[<<g[i - 1], i>>]
    BY <1>1, <2>1 DEF States
  <2>3. \A i \in 0..m : i # 0 => i \in 1..m
    BY <1>1
  <2>4. \A i \in 1..m : g[i] = Read(g[i - 1], text[i])
    BY <1>2, <2>2
  <2>5. g = [i \in 0..m |-> IF i = 0 THEN NothingRead ELSE Read(g[i - 1], text[i])]
    BY <2>2, <2>3, <2>4
  <2> QED BY <2>5
<1>4. NumbersIn(text) = s[m].n
  BY DEF NumbersIn, NothingRead
<1> HIDE DEF m, F, s
<1>5. Reads(s, text)
  <2>1. s[0] = NothingRead
    BY <1>1, <1>3
  <2>2. \A i \in 1..m : s[i] = Read(s[i - 1], text[i])
    <3>1. \A i \in 1..m : i \in 0..m /\ i # 0
      BY <1>1
    <3> QED BY <1>3, <3>1
  <2> QED BY <2>1, <2>2 DEF Reads, m
<1> QED BY <1>4, <1>5 DEF m

AfterGap(n) == [n |-> n, fresh |-> TRUE]
AfterDigit(n) == [n |-> n, fresh |-> FALSE]

LEMMA FirstDigitRead ==
  ASSUME NEW n, NEW c, IsDigit(c)
  PROVE  Read(AfterGap(n), c) = AfterDigit(Append(n, DigitValue(c)))
BY DEF Read, AfterGap, AfterDigit

LEMMA DigitRead ==
  ASSUME NEW nums \in Seq(Nat), NEW v \in Nat, NEW c, IsDigit(c), DigitValue(c) \in Nat
  PROVE  Read(AfterDigit(Append(nums, v)), c) = AfterDigit(Append(nums, 10 * v + DigitValue(c)))
<1>1. PICK w \in Nat : w = DigitValue(c)
  OBVIOUS
<1>2. PICK q : q = Append(nums, v)
  OBVIOUS
<1>3. Read(AfterDigit(q), c) = AfterDigit([q EXCEPT ![Len(q)] = 10 * q[Len(q)] + w])
  BY <1>1 DEF Read, AfterDigit
<1>4. q[Len(q)] = v /\ 10 * v + w \in Nat
  BY <1>2
<1>5. [q EXCEPT ![Len(q)] = 10 * v + w] = Append(nums, 10 * v + w)
  BY <1>2, <1>4, LastAgain
<1> QED BY <1>1, <1>2, <1>3, <1>4, <1>5

LEMMA SeparatorRead ==
  ASSUME NEW n, NEW c, ~IsDigit(c)
  PROVE  Read(AfterDigit(n), c) = AfterGap(n)
BY DEF Read, AfterGap, AfterDigit

(* Digits in a row are one number more. *)
StandsAt(chunk, text, i, e) ==
  /\ Len(chunk) > 0 /\ Len(text) \in Nat /\ e = i + Len(chunk) /\ e <= Len(text)
  /\ \A j \in 1..Len(chunk) : text[i + j] = chunk[j]
LEMMA DigitsRead ==
  ASSUME NEW text, NEW g, Reads(g, text),
         NEW i \in Nat, NEW chunk \in Seq(DigitChars), NEW e, StandsAt(chunk, text, i, e),
         NEW nums \in Seq(Nat), g[i] = AfterGap(nums)
  PROVE  g[e] = AfterDigit(Append(nums, Number(chunk)))
<1>1. PICK k \in Nat : k = Len(chunk)
  OBVIOUS
<1>2. PICK num \in [0..k -> Nat] :
        /\ num[0] = 0 /\ \A j \in 1..k : num[j] = 10 * num[j - 1] + DigitValue(chunk[j])
        /\ Number(chunk) = num[k]
  BY <1>1, NumberLoop
<1>3. k > 0 /\ e = i + k /\ i + k <= Len(text) /\ Len(text) \in Nat /\ \A j \in 1..k : text[i + j] = chunk[j]
  BY <1>1 DEF StandsAt
<1>4. \A j \in 1..k : IsDigit(chunk[j]) /\ DigitValue(chunk[j]) \in Nat
  <2>1. \A j \in 1..k : chunk[j] \in DigitChars
    BY <1>1
  <2> QED BY <2>1, DigitsAreDigits
<1>5. \A j \in 0..k : num[j] \in Nat
  BY <1>2
<1>6. \A j \in 1..k : g[i + j] = Read(g[i + (j - 1)], chunk[j])
  <2> TAKE j \in 1..k
  <2>1. i + j \in 1..Len(text) /\ (i + j) - 1 = i + (j - 1)
    BY <1>3
  <2>2. g[i + j] = Read(g[(i + j) - 1], text[i + j])
    BY <2>1 DEF Reads
  <2> QED BY <1>3, <2>1, <2>2
<1> DEFINE U == {j \in Nat : j < k => g[i + (j + 1)] = AfterDigit(Append(nums, num[j + 1]))}
<1>7. 0 \in U
  <2>1. 1 \in 1..k /\ 1 - 1 = 0 /\ i + 0 = i /\ 0 + 1 = 1
    BY <1>3
  <2>2. g[i + 1] = Read(AfterGap(nums), chunk[1]) /\ IsDigit(chunk[1]) /\ DigitValue(chunk[1]) \in Nat
    BY <1>4, <1>6, <2>1
  <2>3. num[1] = DigitValue(chunk[1])
    BY <1>2, <2>1, <2>2
  <2> QED BY <2>1, <2>2, <2>3, FirstDigitRead
<1>8. ASSUME NEW j \in Nat, j \in U PROVE j + 1 \in U
  <2> SUFFICES ASSUME j + 1 < k
               PROVE  g[i + ((j + 1) + 1)] = AfterDigit(Append(nums, num[(j + 1) + 1]))
    OBVIOUS
  <2>1. j < k /\ (j + 1) + 1 \in 1..k /\ ((j + 1) + 1) - 1 = j + 1 /\ j + 1 \in 0..k
    BY <1>1
  <2>2. g[i + (j + 1)] = AfterDigit(Append(nums, num[j + 1]))
    BY <1>8, <2>1
  <2>3. PICK v \in Nat : v = num[j + 1]
    BY <1>5, <2>1
  <2>4. PICK c : c = chunk[(j + 1) + 1] /\ IsDigit(c) /\ DigitValue(c) \in Nat
    BY <1>4, <2>1
  <2>5. g[i + ((j + 1) + 1)] = Read(AfterDigit(Append(nums, v)), c)
    BY <1>6, <2>1, <2>2, <2>3, <2>4
  <2>6. num[(j + 1) + 1] = 10 * v + DigitValue(c)
    BY <1>2, <2>1, <2>3, <2>4
  <2> QED BY <2>4, <2>5, <2>6, DigitRead
<1>9. k - 1 \in U /\ k - 1 \in Nat /\ (k - 1) + 1 = k
  <2>1. k - 1 \in Nat /\ (k - 1) + 1 = k
    BY <1>1, <1>3
  <2> HIDE DEF U
  <2> QED BY <1>7, <1>8, <2>1, Induction
<1>10. g[i + k] = AfterDigit(Append(nums, num[k]))
  BY <1>9
<1> QED BY <1>1, <1>2, <1>3, <1>10

(* A character that is no digit ends a number. *)
LEMMA OtherRead ==
  ASSUME NEW text, NEW g, Reads(g, text), NEW i \in Nat, i + 1 \in 1..Len(text), ~IsDigit(text[i + 1]),
         NEW nums, g[i] = AfterDigit(nums)
  PROVE  g[i + 1] = AfterGap(nums)
<1>1. (i + 1) - 1 = i
  OBVIOUS
<1>2. g[i + 1] = Read(g[(i + 1) - 1], text[i + 1])
  BY DEF Reads
<1> QED BY <1>1, <1>2, SeparatorRead

LEMMA Appended ==
  ASSUME NEW x \in Nat, NEW y \in Nat, NEW z \in Nat
  PROVE  /\ Append(<<>>, x) = <<x>> /\ Append(<<x>>, y) = <<x, y>> /\ Append(<<x, y>>, z) = <<x, y, z>>
         /\ <<>> \in Seq(Nat) /\ <<x>> \in Seq(Nat) /\ <<x, y>> \in Seq(Nat) /\ <<x, y, z>> \in Seq(Nat)
<1>1. <<>> \in Seq(Nat) /\ <<x>> \in Seq(Nat) /\ <<x, y>> \in Seq(Nat) /\ <<x, y, z>> \in Seq(Nat)
  OBVIOUS
<1>2. Append(<<>>, x) = <<x>>
  OBVIOUS
<1>3. Append(<<x>>, y) = <<x, y>>
  <2>1. Append(<<x>>, y) \in Seq(Nat) /\ Len(Append(<<x>>, y)) = 2
    BY <1>1
  <2>2. Append(<<x>>, y)[1] = x /\ Append(<<x>>, y)[2] = y
    BY <1>1
  <2>3. \A i \in 1..2 : Append(<<x>>, y)[i] = <<x, y>>[i]
    BY <2>2
  <2> QED BY <1>1, <2>1, <2>3, SeqEqual
<1>4. Append(<<x, y>>, z) = <<x, y, z>>
  <2>1. Append(<<x, y>>, z) \in Seq(Nat) /\ Len(Append(<<x, y>>, z)) = 3
    BY <1>1
  <2>2. Append(<<x, y>>, z)[1] = x /\ Append(<<x, y>>, z)[2] = y /\ Append(<<x, y>>, z)[3] = z
    BY <1>1
  <2>3. \A i \in 1..3 : Append(<<x, y>>, z)[i] = <<x, y, z>>[i]
    BY <2>2
  <2> QED BY <1>1, <2>1, <2>3, SeqEqual
<1> QED BY <1>1, <1>2, <1>3, <1>4

Beside(x, y) == x \o y
AreBeside(x, y, z) ==
  /\ Len(z) = Len(x) + Len(y)
  /\ \A i \in 1..Len(x) : z[i] = x[i]
  /\ \A j \in 1..Len(y) : z[Len(x) + j] = y[j]
(* Where the characters of two texts stand when one is put behind the      *)
(* other.                                                                  *)
LEMMA JoinedTexts ==
  ASSUME NEW T, NEW x \in Seq(T), NEW y \in Seq(T)
  PROVE  Beside(x, y) \in Seq(T) /\ AreBeside(x, y, Beside(x, y))
<1>1. /\ x \o y \in Seq(T) /\ Len(x \o y) = Len(x) + Len(y)
      /\ \A i \in 1 .. Len(x) + Len(y) : (x \o y)[i] = IF i <= Len(x) THEN x[i] ELSE y[i - Len(x)]
  BY ConcatProperties
<1>2. Len(x) \in Nat /\ Len(y) \in Nat
  OBVIOUS
<1>3. \A i \in 1..Len(x) : i \in 1..Len(x) + Len(y) /\ i <= Len(x)
  BY <1>2
<1>4. \A j \in 1..Len(y) : Len(x) + j \in 1..Len(x) + Len(y) /\ ~(Len(x) + j <= Len(x)) /\ (Len(x) + j) - Len(x) = j
  BY <1>2
<1>5. \A i \in 1..Len(x) : (x \o y)[i] = x[i]
  BY <1>1, <1>3
<1>6. \A j \in 1..Len(y) : (x \o y)[Len(x) + j] = y[j]
  BY <1>1, <1>4
<1> QED BY <1>1, <1>5, <1>6 DEF Beside, AreBeside

(* Where the parts of a text stand. *)
ThreeStand(text, A, B, C, S) ==
  /\ Len(text) = Len(A) + Len(B) + Len(C) + 2
  /\ \A j \in 1..Len(A) : text[0 + j] = A[j]
  /\ text[Len(A) + 1] = S[1]
  /\ \A j \in 1..Len(B) : text[Len(A) + 1 + j] = B[j]
  /\ text[Len(A) + Len(B) + 2] = S[1]
  /\ \A j \in 1..Len(C) : text[Len(A) + Len(B) + 2 + j] = C[j]
(* The same for three texts with separators between them. *)
LEMMA PartsStand ==
  ASSUME NEW T, NEW A \in Seq(T), NEW B \in Seq(T), NEW C \in Seq(T), NEW S \in Seq(T), Len(S) = 1
  PROVE  /\ A \o S \o B \o S \o C \in Seq(T)
         /\ ThreeStand(A \o S \o B \o S \o C, A, B, C, S)
<1>1. PICK a \in Nat, b \in Nat, d \in Nat : a = Len(A) /\ b = Len(B) /\ d = Len(C)
  OBVIOUS
<1>2. PICK AS \in Seq(T) :
        AS = Beside(A, S) /\ Len(AS) = a + 1 /\ (\A i \in 1..a : AS[i] = A[i]) /\ AS[a + 1] = S[1]
  <2>1. Beside(A, S) \in Seq(T) /\ AreBeside(A, S, Beside(A, S))
    BY JoinedTexts
  <2> QED BY <1>1, <2>1 DEF AreBeside
<1>3. PICK AB \in Seq(T) :
        /\ AB = Beside(AS, B) /\ Len(AB) = a + 1 + b
        /\ \A i \in 1..(a + 1) : AB[i] = AS[i]
        /\ \A j \in 1..b : AB[a + 1 + j] = B[j]
  <2>1. Beside(AS, B) \in Seq(T) /\ AreBeside(AS, B, Beside(AS, B))
    BY JoinedTexts
  <2>2. PICK AB \in Seq(T) : AB = Beside(AS, B)
    BY <2>1
  <2>3. Len(AB) = (a + 1) + b /\ (\A i \in 1..(a + 1) : AB[i] = AS[i])
    BY <1>1, <1>2, <2>1, <2>2 DEF AreBeside
  <2>4. \A j \in 1..b : AB[(a + 1) + j] = B[j]
    BY <1>1, <1>2, <2>1, <2>2 DEF AreBeside
  <2> QED BY <2>2, <2>3, <2>4
<1>4. PICK BS \in Seq(T) :
        /\ BS = Beside(AB, S) /\ Len(BS) = a + b + 2
        /\ \A i \in 1..(a + 1 + b) : BS[i] = AB[i]
        /\ BS[a + b + 2] = S[1]
  <2>1. Beside(AB, S) \in Seq(T) /\ AreBeside(AB, S, Beside(AB, S))
    BY JoinedTexts
  <2>2. Len(AB) + 1 = a + b + 2
    BY <1>1, <1>3
  <2> QED BY <1>1, <1>3, <2>1, <2>2 DEF AreBeside
<1>5. PICK text \in Seq(T) :
        /\ text = Beside(BS, C) /\ Len(text) = a + b + 2 + d
        /\ \A i \in 1..(a + b + 2) : text[i] = BS[i]
        /\ \A j \in 1..d : text[a + b + 2 + j] = C[j]
  <2>1. Beside(BS, C) \in Seq(T) /\ AreBeside(BS, C, Beside(BS, C))
    BY JoinedTexts
  <2> QED BY <1>1, <1>4, <2>1, SMTT(30) DEF AreBeside
<1>6. \A j \in 1..a : text[0 + j] = A[j]
  <2> TAKE j \in 1..a
  <2>1. j \in 1..(a + b + 2) /\ j \in 1..(a + 1 + b) /\ j \in 1..(a + 1) /\ 0 + j = j
    OBVIOUS
  <2> QED BY <1>2, <1>3, <1>4, <1>5, <2>1
<1>7. text[a + 1] = S[1] /\ text[a + b + 2] = S[1]
  <2>1. a + 1 \in 1..(a + b + 2) /\ a + 1 \in 1..(a + 1 + b) /\ a + 1 \in 1..(a + 1) /\ a + b + 2 \in 1..(a + b + 2)
    OBVIOUS
  <2> QED BY <1>2, <1>3, <1>4, <1>5, <2>1
<1>8. \A j \in 1..b : text[a + 1 + j] = B[j]
  <2> TAKE j \in 1..b
  <2>1. a + 1 + j \in 1..(a + b + 2) /\ a + 1 + j \in 1..(a + 1 + b)
    OBVIOUS
  <2> QED BY <1>3, <1>4, <1>5, <2>1
<1>9. text = A \o S \o B \o S \o C
  BY <1>2, <1>3, <1>4, <1>5 DEF Beside
<1>10. Len(text) = a + b + d + 2
  BY <1>5
<1>11. ThreeStand(text, A, B, C, S)
  BY <1>1, <1>5, <1>6, <1>7, <1>8, <1>10 DEF ThreeStand
<1> QED BY <1>9, <1>11

LEMMA NumberIsNat ==
  ASSUME NEW x \in Seq(DigitChars)
  PROVE  Number(x) \in Nat
<1>1. PICK h \in [0..Len(x) -> Nat] : Number(x) = h[Len(x)]
  BY NumberLoop
<1>2. Len(x) \in 0..Len(x)
  OBVIOUS
<1> QED BY <1>1, <1>2

ThreeChunks(A, B, C, i, j, k, text) ==
  /\ StandsAt(A, text, 0, i) /\ StandsAt(B, text, i + 1, j) /\ StandsAt(C, text, j + 1, k)
  /\ i + 1 \in 1..Len(text) /\ ~IsDigit(text[i + 1])
  /\ j + 1 \in 1..Len(text) /\ ~IsDigit(text[j + 1])
(* Three numbers between separators are read as these three. *)
LEMMA ChunksRead ==
  ASSUME NEW A \in Seq(DigitChars), NEW B \in Seq(DigitChars), NEW C \in Seq(DigitChars),
         NEW i \in Nat, NEW j \in Nat, NEW k \in Nat, NEW text, NEW g
  PROVE  Reads(g, text) /\ ThreeChunks(A, B, C, i, j, k, text)
           => g[k] = AfterDigit(<<Number(A), Number(B), Number(C)>>)
<1>1. SUFFICES
        ASSUME Reads(g, text),
               StandsAt(A, text, 0, i) /\ StandsAt(B, text, i + 1, j) /\ StandsAt(C, text, j + 1, k),
               i + 1 \in 1..Len(text) /\ ~IsDigit(text[i + 1]),
               j + 1 \in 1..Len(text) /\ ~IsDigit(text[j + 1])
        PROVE  g[k] = AfterDigit(<<Number(A), Number(B), Number(C)>>)
  BY DEF ThreeChunks
<1>2. Reads(g, text)
  BY <1>1
<1>3. StandsAt(A, text, 0, i) /\ StandsAt(B, text, i + 1, j) /\ StandsAt(C, text, j + 1, k)
  BY <1>1
<1>4. PICK na \in Nat, nb \in Nat, nc \in Nat : na = Number(A) /\ nb = Number(B) /\ nc = Number(C)
  BY NumberIsNat
<1>5. PICK n0 \in Seq(Nat), n1 \in Seq(Nat), n2 \in Seq(Nat), n3 \in Seq(Nat) :
        /\ n0 = <<>> /\ n1 = Append(n0, na) /\ n2 = Append(n1, nb) /\ n3 = Append(n2, nc)
        /\ n3 = <<na, nb, nc>>
  <2>1. <<>> \in Seq(Nat) /\ <<na>> \in Seq(Nat) /\ <<na, nb>> \in Seq(Nat) /\ <<na, nb, nc>> \in Seq(Nat)
    BY Appended
  <2>2. Append(<<>>, na) = <<na>> /\ Append(<<na>>, nb) = <<na, nb>> /\ Append(<<na, nb>>, nc) = <<na, nb, nc>>
    BY Appended
  <2> QED BY <2>1, <2>2, Zenon
<1>6. g[0] = AfterGap(n0)
  BY <1>2, <1>5 DEF Reads, NothingRead, AfterGap
<1>7. n1 = Append(n0, na) /\ n2 = Append(n1, nb) /\ n3 = Append(n2, nc)
  BY <1>5
<1>8. g[i] = AfterDigit(n1)
  <2>1. StandsAt(A, text, 0, i)
    BY <1>3
  <2>2. g[i] = AfterDigit(Append(n0, Number(A)))
    BY <1>2, <1>6, <2>1, DigitsRead
  <2> QED BY <1>4, <1>7, <2>2, Zenon
<1>9. g[i + 1] = AfterGap(n1)
  BY <1>1, <1>8, OtherRead
<1>10. g[j] = AfterDigit(n2)
  <2>1. PICK m \in Nat : m = i + 1 /\ StandsAt(B, text, m, j) /\ g[m] = AfterGap(n1)
    BY <1>3, <1>9
  <2>2. g[j] = AfterDigit(Append(n1, Number(B)))
    BY <1>2, <2>1, DigitsRead
  <2> QED BY <1>4, <1>7, <2>2, Zenon
<1>11. g[j + 1] = AfterGap(n2)
  BY <1>1, <1>10, OtherRead
<1>12. g[k] = AfterDigit(n3)
  <2>1. PICK m \in Nat : m = j + 1 /\ StandsAt(C, text, m, k) /\ g[m] = AfterGap(n2)
    BY <1>3, <1>11
  <2>2. g[k] = AfterDigit(Append(n2, Number(C)))
    BY <1>2, <2>1, DigitsRead
  <2> QED BY <1>4, <1>7, <2>2, Zenon
<1> QED BY <1>4, <1>5, <1>12

(* Three numbers with something between them. *)
LEMMA ThreeRead ==
  ASSUME NEW A \in Seq(DigitChars), NEW B \in Seq(DigitChars), NEW C \in Seq(DigitChars),
         Len(A) > 0, Len(B) > 0, Len(C) > 0, NEW c, ~IsDigit(c)
  PROVE  NumbersIn(A \o <<c>> \o B \o <<c>> \o C) = <<Number(A), Number(B), Number(C)>>
<1> DEFINE T == DigitChars \cup {c}
           S == <<c>>
<1>1. A \in Seq(T) /\ B \in Seq(T) /\ C \in Seq(T) /\ S \in Seq(T) /\ Len(S) = 1 /\ S[1] = c
  OBVIOUS
<1>2. PICK a \in Nat, b \in Nat, d \in Nat : a = Len(A) /\ b = Len(B) /\ d = Len(C) /\ a > 0 /\ b > 0 /\ d > 0
  OBVIOUS
<1> HIDE DEF T, S
<1>3. PICK text : text = A \o S \o B \o S \o C /\ text \in Seq(T) /\ ThreeStand(text, A, B, C, S)
  BY <1>1, PartsStand, Zenon
<1>4. PICK g : Reads(g, text) /\ NumbersIn(text) = g[Len(text)].n
  BY <1>3, NumbersRead
<1>5. Len(text) = a + b + d + 2 /\ Len(text) \in Nat
  BY <1>2, <1>3 DEF ThreeStand
<1> DEFINE i == a
           j == a + b + 1
<1>6. StandsAt(A, text, 0, i)
  BY <1>2, <1>3, <1>5 DEF StandsAt, ThreeStand
<1>7. StandsAt(B, text, i + 1, j)
  <2>1. a + b + 1 = a + 1 + Len(B) /\ a + b + 1 <= Len(text)
    BY <1>2, <1>5
  <2>2. \A n \in 1..Len(B) : text[a + 1 + n] = B[n]
    BY <1>2, <1>3 DEF ThreeStand
  <2> QED BY <1>2, <1>5, <2>1, <2>2 DEF StandsAt
<1>8. StandsAt(C, text, j + 1, a + b + d + 2)
  <2>1. a + b + d + 2 = (a + b + 1) + 1 + Len(C) /\ a + b + d + 2 <= Len(text) /\ a + b + 2 = (a + b + 1) + 1
    BY <1>2, <1>5
  <2>2. \A n \in 1..Len(C) : text[a + b + 2 + n] = C[n]
    BY <1>2, <1>3 DEF ThreeStand
  <2> QED BY <1>2, <1>5, <2>1, <2>2 DEF StandsAt
<1>9. i \in Nat /\ j \in Nat /\ i + 1 \in 1..Len(text) /\ j + 1 \in 1..Len(text) /\ j + 1 = a + b + 2
  BY <1>5
<1>10. ~IsDigit(text[i + 1]) /\ ~IsDigit(text[j + 1])
  <2>1. text[a + 1] = c /\ text[a + b + 2] = c
    BY <1>1, <1>2, <1>3 DEF ThreeStand
  <2> QED BY <1>9, <2>1
<1> HIDE DEF i, j
<1>11. g[Len(text)] = AfterDigit(<<Number(A), Number(B), Number(C)>>)
  <2>1. PICK x \in Nat, y \in Nat, z \in Nat : z = Len(text) /\ ThreeChunks(A, B, C, x, y, z, text)
    <3>1. a + b + d + 2 \in Nat /\ a + b + d + 2 = Len(text)
      BY <1>5
    <3>2. ThreeChunks(A, B, C, i, j, a + b + d + 2, text)
      BY <1>6, <1>7, <1>8, <1>9, <1>10 DEF ThreeChunks
    <3> QED BY <1>9, <3>1, <3>2
  <2>2. Reads(g, text)
    BY <1>4
  <2>3. g[z] = AfterDigit(<<Number(A), Number(B), Number(C)>>)
    BY <2>1, <2>2, ChunksRead
  <2> QED BY <2>1, <2>3
<1> QED BY <1>3, <1>4, <1>11 DEF S, AfterDigit

LastDay == 47540
Times == {t \in [days : Nat, rem : Nat] : t.days <= LastDay /\ t.rem < 86400}

(* The first and the last of the years that tm_to_utc is meant for. *)
LEMMA YearStarts ==
  /\ YearStart(1970) = 719527 /\ YearStart(2100) = 767009
  /\ YearLength(2100) = 365 /\ __isleap(2000) /\ ~__isleap(2100)
<1>1. Leaps(1969) = 477 /\ Leaps(2099) = 509
  BY SMT DEF Leaps, LEAPS_THRU_END_OF
<1>2. __isleap(2000) /\ ~__isleap(2100)
  BY SMT DEF __isleap
<1>3. 1970 - 1 = 1969 /\ 2100 - 1 = 2099
  BY SMT
<1> QED BY <1>1, <1>2, <1>3, SMT DEF YearStart, YearLength

(* The days before a year and a month, as tm_to_utc counts them: right     *)
(* until the end of February 2100.                                         *)
LEMMA YearsOfTm ==
  ASSUME NEW y \in Int, y >= 1970, y <= 2100, NEW mon \in 0..11, y = 2100 => mon <= 1
  PROVE  LET tyears == y - 1970
             leap_this_year == (tyears + 2) % 4 = 0
         IN /\ tyears * 365 + ((tyears + 2) \div 4 - (IF leap_this_year THEN 1 ELSE 0))
                 = YearStart(y) - YearStart(1970)
            /\ DaysBefore(IF leap_this_year THEN mon_days_leap ELSE mon_days, mon)
                 = __mon_yday(__isleap(y), mon)
<1> DEFINE leap == ((y - 1970) + 2) % 4 = 0
<1>1. leap <=> y % 4 = 0
  BY SMT
<1>2. Leaps(y - 1) - 477 = ((y - 1970) + 2) \div 4 - (IF leap THEN 1 ELSE 0)
  <2>1. ((y - 1970) + 2) \div 4 - (IF leap THEN 1 ELSE 0) = ((y - 1) \div 4) - 492
    BY <1>1, SMT
  <2>2. ((y - 1) \div 400) - ((y - 1) \div 100) = 0 - 15
    BY SMT
  <2> QED BY <2>1, <2>2, SMT DEF Leaps, LEAPS_THRU_END_OF
<1>3. YearStart(y) = 365 * y + Leaps(y - 1) /\ YearStart(1970) = 719527 /\ Leaps(y - 1) \in Int
  BY YearStarts, LeapStep DEF YearStart
<1>4. y # 2100 => (leap <=> __isleap(y))
  BY <1>1, SMT DEF __isleap
<1> HIDE DEF leap
<1>5. DaysBefore(IF leap THEN mon_days_leap ELSE mon_days, mon) = __mon_yday(__isleap(y), mon)
  <2>1. mon \in 0..12
    OBVIOUS
  <2>2. CASE y # 2100
    <3>1. MonthDays(y) = IF leap THEN mon_days_leap ELSE mon_days
      BY <1>4, <2>2 DEF MonthDays
    <3>2. DaysBefore(MonthDays(y), mon) = __mon_yday(__isleap(y), mon)
      BY <2>1, DaysBeforeMonth
    <3> QED BY <3>1, <3>2
  <2>3. CASE y = 2100
    <3>1. leap /\ MonthDays(2000) = mon_days_leap /\ ~__isleap(y)
      BY <1>1, <2>3, YearStarts, SMT DEF MonthDays
    <3>2. DaysBefore(MonthDays(2000), mon) = __mon_yday(__isleap(2000), mon)
      BY <2>1, DaysBeforeMonth
    <3>3. mon = 0 \/ mon = 1
      BY <2>3
    <3>4. __isleap(2000)
      BY YearStarts
    <3>5. __mon_yday(__isleap(2000), mon) = __mon_yday(__isleap(y), mon)
      BY <3>1, <3>3, <3>4 DEF __mon_yday
    <3>6. (IF leap THEN mon_days_leap ELSE mon_days) = MonthDays(2000)
      BY <3>1
    <3> QED BY <3>2, <3>5, <3>6
  <2> QED BY <2>2, <2>3
<1>6. (y - 1970) * 365 + (((y - 1970) + 2) \div 4 - (IF leap THEN 1 ELSE 0)) = YearStart(y) - YearStart(1970)
  BY <1>2, <1>3, SMT
<1> QED BY <1>5, <1>6 DEF leap

(* The parts of a day of the years tm_to_utc is meant for. *)
OnDay(d, y, mon, mday) ==
  /\ y >= 1970 /\ y <= 2100 /\ (y = 2100 => mon <= 1) /\ mday >= 1 /\ mday <= 31
  /\ YearStart(y) - YearStart(1970) + __mon_yday(__isleap(y), mon) + mday - 1 = d

(* In these years __offtime finds a year that tm_to_utc takes for the same *)
(* kind.                                                                   *)
LEMMA WorkdayFound ==
  ASSUME NEW t \in Times
  PROVE  \E y \in Nat, mon \in 0..11, mday \in Nat :
           OnDay(t.days, y, mon, mday) /\ Parts(t, y, mon, mday)
<1>1. t \in [days : Int, rem : Int] /\ t.days >= 0 /\ t.days <= 47540
  BY SMT DEF Times, LastDay
<1>2. PICK y \in Int, mon \in 0..11, mday \in Nat :
        /\ mday \in 1..MonthDays(y)[mon + 1]
        /\ YearStart(y) + __mon_yday(__isleap(y), mon) + mday - 1 = YearStart(1970) + t.days
        /\ __mon_yday(__isleap(y), mon) + mday - 1 < YearLength(y)
        /\ Parts(t, y, mon, mday)
  BY <1>1, DateFound
<1>3. MonthDays(y)[mon + 1] \in 28..31
  BY MonthFacts
<1>4. mday >= 1 /\ mday <= 31
  BY <1>2, <1>3
<1>5. PICK u \in Nat : u = __mon_yday(__isleap(y), mon)
  BY MonthFacts
<1>6. PICK s \in Int, len \in Int, d \in Nat : s = YearStart(y) /\ len = YearLength(y) /\ d = t.days /\ d <= 47540
  <2>1. YearLength(y) \in Int
    BY DEF YearLength
  <2>2. t.days \in Nat
    BY <1>1
  <2> QED BY <1>1, <2>1, <2>2, StartOfYear
<1>7. s + u + mday - 1 = 719527 + d /\ u + mday - 1 < len
  BY <1>2, <1>5, <1>6, YearStarts
<1>8. y >= 1970
  <2> SUFFICES ASSUME y < 1970 PROVE FALSE
    OBVIOUS
  <2>1. s + len <= 719527
    BY <1>6, YearsFollow, YearStarts
  <2> QED BY <1>7, <2>1, SMT
<1>9. y <= 2100
  <2> SUFFICES ASSUME 2100 < y PROVE FALSE
    OBVIOUS
  <2>1. 767009 + 365 <= s
    BY <1>6, YearsFollow, YearStarts
  <2> QED BY <1>4, <1>6, <1>7, <2>1, SMT
<1>10. y = 2100 => mon <= 1
  <2> SUFFICES ASSUME y = 2100, ~(mon <= 1) PROVE FALSE
    OBVIOUS
  <2>1. mon \in {2, 3, 4, 5, 6, 7, 8, 9, 10, 11}
    OBVIOUS
  <2>2. ~__isleap(y)
    BY YearStarts
  <2>3. u >= 59
    BY <1>5, <2>1, <2>2 DEF __mon_yday
  <2>4. s = 767009
    BY <1>6, YearStarts
  <2> QED BY <1>4, <1>6, <1>7, <2>3, <2>4, SMT
<1>11. YearStart(y) - YearStart(1970) + __mon_yday(__isleap(y), mon) + mday - 1 = t.days
  <2>1. YearStart(1970) = 719527
    BY YearStarts
  <2>2. s - 719527 + u + mday - 1 = d
    BY <1>7, SMT
  <2> QED BY <1>5, <1>6, <2>1, <2>2
<1> QED BY <1>2, <1>4, <1>8, <1>9, <1>10, <1>11 DEF OnDay

(* The parts of a time of day. *)
OfDay(r, h, m, s) == h < 24 /\ m < 60 /\ s < 60 /\ (h * 3600 + m * 60) + s = r

(* Hours, minutes and seconds of a second of the day. *)
LEMMA TimeOfDay ==
  ASSUME NEW r \in Nat
  PROVE  r < 86400 => OfDay(r, r \div 3600, (r % 3600) \div 60, r % 60)
<1>1. r < 86400 => /\ r \div 3600 < 24 /\ (r % 3600) \div 60 < 60 /\ r % 60 < 60
                   /\ ((r \div 3600) * 3600 + ((r % 3600) \div 60) * 60) + (r % 60) = r
  BY SMT
<1> QED BY <1>1 DEF OfDay

Tms == [tm_sec : Nat, tm_min : Nat, tm_hour : Nat, tm_mday : Nat, tm_mon : 0..11, tm_year : Int]
Tells(tm, t) ==
  OnDay(t.days, tm.tm_year + 1900, tm.tm_mon, tm.tm_mday) /\ OfDay(t.rem, tm.tm_hour, tm.tm_min, tm.tm_sec)

(* They give that second of the same day back. *)
LEMMA SecondsOfDay ==
  ASSUME NEW r \in Nat, NEW h \in Nat, NEW m \in Nat, NEW s \in Nat
  PROVE  OfDay(r, h, m, s) /\ r < 86400 =>
           (h * 3600 + m * 60 + s) \div 86400 = 0 /\ (h * 3600 + m * 60 + s) % 86400 = r
<1>1. h * 3600 + m * 60 + s \in Nat
  OBVIOUS
<1>2. OfDay(r, h, m, s) => h * 3600 + m * 60 + s = r
  BY SMT DEF OfDay
<1>3. r < 86400 => r \div 86400 = 0 /\ r % 86400 = r
  BY SMT
<1> QED BY <1>2, <1>3

(* The days tm_to_utc counts before a day. *)
DaysCounted(y, mon, mday) ==
  LET tyears == y - 1970
      leap_this_year == (tyears + 2) % 4 = 0
  IN DaysBefore(IF leap_this_year THEN mon_days_leap ELSE mon_days, mon) + mday - 1 + tyears * 365
       + ((tyears + 2) \div 4 - (IF leap_this_year THEN 1 ELSE 0))

(* They are right in these years. *)
LEMMA DaysOfTm ==
  ASSUME NEW d \in Nat, NEW y \in Int, NEW mon \in 0..11, NEW mday \in Nat
  PROVE  OnDay(d, y, mon, mday) => DaysCounted(y, mon, mday) = d
<1> DEFINE tyears == y - 1970
           leap_this_year == (tyears + 2) % 4 = 0
           leaps == (tyears + 2) \div 4 - (IF leap_this_year THEN 1 ELSE 0)
           months == IF leap_this_year THEN mon_days_leap ELSE mon_days
<1>1. SUFFICES ASSUME OnDay(d, y, mon, mday)
               PROVE  DaysBefore(months, mon) + mday - 1 + tyears * 365 + leaps = d
  BY DEF DaysCounted
<1>2. y >= 1970 /\ y <= 2100 /\ (y = 2100 => mon <= 1)
      /\ YearStart(y) - YearStart(1970) + __mon_yday(__isleap(y), mon) + mday - 1 = d
  BY <1>1 DEF OnDay
<1>3. tyears * 365 + leaps = YearStart(y) - YearStart(1970)
      /\ DaysBefore(months, mon) = __mon_yday(__isleap(y), mon)
  BY <1>2, YearsOfTm
<1>4. tyears * 365 \in Int /\ leaps \in Int
  BY SMT
<1>5. __mon_yday(__isleap(y), mon) \in Nat
  BY MonthFacts
<1> HIDE DEF tyears, leap_this_year, leaps, months
<1>6. PICK x \in Int, z \in Int, u \in Nat : x = tyears * 365 /\ z = leaps /\ u = __mon_yday(__isleap(y), mon)
  BY <1>4, <1>5
<1>7. (x + z) + u + mday - 1 = d
  BY <1>2, <1>3, <1>6
<1>8. u + mday - 1 + x + z = d
  BY <1>7
<1> QED BY <1>3, <1>6, <1>8

(* tm_to_utc gives the time whose parts it is given. *)
LEMMA TmToUtc ==
  ASSUME NEW t \in Times, NEW tm \in Tms
  PROVE  Tells(tm, t) => tm_to_utc(tm) = t
<1>1. SUFFICES ASSUME Tells(tm, t) PROVE tm_to_utc(tm) = t
  OBVIOUS
<1>2. /\ tm.tm_year \in Int /\ tm.tm_mon \in 0..11 /\ tm.tm_mday \in Nat
      /\ tm.tm_hour \in Nat /\ tm.tm_min \in Nat /\ tm.tm_sec \in Nat
  BY DEF Tms
<1>3. PICK y \in Int, mon \in 0..11, mday \in Nat : y = tm.tm_year + 1900 /\ mon = tm.tm_mon /\ mday = tm.tm_mday
  BY <1>2
<1>4. PICK h \in Nat, m \in Nat, s \in Nat : h = tm.tm_hour /\ m = tm.tm_min /\ s = tm.tm_sec
  BY <1>2
<1>5. PICK r \in Nat, d \in Nat : r = t.rem /\ d = t.days /\ r < 86400 /\ t = [days |-> d, rem |-> r]
  BY DEF Times
<1>6. OnDay(d, y, mon, mday) /\ OfDay(r, h, m, s)
  BY <1>1, <1>3, <1>4, <1>5 DEF Tells
<1> DEFINE secs == h * 3600 + m * 60 + s
<1>7. secs \div 86400 = 0 /\ secs % 86400 = r
  <2>1. r < 86400
    BY <1>5
  <2> QED BY <1>6, <2>1, SecondsOfDay
<1>8. DaysCounted(y, mon, mday) = d
  BY <1>6, DaysOfTm
<1>9. tm_to_utc(tm) = [days |-> DaysCounted(y, mon, mday) + secs \div 86400, rem |-> secs % 86400]
  <2>1. tm.tm_year - 70 = y - 1970
    BY <1>2, <1>3
  <2> QED BY <1>3, <1>4, <2>1 DEF tm_to_utc, DaysCounted
<1> HIDE DEF secs
<1>10. d + 0 = d
  OBVIOUS
<1> QED BY <1>5, <1>7, <1>8, <1>9, <1>10

(* __offtime(t) has the fields of tm, which tells t. *)
Broken(t, tm) ==
  /\ Tells(tm, t)
  /\ LET o == __offtime(t)
     IN /\ o.tm_year = tm.tm_year /\ o.tm_mon = tm.tm_mon /\ o.tm_mday = tm.tm_mday
        /\ o.tm_hour = tm.tm_hour /\ o.tm_min = tm.tm_min /\ o.tm_sec = tm.tm_sec

(* What __offtime makes of a time within these years. *)
LEMMA TimeBroken ==
  ASSUME NEW t \in Times
  PROVE  \E tm \in Tms : Broken(t, tm)
<1>1. PICK y \in Nat, mon \in 0..11, mday \in Nat : OnDay(t.days, y, mon, mday) /\ Parts(t, y, mon, mday)
  BY WorkdayFound
<1>2. PICK r \in Nat : r = t.rem /\ r < 86400
  BY DEF Times
<1>3. OfDay(r, r \div 3600, (r % 3600) \div 60, r % 60)
  BY <1>2, TimeOfDay
<1>4. r \div 3600 \in Nat /\ (r % 3600) \div 60 \in Nat /\ r % 60 \in Nat
  BY SMT
<1>5. PICK h \in Nat, m \in Nat, s \in Nat : h = r \div 3600 /\ m = (r % 3600) \div 60 /\ s = r % 60
  BY <1>4
<1> DEFINE tm == [tm_sec |-> s, tm_min |-> m, tm_hour |-> h, tm_mday |-> mday, tm_mon |-> mon, tm_year |-> y - 1900]
<1>6. /\ tm \in Tms /\ tm.tm_year = y - 1900 /\ tm.tm_mon = mon /\ tm.tm_mday = mday
      /\ tm.tm_hour = h /\ tm.tm_min = m /\ tm.tm_sec = s
  BY DEF Tms
<1> HIDE DEF tm
<1>7. (y - 1900) + 1900 = y
  OBVIOUS
<1>8. Tells(tm, t)
  BY <1>1, <1>2, <1>3, <1>5, <1>6, <1>7 DEF Tells
<1>9. Broken(t, tm)
  BY <1>1, <1>2, <1>5, <1>6, <1>8 DEF Broken, Parts
<1> QED BY <1>6, <1>9

(* A number of three fields of two digits, the first of any length. *)
LEMMA ThreeFields ==
  ASSUME NEW a \in Nat, NEW b \in Nat, NEW c \in Nat
  PROVE  b < 100 /\ c < 100 =>
           LET x == a * 10000 + b * 100 + c
           IN /\ x \in Nat /\ x % 100 = c /\ (x \div 100) % 100 = b /\ x \div 10000 = a
              /\ (x % 10000) \div 100 = b
<1> QED BY SMT

(* What the texts and the numbers of a time need to know of its fields. *)
InBounds(tm) ==
  /\ tm.tm_year + 1900 \in 1970..2100 /\ tm.tm_mon + 1 \in 1..12 /\ tm.tm_mday \in 1..31
  /\ tm.tm_hour \in 0..23 /\ tm.tm_min \in 0..59 /\ tm.tm_sec \in 0..59

(* Its fields lie where their texts have two digits, and the year's four. *)
LEMMA BrokenBounds ==
  ASSUME NEW t, NEW tm \in Tms
  PROVE  Broken(t, tm) => InBounds(tm)
<1>1. SUFFICES ASSUME Broken(t, tm) PROVE InBounds(tm)
  OBVIOUS
<1>2. /\ tm.tm_year \in Int /\ tm.tm_mon \in 0..11 /\ tm.tm_mday \in Nat
      /\ tm.tm_hour \in Nat /\ tm.tm_min \in Nat /\ tm.tm_sec \in Nat
  BY DEF Tms
<1>3. PICK y \in Int, mon \in 0..11, mday \in Nat : y = tm.tm_year + 1900 /\ mon = tm.tm_mon /\ mday = tm.tm_mday
  BY <1>2
<1>4. PICK h \in Nat, m \in Nat, s \in Nat : h = tm.tm_hour /\ m = tm.tm_min /\ s = tm.tm_sec
  BY <1>2
<1>5. OnDay(t.days, y, mon, mday) /\ OfDay(t.rem, h, m, s)
  BY <1>1, <1>3, <1>4 DEF Broken, Tells
<1>6. y >= 1970 /\ y <= 2100 /\ mday >= 1 /\ mday <= 31
  BY <1>5 DEF OnDay
<1>7. h < 24 /\ m < 60 /\ s < 60
  BY <1>5 DEF OfDay
<1>8. y \in 1970..2100 /\ mon + 1 \in 1..12 /\ mday \in 1..31 /\ h \in 0..23 /\ m \in 0..59 /\ s \in 0..59
  BY <1>6, <1>7
<1> QED BY <1>3, <1>4, <1>8 DEF InBounds

(* The date of a time goes back to the time from 1981 on, and ends the     *)
(* program before.                                                         *)
DateGoesBack(t) ==
  LET d == utc_to_date(t)
  IN /\ date_to_utc(d.date, d.minuSec) = IF d.date < FirstDate THEN Aborts ELSE t
     /\ date_to_utc(d.date, 0) = IF d.date < FirstDate THEN Aborts ELSE [days |-> t.days, rem |-> 0]

(* From seconds to a date and a time of day, and back. *)
LEMMA DateAndBack ==
  ASSUME NEW t \in Times, NEW tm \in Tms
  PROVE  Broken(t, tm) =>
           /\ utc_to_date(t).date = (tm.tm_year + 1900) * 10000 + (tm.tm_mon + 1) * 100 + tm.tm_mday
           /\ utc_to_date(t).minuSec = tm.tm_hour * 10000 + tm.tm_min * 100 + tm.tm_sec
           /\ DateGoesBack(t)
<1>1. SUFFICES ASSUME Broken(t, tm)
               PROVE  /\ utc_to_date(t).date = (tm.tm_year + 1900) * 10000 + (tm.tm_mon + 1) * 100 + tm.tm_mday
                      /\ utc_to_date(t).minuSec = tm.tm_hour * 10000 + tm.tm_min * 100 + tm.tm_sec
                      /\ DateGoesBack(t)
  OBVIOUS
<1>2. utc_to_date(t) = [date |-> (tm.tm_year + 1900) * 10000 + (tm.tm_mon + 1) * 100 + tm.tm_mday,
                        minuSec |-> tm.tm_hour * 10000 + tm.tm_min * 100 + tm.tm_sec]
  BY <1>1 DEF utc_to_date, Broken
<1>3. InBounds(tm)
  BY <1>1, BrokenBounds
<1>4. /\ tm.tm_year + 1900 \in Nat /\ tm.tm_mon + 1 \in Nat /\ tm.tm_mday \in Nat
      /\ tm.tm_hour \in Nat /\ tm.tm_min \in Nat /\ tm.tm_sec \in Nat
  BY <1>3 DEF InBounds
<1>5. PICK y \in Nat, n \in Nat, mday \in Nat :
        y = tm.tm_year + 1900 /\ n = tm.tm_mon + 1 /\ mday = tm.tm_mday
  BY <1>4
<1>6. PICK h \in Nat, m \in Nat, s \in Nat : h = tm.tm_hour /\ m = tm.tm_min /\ s = tm.tm_sec
  BY <1>4
<1>7. y \in 1970..2100 /\ n \in 1..12 /\ mday \in 1..31 /\ h \in 0..23 /\ m \in 0..59 /\ s \in 0..59
  BY <1>3, <1>5, <1>6 DEF InBounds
<1>8. PICK date \in Nat, minuSec \in Nat : date = y * 10000 + n * 100 + mday /\ minuSec = h * 10000 + m * 100 + s
  OBVIOUS
<1>9. date % 100 = mday /\ (date \div 100) % 100 = n /\ date \div 10000 = y
  <2>1. n < 100 /\ mday < 100
    BY <1>7
  <2>2. date = y * 10000 + n * 100 + mday
    BY <1>8
  <2> QED BY <2>1, <2>2, ThreeFields
<1>10. minuSec % 100 = s /\ (minuSec \div 100) % 100 = m /\ minuSec \div 10000 = h
  <2>1. m < 100 /\ s < 100
    BY <1>7
  <2> QED BY <1>8, <2>1, ThreeFields
<1>11. ~(date < 0) /\ ~(minuSec < 0) /\ n - 1 = tm.tm_mon /\ y - 1900 = tm.tm_year
  BY <1>5 DEF Tms
<1>12. ~(y <= 1980) => date_to_utc(date, minuSec) = t
  <2> SUFFICES ASSUME ~(y <= 1980) PROVE date_to_utc(date, minuSec) = t
    OBVIOUS
  <2>1. date_to_utc(date, minuSec) = tm_to_utc([tm_sec |-> s, tm_min |-> m, tm_hour |-> h, tm_mday |-> mday,
                                                tm_mon |-> n - 1, tm_year |-> y - 1900])
    BY <1>9, <1>10, <1>11 DEF date_to_utc
  <2>2. tm = [tm_sec |-> s, tm_min |-> m, tm_hour |-> h, tm_mday |-> mday,
              tm_mon |-> n - 1, tm_year |-> y - 1900]
    <3>1. tm = [tm_sec |-> tm.tm_sec, tm_min |-> tm.tm_min, tm_hour |-> tm.tm_hour, tm_mday |-> tm.tm_mday,
                tm_mon |-> tm.tm_mon, tm_year |-> tm.tm_year]
      BY DEF Tms
    <3> QED BY <1>5, <1>6, <1>11, <3>1
  <2>3. Tells(tm, t)
    BY <1>1 DEF Broken
  <2> QED BY <2>1, <2>2, <2>3, TmToUtc
<1>13. ~(y <= 1980) => date_to_utc(date, 0) = [days |-> t.days, rem |-> 0]
  <2> SUFFICES ASSUME ~(y <= 1980) PROVE date_to_utc(date, 0) = [days |-> t.days, rem |-> 0]
    OBVIOUS
  <2>1. 0 % 100 = 0 /\ (0 \div 100) % 100 = 0 /\ 0 \div 10000 = 0 /\ ~(0 < 0)
    BY SMT
  <2> DEFINE u == [days |-> t.days, rem |-> 0]
             um == [tm_sec |-> 0, tm_min |-> 0, tm_hour |-> 0, tm_mday |-> mday,
                    tm_mon |-> n - 1, tm_year |-> y - 1900]
  <2>3. date_to_utc(date, 0) = tm_to_utc(um)
    BY <1>9, <1>11, <2>1 DEF date_to_utc
  <2>4. u \in Times /\ u.days = t.days /\ u.rem = 0
    BY DEF Times
  <2>5. /\ um \in Tms /\ um.tm_hour = 0 /\ um.tm_min = 0 /\ um.tm_sec = 0
        /\ um.tm_year = tm.tm_year /\ um.tm_mon = tm.tm_mon /\ um.tm_mday = tm.tm_mday
    <3>1. n - 1 \in 0..11 /\ y - 1900 \in Int /\ mday \in Nat /\ 0 \in Nat
      BY <1>7
    <3> QED BY <1>5, <1>11, <3>1 DEF Tms
  <2> HIDE DEF u, um
  <2>6. OfDay(0, 0, 0, 0)
    BY SMT DEF OfDay
  <2>7. Tells(um, u)
    BY <1>1, <2>4, <2>5, <2>6 DEF Tells, Broken
  <2>8. tm_to_utc(um) = u
    BY <2>4, <2>5, <2>7, TmToUtc
  <2> QED BY <2>3, <2>8 DEF u
<1>15. date < FirstDate <=> y <= 1980
  BY <1>7, <1>8, SMT DEF FirstDate
<1>16. y <= 1980 => date_to_utc(date, minuSec) = Aborts
  BY <1>9, <1>11 DEF date_to_utc
<1>17. y <= 1980 => date_to_utc(date, 0) = Aborts
  <2>1. ~(0 < 0)
    BY SMT
  <2> QED BY <1>9, <1>11, <2>1 DEF date_to_utc
<1>14. y * 10000 + n * 100 + mday = (tm.tm_year + 1900) * 10000 + (tm.tm_mon + 1) * 100 + tm.tm_mday
       /\ h * 10000 + m * 100 + s = tm.tm_hour * 10000 + tm.tm_min * 100 + tm.tm_sec
  BY <1>5, <1>6
<1>18. date_to_utc(date, minuSec) = IF date < FirstDate THEN Aborts ELSE t
  BY <1>12, <1>15, <1>16
<1>19. date_to_utc(date, 0) = IF date < FirstDate THEN Aborts ELSE [days |-> t.days, rem |-> 0]
  BY <1>13, <1>15, <1>17
<1>20. utc_to_date(t).date = date /\ utc_to_date(t).minuSec = minuSec
  BY <1>2, <1>8, <1>14
<1>21. DateGoesBack(t)
  BY <1>18, <1>19, <1>20, Zenon DEF DateGoesBack
<1> QED BY <1>2, <1>21

(* Two digits are written, and they stand for the number. *)
LEMMA TwoIs ==
  ASSUME NEW n \in Nat
  PROVE  n < 100 => Two(n) \in Seq(DigitChars) /\ Len(Two(n)) = 2 /\ Number(Two(n)) = n
<1>1. SUFFICES ASSUME n < 100 PROVE Two(n) \in Seq(DigitChars) /\ Len(Two(n)) = 2 /\ Number(Two(n)) = n
  OBVIOUS
<1>2. TenTo(2) = 100 /\ TenTo(9) = 1000000000
  BY PowersOfTen, SMT
<1>3. n < TenTo(9) /\ n < TenTo(2) /\ 2 \in 1..9
  BY <1>1, <1>2
<1> QED BY <1>3, PaddedIs, NumberPadded DEF Two

LEMMA YearTextIs ==
  ASSUME NEW n \in Nat
  PROVE  n >= 1000 /\ n < 10000 =>
           Padded(n, 1) \in Seq(DigitChars) /\ Len(Padded(n, 1)) = 4 /\ Number(Padded(n, 1)) = n
<1>1. SUFFICES ASSUME n >= 1000, n < 10000
               PROVE  Padded(n, 1) \in Seq(DigitChars) /\ Len(Padded(n, 1)) = 4 /\ Number(Padded(n, 1)) = n
  OBVIOUS
<1>2. TenTo(1) = 10 /\ TenTo(2) = 100 /\ TenTo(3) = 1000 /\ TenTo(4) = 10000 /\ TenTo(9) = 1000000000
  BY PowersOfTen, SMT
<1>3. n < TenTo(9) /\ n < TenTo(4) /\ ~(n < TenTo(1)) /\ ~(n < TenTo(2)) /\ ~(n < TenTo(3))
  BY <1>1, <1>2
<1>4. DigitCount(n) \in 1..9 /\ n < TenTo(DigitCount(n)) /\ DigitCount(n) <= 4
  BY <1>3, DigitCountIs
<1>5. DigitCount(n) = 4
  <2>1. DigitCount(n) \in {1, 2, 3, 4}
    BY <1>4
  <2> QED BY <1>3, <1>4, <2>1
<1>6. Max({1, DigitCount(n)}) = 4
  BY <1>5, MaxOf
<1>7. Len(Padded(n, 1)) = 4
  BY <1>6 DEF Padded
<1> QED BY <1>3, <1>7, PaddedIs, NumberPadded

LEMMA SeparatorsAreNoDigits == ~IsDigit("_") /\ ~IsDigit(":")
<1> QED BY DEF IsDigit, Digits

(* Three texts of digits with the same separator between them. *)
ThreeTexts(A, B, C, c) == A \o <<c>> \o B \o <<c>> \o C

(* Three texts of digits with separators between them are read as their    *)
(* numbers.                                                                *)
LEMMA ThreeTextsAre ==
  ASSUME NEW A \in Seq(DigitChars), NEW B \in Seq(DigitChars), NEW C \in Seq(DigitChars), NEW c
  PROVE  /\ ThreeTexts(A, B, C, c) \in Seq(DigitChars \cup {c})
         /\ Len(ThreeTexts(A, B, C, c)) = Len(A) + Len(B) + Len(C) + 2
         /\ Len(A) > 0 /\ Len(B) > 0 /\ Len(C) > 0 /\ ~IsDigit(c) =>
              NumbersIn(ThreeTexts(A, B, C, c)) = <<Number(A), Number(B), Number(C)>>
<1> DEFINE T == DigitChars \cup {c}
<1>1. A \in Seq(T) /\ B \in Seq(T) /\ C \in Seq(T)
  OBVIOUS
<1>2. PICK U \in Seq(T) : U = <<c>> /\ Len(U) = 1
  <2>1. <<c>> \in Seq(T) /\ Len(<<c>>) = 1
    OBVIOUS
  <2> HIDE DEF T
  <2> QED BY <2>1
<1> HIDE DEF T
<1>3. A \o U \o B \o U \o C \in Seq(T) /\ Len(A \o U \o B \o U \o C) = Len(A) + Len(B) + Len(C) + 2
  <2>1. A \o U \o B \o U \o C \in Seq(T) /\ ThreeStand(A \o U \o B \o U \o C, A, B, C, U)
    BY <1>1, <1>2, PartsStand, Zenon
  <2> QED BY <2>1 DEF ThreeStand
<1>4. Len(A) > 0 /\ Len(B) > 0 /\ Len(C) > 0 /\ ~IsDigit(c) =>
        NumbersIn(A \o <<c>> \o B \o <<c>> \o C) = <<Number(A), Number(B), Number(C)>>
  BY ThreeRead
<1> QED BY <1>2, <1>3, <1>4 DEF ThreeTexts, T

ClockFits(h, m, s, c) == h < 100 /\ m < 100 /\ s < 100 /\ ~IsDigit(c)
ClockReads(h, m, s, c) ==
  /\ NumbersIn(ThreeTexts(Two(h), Two(m), Two(s), c)) = <<h, m, s>>
  /\ ThreeTexts(Two(h), Two(m), Two(s), c) \in Seq(DigitChars \cup {c})
  /\ Len(ThreeTexts(Two(h), Two(m), Two(s), c)) = 8
(* A time of day is read from its text as it was written. *)
LEMMA ClockText ==
  ASSUME NEW h \in Nat, NEW m \in Nat, NEW s \in Nat, NEW c
  PROVE  ClockFits(h, m, s, c) => ClockReads(h, m, s, c)
<1>1. SUFFICES ASSUME h < 100, m < 100, s < 100, ~IsDigit(c)
               PROVE  /\ NumbersIn(ThreeTexts(Two(h), Two(m), Two(s), c)) = <<h, m, s>>
                      /\ ThreeTexts(Two(h), Two(m), Two(s), c) \in Seq(DigitChars \cup {c})
                      /\ Len(ThreeTexts(Two(h), Two(m), Two(s), c)) = 8
  BY DEF ClockFits, ClockReads
<1>2. Two(h) \in Seq(DigitChars) /\ Len(Two(h)) = 2 /\ Number(Two(h)) = h
  BY <1>1, TwoIs
<1>3. Two(m) \in Seq(DigitChars) /\ Len(Two(m)) = 2 /\ Number(Two(m)) = m
  BY <1>1, TwoIs
<1>4. Two(s) \in Seq(DigitChars) /\ Len(Two(s)) = 2 /\ Number(Two(s)) = s
  BY <1>1, TwoIs
<1>5. PICK A \in Seq(DigitChars), B \in Seq(DigitChars), C \in Seq(DigitChars) :
        A = Two(h) /\ B = Two(m) /\ C = Two(s)
  BY <1>2, <1>3, <1>4
<1>6. Len(A) = 2 /\ Len(B) = 2 /\ Len(C) = 2 /\ Number(A) = h /\ Number(B) = m /\ Number(C) = s
  BY <1>2, <1>3, <1>4, <1>5
<1>7. /\ ThreeTexts(A, B, C, c) \in Seq(DigitChars \cup {c})
      /\ Len(ThreeTexts(A, B, C, c)) = Len(A) + Len(B) + Len(C) + 2
      /\ Len(A) > 0 /\ Len(B) > 0 /\ Len(C) > 0 /\ ~IsDigit(c) =>
           NumbersIn(ThreeTexts(A, B, C, c)) = <<Number(A), Number(B), Number(C)>>
  BY ThreeTextsAre, Zenon
<1>8. Len(ThreeTexts(A, B, C, c)) = 8 /\ NumbersIn(ThreeTexts(A, B, C, c)) = <<Number(A), Number(B), Number(C)>>
  BY <1>1, <1>6, <1>7
<1> QED BY <1>5, <1>6, <1>7, <1>8

DayFits(y, n, d, c) == y >= 1000 /\ y < 10000 /\ n < 100 /\ d < 100 /\ ~IsDigit(c)
DayReads(y, n, d, c) ==
  /\ NumbersIn(ThreeTexts(Padded(y, 1), Two(n), Two(d), c)) = <<y, n, d>>
  /\ ThreeTexts(Padded(y, 1), Two(n), Two(d), c) \in Seq(DigitChars \cup {c})
  /\ Len(ThreeTexts(Padded(y, 1), Two(n), Two(d), c)) = 10
(* A date is read from its text as it was written. *)
LEMMA DayText ==
  ASSUME NEW y \in Nat, NEW n \in Nat, NEW d \in Nat, NEW c
  PROVE  DayFits(y, n, d, c) => DayReads(y, n, d, c)
<1>1. SUFFICES ASSUME y >= 1000, y < 10000, n < 100, d < 100, ~IsDigit(c)
               PROVE  /\ NumbersIn(ThreeTexts(Padded(y, 1), Two(n), Two(d), c)) = <<y, n, d>>
                      /\ ThreeTexts(Padded(y, 1), Two(n), Two(d), c) \in Seq(DigitChars \cup {c})
                      /\ Len(ThreeTexts(Padded(y, 1), Two(n), Two(d), c)) = 10
  BY DEF DayFits, DayReads
<1>2. Padded(y, 1) \in Seq(DigitChars) /\ Len(Padded(y, 1)) = 4 /\ Number(Padded(y, 1)) = y
  BY <1>1, YearTextIs
<1>3. Two(n) \in Seq(DigitChars) /\ Len(Two(n)) = 2 /\ Number(Two(n)) = n
  BY <1>1, TwoIs
<1>4. Two(d) \in Seq(DigitChars) /\ Len(Two(d)) = 2 /\ Number(Two(d)) = d
  BY <1>1, TwoIs
<1>5. PICK A \in Seq(DigitChars), B \in Seq(DigitChars), C \in Seq(DigitChars) :
        A = Padded(y, 1) /\ B = Two(n) /\ C = Two(d)
  BY <1>2, <1>3, <1>4
<1>6. Len(A) = 4 /\ Len(B) = 2 /\ Len(C) = 2 /\ Number(A) = y /\ Number(B) = n /\ Number(C) = d
  BY <1>2, <1>3, <1>4, <1>5
<1>7. /\ ThreeTexts(A, B, C, c) \in Seq(DigitChars \cup {c})
      /\ Len(ThreeTexts(A, B, C, c)) = Len(A) + Len(B) + Len(C) + 2
      /\ Len(A) > 0 /\ Len(B) > 0 /\ Len(C) > 0 /\ ~IsDigit(c) =>
           NumbersIn(ThreeTexts(A, B, C, c)) = <<Number(A), Number(B), Number(C)>>
  BY ThreeTextsAre, Zenon
<1>8. Len(ThreeTexts(A, B, C, c)) = 10 /\ NumbersIn(ThreeTexts(A, B, C, c)) = <<Number(A), Number(B), Number(C)>>
  BY <1>1, <1>6, <1>7
<1> QED BY <1>5, <1>6, <1>7, <1>8

(* Substr takes a date and a time out of the text they stand in. *)
LEMMA DateAndTime ==
  ASSUME NEW S, NEW D \in Seq(S), NEW T \in Seq(S), NEW c \in S
  PROVE  Len(D) = 10 /\ Len(T) = 8 =>
           /\ SubSeq(D \o <<c>> \o <<c>> \o T, 1, 10) = D
           /\ SubSeq(D \o <<c>> \o <<c>> \o T, 13, 20) = T
<1>1. SUFFICES ASSUME Len(D) = 10, Len(T) = 8
               PROVE  /\ SubSeq(D \o <<c>> \o <<c>> \o T, 1, 10) = D
                      /\ SubSeq(D \o <<c>> \o <<c>> \o T, 13, 20) = T
  OBVIOUS
<1>2. PICK U \in Seq(S) : U = <<c>> /\ Len(U) = 1
  <2>1. <<c>> \in Seq(S) /\ Len(<<c>>) = 1
    OBVIOUS
  <2> QED BY <2>1
<1>3. PICK V \in Seq(S) : V = Beside(D, U) /\ Len(V) = 11 /\ \A i \in 1..10 : V[i] = D[i]
  <2>1. Beside(D, U) \in Seq(S) /\ AreBeside(D, U, Beside(D, U))
    BY JoinedTexts
  <2> QED BY <1>1, <1>2, <2>1 DEF AreBeside
<1>4. PICK W \in Seq(S) : W = Beside(V, U) /\ Len(W) = 12 /\ \A i \in 1..10 : W[i] = D[i]
  <2>1. Beside(V, U) \in Seq(S) /\ AreBeside(V, U, Beside(V, U))
    BY JoinedTexts
  <2>2. Len(Beside(V, U)) = 12
    <3>1. Len(U) = 1 /\ Len(V) = 11
      BY <1>2, <1>3
    <3>2. Len(Beside(V, U)) = Len(V) + Len(U)
      BY <2>1 DEF AreBeside
    <3> QED BY <3>1, <3>2
  <2>3. \A i \in 1..10 : Beside(V, U)[i] = D[i]
    <3> TAKE i \in 1..10
    <3>1. i \in 1..Len(V) /\ V[i] = D[i]
      BY <1>3, SMTT(30)
    <3> QED BY <2>1, <3>1 DEF AreBeside
  <2> QED BY <2>1, <2>2, <2>3
<1>5. PICK text \in Seq(S) : /\ text = Beside(W, T) /\ Len(text) = 20
                             /\ (\A i \in 1..10 : text[i] = D[i]) /\ (\A i \in 1..8 : text[12 + i] = T[i])
  <2>1. Beside(W, T) \in Seq(S) /\ AreBeside(W, T, Beside(W, T))
    BY JoinedTexts
  <2>2. Len(Beside(W, T)) = 20
    BY <1>1, <1>4, <2>1 DEF AreBeside
  <2>3. \A i \in 1..10 : Beside(W, T)[i] = D[i]
    <3> TAKE i \in 1..10
    <3>1. i \in 1..Len(W) /\ W[i] = D[i]
      <4>1. Len(W) = 12 /\ \A k \in 1..10 : W[k] = D[k]
        BY <1>4
      <4>2. i \in 1..12
        OBVIOUS
      <4> QED BY <4>1, <4>2
    <3> QED BY <2>1, <3>1 DEF AreBeside
  <2>4. \A i \in 1..8 : Beside(W, T)[12 + i] = T[i]
    <3> TAKE i \in 1..8
    <3>1. i \in 1..Len(T) /\ Len(W) + i = 12 + i
      BY <1>1, <1>4
    <3>2. Beside(W, T)[Len(W) + i] = T[i]
      BY <2>1, <3>1 DEF AreBeside
    <3> QED BY <3>1, <3>2
  <2> QED BY <2>1, <2>2, <2>3, <2>4
<1>6. \A i \in 1..20 : text[i] \in S
  <2> TAKE i \in 1..20
  <2>1. i \in 1..Len(text)
    BY <1>5
  <2> QED BY <2>1
<1>7. SubSeq(text, 1, 10) = D
  <2>1. /\ SubSeq(text, 1, 10) \in Seq(S) /\ Len(SubSeq(text, 1, 10)) = 10
        /\ \A i \in 1..10 : SubSeq(text, 1, 10)[i] = text[1 + i - 1]
    BY <1>6, SubSeqProperties
  <2>2. \A i \in 1..10 : SubSeq(text, 1, 10)[i] = D[i]
    <3> TAKE i \in 1..10
    <3>1. 1 + i - 1 = i
      OBVIOUS
    <3> QED BY <1>5, <2>1, <3>1, ZenonT(40)
  <2> QED BY <1>1, <2>1, <2>2, SeqEqual, SMTT(30)
<1>8. SubSeq(text, 13, 20) = T
  <2>1. /\ SubSeq(text, 13, 20) \in Seq(S) /\ Len(SubSeq(text, 13, 20)) = 8
        /\ \A i \in 1..8 : SubSeq(text, 13, 20)[i] = text[13 + i - 1]
    BY <1>6, SubSeqProperties
  <2>2. \A i \in 1..8 : SubSeq(text, 13, 20)[i] = T[i]
    <3> TAKE i \in 1..8
    <3>1. 13 + i - 1 = 12 + i
      OBVIOUS
    <3> QED BY <1>5, <2>1, <3>1, ZenonT(40)
  <2> QED BY <1>1, <2>1, <2>2, SeqEqual, SMTT(30)
<1> QED BY <1>2, <1>3, <1>4, <1>5, <1>7, <1>8 DEF Beside

LEMMA TheSeparators == Underscore = <<"_">> /\ Colon = <<":">>
<1> QED BY Zenon DEF Underscore, Colon

(* A date is read back from its text. *)
(* The texts date_to_str and utc_to_str put together. *)
DayTextOf(a, b, c, U) == Padded(a, 1) \o U \o Two(b) \o U \o Two(c)
TimeTextOf(a, b, c, U, T) == Padded(a, 1) \o U \o Two(b) \o U \o Two(c) \o U \o U \o T
ClockTextOf(a, b, c, U) == Two(a) \o U \o Two(b) \o U \o Two(c)

LEMMA TextsPutTogether ==
  ASSUME NEW a, NEW b, NEW c, NEW x
  PROVE  /\ DayTextOf(a, b, c, <<x>>) = ThreeTexts(Padded(a, 1), Two(b), Two(c), x)
         /\ ClockTextOf(a, b, c, <<x>>) = ThreeTexts(Two(a), Two(b), Two(c), x)
<1> QED BY Zenon DEF DayTextOf, ClockTextOf, ThreeTexts

(* str_to_date gives the date back that date_to_str wrote. *)
LEMMA DateTextRead ==
  ASSUME NEW t \in Times, NEW tm \in Tms
  PROVE  Broken(t, tm) => str_to_date(date_to_str(utc_to_date(t).date)) = utc_to_date(t).date
<1>1. SUFFICES ASSUME Broken(t, tm) PROVE str_to_date(date_to_str(utc_to_date(t).date)) = utc_to_date(t).date
  OBVIOUS
<1>2. InBounds(tm)
  BY <1>1, BrokenBounds
<1>3. PICK y \in Nat, n \in Nat, mday \in Nat :
        y = tm.tm_year + 1900 /\ n = tm.tm_mon + 1 /\ mday = tm.tm_mday
  <2>1. tm.tm_year + 1900 \in Nat /\ tm.tm_mon + 1 \in Nat /\ tm.tm_mday \in Nat
    BY <1>2 DEF InBounds
  <2> QED BY <2>1
<1>4. y >= 1000 /\ y < 10000 /\ n < 100 /\ mday < 100
  BY <1>2, <1>3 DEF InBounds
<1>5. PICK date \in Nat : date = y * 10000 + n * 100 + mday
  OBVIOUS
<1>6. utc_to_date(t).date = date
  BY <1>1, <1>3, <1>5, DateAndBack
<1>7. date % 100 = mday /\ (date % 10000) \div 100 = n /\ date \div 10000 = y
  BY <1>4, <1>5, ThreeFields
<1>8. PICK c : c = "_" /\ Underscore = <<c>> /\ ~IsDigit(c)
  BY SeparatorsAreNoDigits, TheSeparators, Zenon
<1>9. date_to_str(date) = ThreeTexts(Padded(y, 1), Two(n), Two(mday), c)
  <2>1. Underscore = <<c>>
    BY <1>8, Zenon
  <2>2. date_to_str(date) = DayTextOf(date \div 10000, (date % 10000) \div 100, date % 100, Underscore)
    BY DEF date_to_str, DayTextOf
  <2>3. date_to_str(date) = DayTextOf(y, n, mday, <<c>>)
    BY <1>7, <2>1, <2>2
  <2> QED BY <2>3, TextsPutTogether, ZenonT(40)
<1>10. NumbersIn(date_to_str(date)) = <<y, n, mday>>
  <2>1. ~IsDigit(c)
    BY <1>8, Zenon
  <2>2. DayFits(y, n, mday, c)
    BY <1>4, <2>1 DEF DayFits
  <2>3. DayReads(y, n, mday, c)
    BY <2>2, DayText, Zenon
  <2> QED BY <1>9, <2>3 DEF DayReads
<1>11. str_to_date(date_to_str(date)) = y * 10000 + n * 100 + mday
  BY <1>10 DEF str_to_date, str_to_minuSec
<1> QED BY <1>5, <1>6, <1>11

(* A time of day is read back from its text. *)
LEMMA ClockTextRead ==
  ASSUME NEW t \in Times, NEW tm \in Tms
  PROVE  Broken(t, tm) => str_to_minuSec(utc_to_strMinu(t)) = utc_to_date(t).minuSec
<1>1. SUFFICES ASSUME Broken(t, tm) PROVE str_to_minuSec(utc_to_strMinu(t)) = utc_to_date(t).minuSec
  OBVIOUS
<1>2. InBounds(tm)
  BY <1>1, BrokenBounds
<1>3. PICK h \in Nat, m \in Nat, s \in Nat : h = tm.tm_hour /\ m = tm.tm_min /\ s = tm.tm_sec
  <2>1. tm.tm_hour \in Nat /\ tm.tm_min \in Nat /\ tm.tm_sec \in Nat
    BY <1>2 DEF InBounds
  <2> QED BY <2>1
<1>4. h < 100 /\ m < 100 /\ s < 100
  BY <1>2, <1>3 DEF InBounds
<1>5. PICK c : c = ":" /\ Colon = <<c>> /\ ~IsDigit(c)
  BY SeparatorsAreNoDigits, TheSeparators, Zenon
<1>6. utc_to_strMinu(t) = ThreeTexts(Two(h), Two(m), Two(s), c)
  <2>1. __offtime(t).tm_hour = h /\ __offtime(t).tm_min = m /\ __offtime(t).tm_sec = s
    BY <1>1, <1>3 DEF Broken
  <2>2. Colon = <<c>>
    BY <1>5, Zenon
  <2>3. utc_to_strMinu(t) = ClockTextOf(h, m, s, <<c>>)
    BY <2>1, <2>2 DEF utc_to_strMinu, TimeText, ClockTextOf
  <2> QED BY <2>3, TextsPutTogether, Zenon
<1>7. NumbersIn(utc_to_strMinu(t)) = <<h, m, s>>
  <2>1. ~IsDigit(c)
    BY <1>5, Zenon
  <2>2. ClockFits(h, m, s, c)
    BY <1>4, <2>1 DEF ClockFits
  <2>3. ClockReads(h, m, s, c)
    BY <2>2, ClockText, Zenon
  <2> QED BY <1>6, <2>3 DEF ClockReads
<1>8. str_to_minuSec(utc_to_strMinu(t)) = h * 10000 + m * 100 + s
  BY <1>7 DEF str_to_minuSec
<1>9. utc_to_date(t).minuSec = h * 10000 + m * 100 + s
  BY <1>1, <1>3, DateAndBack
<1> QED BY <1>8, <1>9

(* A time is read back from the text of its date and its time of day. *)
LEMMA TimeTextRead ==
  ASSUME NEW t \in Times, NEW tm \in Tms
  PROVE  Broken(t, tm) =>
           tm_to_utc(str_to_tm(SubSeq(utc_to_str(t), 1, 10), SubSeq(utc_to_str(t), 13, 20))) = t
<1>1. SUFFICES ASSUME Broken(t, tm)
               PROVE  tm_to_utc(str_to_tm(SubSeq(utc_to_str(t), 1, 10), SubSeq(utc_to_str(t), 13, 20))) = t
  OBVIOUS
<1>2. InBounds(tm)
  BY <1>1, BrokenBounds
<1>3. PICK y \in Nat, n \in Nat, mday \in Nat :
        y = tm.tm_year + 1900 /\ n = tm.tm_mon + 1 /\ mday = tm.tm_mday
  <2>1. tm.tm_year + 1900 \in Nat /\ tm.tm_mon + 1 \in Nat /\ tm.tm_mday \in Nat
    BY <1>2 DEF InBounds
  <2> QED BY <2>1
<1>4. y >= 1000 /\ y < 10000 /\ n < 100 /\ mday < 100
  BY <1>2, <1>3 DEF InBounds
<1>5. PICK h \in Nat, m \in Nat, s \in Nat : h = tm.tm_hour /\ m = tm.tm_min /\ s = tm.tm_sec
  <2>1. tm.tm_hour \in Nat /\ tm.tm_min \in Nat /\ tm.tm_sec \in Nat
    BY <1>2 DEF InBounds
  <2> QED BY <2>1
<1>6. h < 100 /\ m < 100 /\ s < 100
  BY <1>2, <1>5 DEF InBounds
<1>7. PICK c : c = "_" /\ Underscore = <<c>> /\ ~IsDigit(c)
  BY SeparatorsAreNoDigits, TheSeparators, Zenon
<1>8. Underscore = <<c>> /\ ~IsDigit(c)
  BY <1>7, Zenon
<1>9. PICK D \in Seq(DigitChars \cup {c}) :
        D = ThreeTexts(Padded(y, 1), Two(n), Two(mday), c) /\ Len(D) = 10 /\ NumbersIn(D) = <<y, n, mday>>
  <2>1. /\ NumbersIn(ThreeTexts(Padded(y, 1), Two(n), Two(mday), c)) = <<y, n, mday>>
        /\ ThreeTexts(Padded(y, 1), Two(n), Two(mday), c) \in Seq(DigitChars \cup {c})
        /\ Len(ThreeTexts(Padded(y, 1), Two(n), Two(mday), c)) = 10
    <3>1. DayFits(y, n, mday, c)
      BY <1>4, <1>8 DEF DayFits
    <3>2. DayReads(y, n, mday, c)
      BY <3>1, DayText, Zenon
    <3> QED BY <3>2 DEF DayReads
  <2> QED BY <2>1, Zenon
<1>10. PICK T \in Seq(DigitChars \cup {c}) :
         T = ThreeTexts(Two(h), Two(m), Two(s), c) /\ Len(T) = 8 /\ NumbersIn(T) = <<h, m, s>>
  <2>1. /\ NumbersIn(ThreeTexts(Two(h), Two(m), Two(s), c)) = <<h, m, s>>
        /\ ThreeTexts(Two(h), Two(m), Two(s), c) \in Seq(DigitChars \cup {c})
        /\ Len(ThreeTexts(Two(h), Two(m), Two(s), c)) = 8
    <3>1. ClockFits(h, m, s, c)
      BY <1>6, <1>8 DEF ClockFits
    <3>2. ClockReads(h, m, s, c)
      BY <3>1, ClockText, Zenon
    <3> QED BY <3>2 DEF ClockReads
  <2> QED BY <2>1, Zenon
<1>11. utc_to_str(t) = D \o <<c>> \o <<c>> \o T
  <2>1. /\ __offtime(t).tm_year + 1900 = y /\ __offtime(t).tm_mon + 1 = n /\ __offtime(t).tm_mday = mday
        /\ __offtime(t).tm_hour = h /\ __offtime(t).tm_min = m /\ __offtime(t).tm_sec = s
    BY <1>1, <1>3, <1>5 DEF Broken
  <2> DEFINE o == __offtime(t)
  <2>2. utc_to_str(t) = TimeTextOf(o.tm_year + 1900, o.tm_mon + 1, o.tm_mday, Underscore,
                                   ClockTextOf(o.tm_hour, o.tm_min, o.tm_sec, Underscore))
    BY DEF utc_to_str, TimeText, TimeTextOf, ClockTextOf
  <2> HIDE DEF o
  <2>3. utc_to_str(t) = TimeTextOf(y, n, mday, <<c>>, ClockTextOf(h, m, s, <<c>>))
    BY <1>8, <2>1, <2>2 DEF o
  <2>4. ClockTextOf(h, m, s, <<c>>) = T
    BY <1>10, TextsPutTogether, Zenon
  <2>5. utc_to_str(t) = TimeTextOf(y, n, mday, <<c>>, T)
    BY <2>3, <2>4, Zenon
  <2>6. TimeTextOf(y, n, mday, <<c>>, T) = ThreeTexts(Padded(y, 1), Two(n), Two(mday), c) \o <<c>> \o <<c>> \o T
    BY Zenon DEF TimeTextOf, ThreeTexts
  <2>7. D = ThreeTexts(Padded(y, 1), Two(n), Two(mday), c)
    BY <1>9, Zenon
  <2> QED BY <2>5, <2>6, <2>7, Zenon
<1>12. SubSeq(utc_to_str(t), 1, 10) = D /\ SubSeq(utc_to_str(t), 13, 20) = T
  <2>1. c \in DigitChars \cup {c}
    OBVIOUS
  <2>2. Len(D) = 10 /\ Len(T) = 8 =>
          /\ SubSeq(D \o <<c>> \o <<c>> \o T, 1, 10) = D
          /\ SubSeq(D \o <<c>> \o <<c>> \o T, 13, 20) = T
    BY <2>1, DateAndTime, ZenonT(40)
  <2>3. Len(D) = 10 /\ Len(T) = 8
    BY <1>9, <1>10, Zenon
  <2> QED BY <1>11, <2>2, <2>3, Zenon
<1>13. str_to_tm(D, T) = tm
  <2>1. NumbersIn(D) = <<y, n, mday>> /\ NumbersIn(T) = <<h, m, s>>
    BY <1>9, <1>10, Zenon
  <2>2. str_to_tm(D, T) = [tm_year |-> y - 1900, tm_mon |-> n - 1, tm_mday |-> mday,
                           tm_hour |-> h, tm_min |-> m, tm_sec |-> s]
    BY <2>1 DEF str_to_tm
  <2>3. tm = [tm_year |-> tm.tm_year, tm_mon |-> tm.tm_mon, tm_mday |-> tm.tm_mday,
              tm_hour |-> tm.tm_hour, tm_min |-> tm.tm_min, tm_sec |-> tm.tm_sec]
    BY DEF Tms
  <2>4. y - 1900 = tm.tm_year /\ n - 1 = tm.tm_mon
    <3>1. tm.tm_year \in Int /\ tm.tm_mon \in Int
      BY SMTT(30) DEF Tms
    <3> QED BY <1>3, <3>1, SMTT(30)
  <2> QED BY <1>3, <1>5, <2>2, <2>3, <2>4
<1>14. Tells(tm, t)
  BY <1>1 DEF Broken
<1> QED BY <1>12, <1>13, <1>14, TmToUtc

(* Two texts and then one more, joined in either order. *)
LEMMA ConcatIsAssociative ==
  ASSUME NEW S, NEW x \in Seq(S), NEW y \in Seq(S), NEW z \in Seq(S)
  PROVE  x \o y \o z = x \o (y \o z)
<1> QED BY ConcatAssociative

(* The milliseconds behind a time of day: .0 for 0. *)
LEMMA ZeroPadded == Padded(0, 1) = <<"0">>
<1>1. TenTo(9) = 1000000000 /\ TenTo(1) = 10 /\ TenTo(0) = 1
  BY PowersOfTen
<1>2. 0 \in Nat /\ 1 \in 1..9 /\ 0 < TenTo(9) /\ 0 < TenTo(1)
  BY <1>1
<1>3. Padded(0, 1) \in Seq(DigitChars) /\ Len(Padded(0, 1)) = 1
      /\ \A i \in 1..Len(Padded(0, 1)) : Padded(0, 1)[i] = DigitOf(0, Len(Padded(0, 1)) - i)
  BY <1>2, PaddedIs
<1>4. Padded(0, 1)[1] = DigitOf(0, 0)
  BY <1>3
<1>5. DigitOf(0, 0) = "0"
  BY <1>1 DEF DigitOf, Digits
<1>6. PICK P \in Seq(DigitChars) : P = Padded(0, 1) /\ Len(P) = 1 /\ P[1] = "0"
  BY <1>3, <1>4, <1>5
<1>7. P = <<P[1]>>
  BY <1>6
<1> QED BY <1>6, <1>7

LEMMA TwoCharacters ==
  ASSUME NEW p, NEW q, NEW S, NEW x \in Seq(S), p \in S, q \in S
  PROVE  x \o <<p>> \o <<q>> = x \o <<p, q>>
<1>1. <<p>> \in Seq(S) /\ <<q>> \in Seq(S)
  OBVIOUS
<1>2. x \o <<p>> \o <<q>> = x \o (<<p>> \o <<q>>)
  BY <1>1, ConcatIsAssociative
<1>3. <<p>> \o <<q>> = <<p, q>>
  <2>1. PICK P \in Seq(S), Q \in Seq(S) : P = <<p>> /\ Q = <<q>> /\ Len(P) = 1 /\ Len(Q) = 1 /\ P[1] = p /\ Q[1] = q
    BY <1>1
  <2>2. P \o Q \in Seq(S) /\ Len(P \o Q) = 2
        /\ \A i \in 1..2 : (P \o Q)[i] = IF i <= 1 THEN P[i] ELSE Q[i - 1]
    BY <2>1, ConcatProperties
  <2>3. (P \o Q)[1] = p /\ (P \o Q)[2] = q
    BY <2>1, <2>2
  <2>4. PICK R \in Seq(S) : R = <<p, q>> /\ Len(R) = 2 /\ R[1] = p /\ R[2] = q
    <3>1. <<p, q>> \in Seq(S)
      OBVIOUS
    <3> QED BY <3>1
  <2>5. \A i \in 1..2 : (P \o Q)[i] = R[i]
    <3>1. \A i \in 1..2 : i = 1 \/ i = 2
      OBVIOUS
    <3> QED BY <2>3, <2>4, <3>1
  <2>6. P \o Q = R
    BY <2>2, <2>4, <2>5, SeqEqual
  <2> QED BY <2>1, <2>4, <2>6
<1> QED BY <1>2, <1>3

(* Eight hours later it is still a time of some day. *)
LEMMA ShanghaiTime ==
  ASSUME NEW t \in Times
  PROVE  InShanghai(t).rem \in Nat /\ InShanghai(t).rem < 86400
<1>1. PICK r \in Nat, d \in Nat : r = t.rem /\ d = t.days /\ r < 86400 /\ t = [days |-> d, rem |-> r]
  BY DEF Times
<1>2. CASE r + 28800 < 86400
  <2>1. InShanghai(t).rem = r + 28800
    BY <1>1, <1>2 DEF InShanghai
  <2> QED BY <1>2, <2>1
<1>3. CASE ~(r + 28800 < 86400)
  <2>1. InShanghai(t).rem = r + 28800 - 86400
    BY <1>1, <1>3 DEF InShanghai
  <2>2. r + 28800 - 86400 \in Nat /\ r + 28800 - 86400 < 86400
    BY <1>1, <1>3, SMT
  <2> QED BY <2>1, <2>2
<1> QED BY <1>2, <1>3

(* ms_to_str_r writes the time of Shanghai. *)
LEMMA MillisecondsText ==
  ASSUME NEW t \in Times
  PROVE  ms_to_str_r(t, 0) = utc_to_strMinu(InShanghai(t)) \o <<".", "0">>
<1>1. PICK r \in Nat : r = InShanghai(t).rem /\ r < 86400
  BY ShanghaiTime
<1>2. r \div 3600 \in Nat /\ (r % 3600) \div 60 \in Nat /\ r % 60 \in Nat
  BY SMT
<1>3. PICK h \in Nat, m \in Nat, s \in Nat : h = r \div 3600 /\ m = (r % 3600) \div 60 /\ s = r % 60
  BY <1>2
<1>4. h < 100 /\ m < 100 /\ s < 100
  <2>1. OfDay(r, h, m, s)
    BY <1>1, <1>3, TimeOfDay
  <2> QED BY <2>1 DEF OfDay
<1> DEFINE o == __offtime(InShanghai(t))
<1>5. o.tm_hour = h /\ o.tm_min = m /\ o.tm_sec = s
  BY <1>1, <1>3 DEF __offtime
<1> HIDE DEF o
<1>6. PICK c : Colon = <<c>> /\ ~IsDigit(c)
  BY SeparatorsAreNoDigits, TheSeparators, Zenon
<1>7. TimeText(o, Colon) = ClockTextOf(h, m, s, <<c>>)
  BY <1>5, <1>6 DEF TimeText, ClockTextOf
<1>8. PICK x \in Seq(DigitChars \cup {c}) : x = TimeText(o, Colon)
  <2>1. ClockFits(h, m, s, c)
    BY <1>4, <1>6 DEF ClockFits
  <2>2. ClockReads(h, m, s, c)
    BY <2>1, ClockText, Zenon
  <2>3. ThreeTexts(Two(h), Two(m), Two(s), c) \in Seq(DigitChars \cup {c})
    BY <2>2 DEF ClockReads
  <2> QED BY <1>7, <2>3, TextsPutTogether, Zenon
<1>9. \A p, q : x \o <<p>> \o <<q>> = x \o <<p, q>>
  <2> TAKE p, q
  <2> DEFINE S == DigitChars \cup {c, p, q}
  <2>1. x \in Seq(S) /\ p \in S /\ q \in S
    OBVIOUS
  <2> HIDE DEF S
  <2> QED BY <2>1, TwoCharacters
<1>10. x \o <<".">> \o <<"0">> = x \o <<".", "0">>
  BY <1>9, Zenon
<1>11. ms_to_str_r(t, 0) = x \o <<".">> \o <<"0">> /\ utc_to_strMinu(InShanghai(t)) = x
  BY <1>8, ZeroPadded, Zenon DEF ms_to_str_r, utc_to_strMinu, o
<1> QED BY <1>10, <1>11, Zenon

(* From the years the library works with, a time survives every form it    *)
(* is given; a date before 1981 ends the program instead of giving its time *)
(* back.                                                                   *)
THEOREM TimesAreTheSame ==
  ASSUME NEW t \in Times
  PROVE  SameTime(t)
<1>1. PICK tm \in Tms : Broken(t, tm)
  BY TimeBroken
<1>2. date_to_utc(utc_to_date(t).date, utc_to_date(t).minuSec)
        = IF utc_to_date(t).date < FirstDate THEN Aborts ELSE t
  <2>1. DateGoesBack(t)
    BY <1>1, DateAndBack
  <2> QED BY <2>1, Zenon DEF DateGoesBack
<1>3. str_to_date(date_to_str(utc_to_date(t).date)) = utc_to_date(t).date
  BY <1>1, DateTextRead
<1>4. str_to_minuSec(utc_to_strMinu(t)) = utc_to_date(t).minuSec
  BY <1>1, ClockTextRead
<1>5. tm_to_utc(str_to_tm(SubSeq(utc_to_str(t), 1, 10), SubSeq(utc_to_str(t), 13, 20))) = t
  BY <1>1, TimeTextRead
<1>6. ms_to_str_r(t, 0) = utc_to_strMinu(InShanghai(t)) \o <<".", "0">>
  BY MillisecondsText
<1> QED BY <1>2, <1>3, <1>4, <1>5, <1>6, Zenon DEF SameTime

(* The days between two dates: right while the seconds between them fit,   *)
(* and negative from there on, up to twice as far.                         *)
LEMMA DifferenceIs ==
  ASSUME NEW n \in Nat, n <= 48000
  PROVE  IF n <= 24855 THEN Difference(n) = n ELSE Difference(n) < 0
<1>1. 2^25 = 33554432 /\ 2^24 = 16777216
  BY SMT
<1>2. (675 * n) % 33554432 = 675 * n
  BY SMT
<1>3. CASE n <= 24855
  <2>1. 675 * n < 16777216 /\ ~(675 * n < 0) /\ (675 * n) \div 675 = n
    BY <1>3, SMT
  <2>2. ToInt(675 * n) = 675 * n
    BY <1>1, <1>2, <2>1, SMT DEF ToInt
  <2> QED BY <1>3, <2>1, <2>2 DEF Difference
<1>4. CASE ~(n <= 24855)
  <2>1. PICK m \in Nat : m = 33554432 - 675 * n /\ m >= 675 /\ ~(675 * n < 16777216)
    BY <1>4, SMT
  <2>2. ToInt(675 * n) = -m
    BY <1>1, <1>2, <2>1, SMT DEF ToInt
  <2>3. -m < 0 /\ -(-m) = m /\ m \div 675 \in Nat /\ m \div 675 >= 1
    BY <2>1, SMT
  <2>4. Difference(n) = -(m \div 675)
    BY <2>2, <2>3 DEF Difference
  <2> QED BY <1>4, <2>3, <2>4, SMT
<1> QED BY <1>3, <1>4

(* days_in counts the days between two dates, in either order, as long as  *)
(* their seconds fit 32 signed bits; beyond that the number is negative,   *)
(* and a date before 1981 ends the program.                                *)
THEOREM DaysBetweenDates ==
  ASSUME NEW t \in Times, NEW u \in Times
  PROVE  DaysBetween(t, u)
<1> DEFINE d == utc_to_date(t).date
           e == utc_to_date(u).date
<1>1. /\ date_to_utc(d, 0) = IF d < FirstDate THEN Aborts ELSE [days |-> t.days, rem |-> 0]
      /\ date_to_utc(e, 0) = IF e < FirstDate THEN Aborts ELSE [days |-> u.days, rem |-> 0]
  <2>1. DateGoesBack(t) /\ DateGoesBack(u)
    BY TimeBroken, DateAndBack
  <2> QED BY <2>1, Zenon DEF DateGoesBack
<1>2. PICK n \in Nat : n = Abs(t.days - u.days) /\ n <= 48000
  <2>1. PICK i \in Nat, j \in Nat : i = t.days /\ j = u.days /\ i <= 47540 /\ j <= 47540
    BY SMT DEF Times, LastDay
  <2> QED BY <2>1, SMT DEF Abs
<1>3. IF n <= 24855 THEN Difference(n) = n ELSE Difference(n) < 0
  BY <1>2, DifferenceIs
<1> HIDE DEF d, e
<1>4. CASE d < FirstDate \/ e < FirstDate
  <2>1. days_in(d, e) = Aborts
    BY <1>1, <1>4 DEF days_in
  <2> QED BY <1>4, <2>1 DEF DaysBetween, d, e
<1>5. CASE ~(d < FirstDate) /\ ~(e < FirstDate)
  <2>1. date_to_utc(d, 0) = [days |-> t.days, rem |-> 0] /\ date_to_utc(e, 0) = [days |-> u.days, rem |-> 0]
    BY <1>1, <1>5
  <2>2. \A x : Aborts # [days |-> x, rem |-> 0]
    BY SMT DEF Aborts
  <2>3. days_in(d, e) = Difference(n)
    BY <1>2, <2>1, <2>2 DEF days_in
  <2> QED BY <1>2, <1>3, <1>5, <2>3 DEF DaysBetween, d, e
<1> QED BY <1>4, <1>5

-----------------------------------------------------------------------------
(* s4string. *)

(* A function that calls itself once, for an argument with a smaller       *)
(* measure, exists: the recursion ends.                                    *)
Unfolds(f, x, stop, base, nx, F) == f[x] = IF x \in stop THEN base[x] ELSE F[x][f[nx[x]]]
UpTo(D, mu, k, f, stop, base, nx, F) == \A x \in D : mu[x] < k => Unfolds(f, x, stop, base, nx, F)

Falls(D, stop, nx, mu) == nx \in [D \ stop -> D] /\ mu \in [D -> Nat] /\ \A x \in D \ stop : mu[nx[x]] < mu[x]
Same(D, mu, k, f, g) == \A x \in D : mu[x] < k => f[x] = g[x]

(* Two functions that unfold alike up to a measure are the same up to it. *)
LEMMA UnfoldAlike ==
  ASSUME NEW D, NEW stop, NEW base, NEW nx, NEW F, NEW mu, Falls(D, stop, nx, mu),
         NEW k \in Nat, NEW f, NEW g,
         UpTo(D, mu, k, f, stop, base, nx, F), UpTo(D, mu, k, g, stop, base, nx, F)
  PROVE  Same(D, mu, k, f, g)
<1> USE DEF Falls, Same
<1> DEFINE T == {j \in Nat : j <= k => \A x \in D : mu[x] < j => f[x] = g[x]}
<1>1. 0 \in T
  OBVIOUS
<1>2. ASSUME NEW j \in Nat, j \in T, j + 1 <= k, NEW x \in D, mu[x] < j + 1 PROVE f[x] = g[x]
  <2>1. mu[x] < k
    BY <1>2
  <2>2. Unfolds(f, x, stop, base, nx, F) /\ Unfolds(g, x, stop, base, nx, F)
    BY <2>1 DEF UpTo
  <2>3. CASE x \in stop
    BY <2>2, <2>3 DEF Unfolds
  <2>4. CASE x \notin stop
    <3>1. nx[x] \in D /\ mu[nx[x]] < mu[x]
      BY <2>4
    <3>2. mu[nx[x]] < j
      BY <1>2, <3>1
    <3>3. f[nx[x]] = g[nx[x]]
      BY <1>2, <3>1, <3>2
    <3> QED BY <2>2, <2>4, <3>3 DEF Unfolds
  <2> QED BY <2>3, <2>4
<1>3. \A j \in Nat : j \in T => j + 1 \in T
  BY <1>2
<1>4. k \in T
  <2> HIDE DEF T
  <2> QED BY <1>1, <1>3, Induction
<1> QED BY <1>4

(* Up to any measure there is a function that unfolds. *)
LEMMA UnfoldsUpTo ==
  ASSUME NEW D, NEW V, NEW stop, NEW base \in [stop -> V], NEW nx \in [D \ stop -> D], NEW F \in [D \ stop -> [V -> V]],
         NEW mu \in [D -> Nat], \A x \in D \ stop : mu[nx[x]] < mu[x], NEW v \in V
  PROVE  \A k \in Nat : \E f \in [D -> V] : UpTo(D, mu, k, f, stop, base, nx, F)
<1> DEFINE T == {k \in Nat : \E f \in [D -> V] : UpTo(D, mu, k, f, stop, base, nx, F)}
<1>1. 0 \in T
  <2> DEFINE f == [x \in D |-> v]
  <2>1. f \in [D -> V]
    OBVIOUS
  <2>2. \A x \in D : ~(mu[x] < 0)
    OBVIOUS
  <2> QED BY <2>1, <2>2 DEF UpTo
<1>2. ASSUME NEW k \in Nat, k \in T PROVE k + 1 \in T
  <2>1. PICK f \in [D -> V] : UpTo(D, mu, k, f, stop, base, nx, F)
    BY <1>2
  <2> DEFINE g == [x \in D |-> IF x \in stop THEN base[x] ELSE F[x][f[nx[x]]]]
  <2>2. g \in [D -> V]
    <3>1. ASSUME NEW x \in D, x \notin stop PROVE F[x][f[nx[x]]] \in V
      <4>1. x \in D \ stop
        BY <3>1
      <4>2. nx[x] \in D
        BY <4>1
      <4>3. F[x] \in [V -> V] /\ f[nx[x]] \in V
        BY <4>1, <4>2
      <4> QED BY <4>3
    <3>2. ASSUME NEW x \in D, x \in stop PROVE base[x] \in V
      BY <3>2
    <3> QED BY <3>1, <3>2
  <2>3. \A x \in D : g[x] = IF x \in stop THEN base[x] ELSE F[x][f[nx[x]]]
    OBVIOUS
  <2> HIDE DEF g
  <2>4. \A x \in D : mu[x] < k => g[x] = f[x]
    BY <2>1, <2>3 DEF UpTo, Unfolds
  <2>5. ASSUME NEW x \in D, mu[x] < k + 1 PROVE Unfolds(g, x, stop, base, nx, F)
    <3>1. CASE x \in stop
      BY <2>3, <3>1 DEF Unfolds
    <3>2. CASE x \notin stop
      <4>1. nx[x] \in D /\ mu[nx[x]] < mu[x]
        BY <3>2
      <4>2. mu[nx[x]] < k
        BY <2>5, <4>1
      <4>3. g[nx[x]] = f[nx[x]]
        BY <2>4, <4>1, <4>2
      <4> QED BY <2>3, <3>2, <4>3 DEF Unfolds
    <3> QED BY <3>1, <3>2
  <2> QED BY <2>2, <2>5 DEF UpTo
<1>3. Nat \subseteq T
  <2> HIDE DEF T
  <2> QED BY <1>1, <1>2, Induction
<1> QED BY <1>3

(* There is one that unfolds everywhere. *)
LEMMA Recursion ==
  ASSUME NEW D, NEW V, NEW stop, NEW base \in [stop -> V], NEW nx \in [D \ stop -> D], NEW F \in [D \ stop -> [V -> V]],
         NEW mu \in [D -> Nat], \A x \in D \ stop : mu[nx[x]] < mu[x], NEW v \in V
  PROVE  \E f \in [D -> V] : \A x \in D : Unfolds(f, x, stop, base, nx, F)
<1> DEFINE Valid(k, f) == f \in [D -> V] /\ UpTo(D, mu, k, f, stop, base, nx, F)
           level(k) == CHOOSE f : Valid(k, f)
           h == [x \in D |-> level(mu[x] + 1)[x]]
<1>1. \A k \in Nat : level(k) \in [D -> V] /\ UpTo(D, mu, k, level(k), stop, base, nx, F)
  <2>1. \A k \in Nat : \E f : Valid(k, f)
    BY UnfoldsUpTo
  <2> QED BY <2>1
<1> HIDE DEF level
<1>2. \A x \in D : h[x] = level(mu[x] + 1)[x]
  OBVIOUS
<1>3. \A x \in D : level(mu[x] + 1)[x] \in V
  <2> TAKE x \in D
  <2>1. mu[x] + 1 \in Nat
    OBVIOUS
  <2> QED BY <1>1, <2>1
<1>4. h \in [D -> V]
  BY <1>3
<1> HIDE DEF h
<1>5. ASSUME NEW x \in D PROVE Unfolds(h, x, stop, base, nx, F)
  <2>1. PICK m \in Nat : m = mu[x]
    OBVIOUS
  <2>2. Unfolds(level(m + 1), x, stop, base, nx, F)
    <3>1. m + 1 \in Nat /\ mu[x] < m + 1
      BY <2>1
    <3> QED BY <1>1, <3>1 DEF UpTo
  <2>3. CASE x \in stop
    BY <1>2, <2>1, <2>2, <2>3 DEF Unfolds
  <2>4. CASE x \notin stop
    <3>1. nx[x] \in D /\ mu[nx[x]] < mu[x]
      BY <2>4
    <3>2. PICK n \in Nat : n = mu[nx[x]]
      BY <3>1
    <3>3. n + 1 \in Nat /\ m + 1 \in Nat /\ n + 1 <= m + 1 /\ mu[nx[x]] < n + 1
      BY <2>1, <3>1, <3>2
    <3>4. UpTo(D, mu, n + 1, level(m + 1), stop, base, nx, F)
      <4>1. UpTo(D, mu, m + 1, level(m + 1), stop, base, nx, F)
        BY <1>1, <3>3
      <4>2. \A y \in D : mu[y] < n + 1 => mu[y] < m + 1
        BY <3>3
      <4> QED BY <4>1, <4>2 DEF UpTo
    <3>5. UpTo(D, mu, n + 1, level(n + 1), stop, base, nx, F)
      BY <1>1, <3>3
    <3>6. level(m + 1)[nx[x]] = level(n + 1)[nx[x]]
      <4>1. PICK k, f, g : k = n + 1 /\ f = level(m + 1) /\ g = level(n + 1)
        OBVIOUS
      <4>2. k \in Nat /\ UpTo(D, mu, k, f, stop, base, nx, F) /\ UpTo(D, mu, k, g, stop, base, nx, F)
        BY <3>3, <3>4, <3>5, <4>1
      <4>3. Falls(D, stop, nx, mu)
        BY DEF Falls
      <4>4. Same(D, mu, k, f, g)
        BY <4>2, <4>3, UnfoldAlike
      <4> QED BY <3>1, <3>3, <4>1, <4>4 DEF Same
    <3>7. h[nx[x]] = level(n + 1)[nx[x]] /\ h[x] = level(m + 1)[x]
      BY <1>2, <2>1, <3>1, <3>2
    <3> QED BY <2>2, <2>4, <3>6, <3>7 DEF Unfolds
  <2> QED BY <2>3, <2>4
<1> QED BY <1>4, <1>5

(* Whatever unfolds this way, as long as its values lie in V, is this function. *)
UnfoldsIn(V, g, x, stop, base, nx, F) ==
  IF x \in stop THEN g[x] = base[x] ELSE g[nx[x]] \in V => g[x] = F[x][g[nx[x]]]

AllUnfold(D, V, f, stop, base, nx, F) == f \in [D -> V] /\ \A x \in D : Unfolds(f, x, stop, base, nx, F)
AllUnfoldIn(D, V, g, stop, base, nx, F) == \A x \in D : UnfoldsIn(V, g, x, stop, base, nx, F)
Agree(D, f, g) == \A x \in D : g[x] = f[x]

(* Nothing else unfolds this way. *)
LEMMA RecursionIs ==
  ASSUME NEW D, NEW V, NEW stop, NEW base, NEW nx, NEW F, NEW mu, Falls(D, stop, nx, mu),
         NEW f, AllUnfold(D, V, f, stop, base, nx, F), NEW g, AllUnfoldIn(D, V, g, stop, base, nx, F)
  PROVE  Agree(D, f, g)
<1> USE DEF AllUnfold, AllUnfoldIn, Agree
<1> DEFINE T == {k \in Nat : \A x \in D : mu[x] < k => g[x] = f[x]}
<1>1. \A x \in D : mu[x] \in Nat
  BY DEF Falls
<1>2. 0 \in T
  BY <1>1
<1>3. ASSUME NEW k \in Nat, k \in T, NEW x \in D, mu[x] < k + 1 PROVE g[x] = f[x]
  <2>1. CASE x \in stop
    BY <2>1 DEF Unfolds, UnfoldsIn
  <2>2. CASE x \notin stop
    <3>1. nx[x] \in D /\ mu[nx[x]] < mu[x]
      BY <2>2 DEF Falls
    <3>2. mu[nx[x]] < k
      BY <1>1, <1>3, <3>1
    <3>3. g[nx[x]] = f[nx[x]] /\ f[nx[x]] \in V
      BY <1>3, <3>1, <3>2
    <3> QED BY <2>2, <3>3 DEF Unfolds, UnfoldsIn
  <2> QED BY <2>1, <2>2
<1>4. Nat \subseteq T
  <2>1. \A k \in Nat : k \in T => k + 1 \in T
    BY <1>3
  <2> HIDE DEF T
  <2> QED BY <1>2, <2>1, Induction
<1>5. ASSUME NEW x \in D PROVE g[x] = f[x]
  <2>1. mu[x] + 1 \in T /\ mu[x] < mu[x] + 1
    BY <1>1, <1>4
  <2> QED BY <2>1
<1> QED BY <1>5

Occurs(s, sub, i) == \A k \in 1..Len(sub) : s[i + k - 1] = sub[k]
FoundAt(s, sub, pos, i) ==
  /\ i \in pos..(Len(s) - Len(sub) + 1) /\ Occurs(s, sub, i)
  /\ \A j \in pos..(i - 1) : ~Occurs(s, sub, j)
NotFound(s, sub, pos) == \A i \in pos..(Len(s) - Len(sub) + 1) : ~Occurs(s, sub, i)

(* Find finds the first place. *)
LEMMA FindIs ==
  ASSUME NEW S, NEW s \in Seq(S), NEW sub \in Seq(S), NEW pos \in Nat \ {0}
  PROVE  /\ Find(s, sub, pos) \in Nat
         /\ Find(s, sub, pos) = 0 => NotFound(s, sub, pos)
         /\ Find(s, sub, pos) # 0 => FoundAt(s, sub, pos, Find(s, sub, pos))
<1> DEFINE I == pos..(Len(s) - Len(sub) + 1)
           Places == {i \in I : SubSeq(s, i, i + Len(sub) - 1) = sub}
<1>1. Len(s) \in Nat /\ Len(sub) \in Nat
  OBVIOUS
<1>2. ASSUME NEW i \in I PROVE (SubSeq(s, i, i + Len(sub) - 1) = sub) <=> Occurs(s, sub, i)
  <2>1. i \in Nat /\ i >= 1 /\ i + Len(sub) - 1 \in Int /\ i + Len(sub) - 1 <= Len(s)
    BY <1>1
  <2>2. \A k \in i..(i + Len(sub) - 1) : s[k] \in S
    BY <1>1, <2>1
  <2>3. PICK t : t = SubSeq(s, i, i + Len(sub) - 1)
    OBVIOUS
  <2>4. PICK e \in Int : e = i + Len(sub) - 1
    BY <2>1
  <2>5. /\ t \in Seq(S) /\ Len(t) = (IF i <= e THEN e - i + 1 ELSE 0)
        /\ \A k \in 1..(e - i + 1) : t[k] = s[i + k - 1]
    BY <2>1, <2>2, <2>3, <2>4, SubSeqProperties, SMTT(30)
  <2>6. Len(t) = Len(sub) /\ e - i + 1 = Len(sub)
    BY <1>1, <2>1, <2>4, <2>5, SMTT(30)
  <2>7. t = sub => Occurs(s, sub, i)
    BY <2>5, <2>6 DEF Occurs
  <2>8. Occurs(s, sub, i) => t = sub
    <3>1. Occurs(s, sub, i) => \A k \in 1..Len(t) : t[k] = sub[k]
      BY <2>5, <2>6 DEF Occurs
    <3> QED BY <2>5, <2>6, <3>1, SeqEqual
  <2> QED BY <2>3, <2>7, <2>8
<1>3. Find(s, sub, pos) = IF Places = {} THEN 0 ELSE Min(Places)
  BY DEF Find
<1>4. \A i \in I : i \in Places <=> Occurs(s, sub, i)
  BY <1>2
<1>5. I \subseteq Nat \ {0} /\ Places \subseteq I
  BY <1>1
<1> HIDE DEF Places
<1>6. CASE Places = {}
  <2>1. Find(s, sub, pos) = 0
    BY <1>3, <1>6
  <2> QED BY <1>4, <1>6, <2>1 DEF NotFound
<1>7. CASE Places # {}
  <2>1. Min(Places) \in Places /\ \A y \in Places : Min(Places) <= y
    <3>1. Places \subseteq Nat
      BY <1>5
    <3> QED BY <1>7, <3>1, MinOf
  <2>2. PICK m \in I : m = Min(Places)
    BY <1>5, <2>1
  <2>3. m \in Nat \ {0} /\ Find(s, sub, pos) = m /\ Occurs(s, sub, m)
    BY <1>3, <1>4, <1>5, <1>7, <2>1, <2>2
  <2>4. ASSUME NEW j \in pos..(m - 1) PROVE ~Occurs(s, sub, j)
    <3>1. j \in I /\ ~(m <= j)
      BY <1>1, <2>2
    <3> QED BY <1>4, <2>1, <2>2, <3>1
  <2> QED BY <2>2, <2>3, <2>4 DEF FoundAt
<1> QED BY <1>6, <1>7

(* Where a text occurs first, and that it does not occur, decides what     *)
(* Find gives.                                                             *)
LEMMA FindsIt ==
  ASSUME NEW S, NEW s \in Seq(S), NEW sub \in Seq(S), NEW pos \in Nat \ {0}
  PROVE  /\ NotFound(s, sub, pos) => Find(s, sub, pos) = 0
         /\ \A i \in Nat : FoundAt(s, sub, pos, i) => Find(s, sub, pos) = i
<1>1. PICK f \in Nat : /\ f = Find(s, sub, pos) /\ (f = 0 => NotFound(s, sub, pos))
                       /\ (f # 0 => FoundAt(s, sub, pos, f))
  BY FindIs
<1>2. Len(s) \in Nat /\ Len(sub) \in Nat
  OBVIOUS
<1>3. NotFound(s, sub, pos) => f = 0
  BY <1>1 DEF FoundAt, NotFound
<1>4. ASSUME NEW i \in Nat, FoundAt(s, sub, pos, i) PROVE f = i
  <2>1. f # 0
    BY <1>1, <1>4 DEF FoundAt, NotFound
  <2>2. ~(f < i)
    BY <1>1, <1>2, <1>4, <2>1 DEF FoundAt
  <2>3. ~(i < f)
    BY <1>1, <1>2, <1>4, <2>1 DEF FoundAt
  <2> QED BY <2>2, <2>3
<1> QED BY <1>1, <1>3, <1>4

(* Behind another text the first place is as much further. *)
LEMMA FindBehind ==
  ASSUME NEW S, NEW x \in Seq(S), NEW t \in Seq(S), NEW sub \in Seq(S)
  PROVE  /\ Find(t, sub, 1) = 0 => Find(Beside(x, t), sub, Len(x) + 1) = 0
         /\ Find(t, sub, 1) # 0 => Find(Beside(x, t), sub, Len(x) + 1) = Len(x) + Find(t, sub, 1)
<1>1. PICK z \in Seq(S), a \in Nat, b \in Nat, d \in Nat :
        /\ z = Beside(x, t) /\ a = Len(x) /\ b = Len(t) /\ d = Len(sub) /\ Len(z) = a + b
        /\ \A j \in 1..b : z[a + j] = t[j]
  <2>1. Beside(x, t) \in Seq(S) /\ AreBeside(x, t, Beside(x, t)) /\ Len(x) \in Nat /\ Len(t) \in Nat /\ Len(sub) \in Nat
    BY JoinedTexts
  <2> QED BY <2>1 DEF AreBeside
<1>2. ASSUME NEW i \in 1..(b - d + 1) PROVE Occurs(z, sub, a + i) <=> Occurs(t, sub, i)
  <2>1. ASSUME NEW k \in 1..d PROVE z[(a + i) + k - 1] = t[i + k - 1]
    <3>1. i + k - 1 \in 1..b /\ (a + i) + k - 1 = a + (i + k - 1)
      OBVIOUS
    <3> QED BY <1>1, <3>1
  <2> QED BY <1>1, <2>1 DEF Occurs
<1>3. a + 1 \in Nat \ {0} /\ 1 \in Nat \ {0}
  OBVIOUS
<1>4. CASE Find(t, sub, 1) = 0
  <2>1. NotFound(t, sub, 1)
    BY <1>3, <1>4, FindIs
  <2>2. ASSUME NEW i \in (a + 1)..((a + b) - d + 1) PROVE ~Occurs(z, sub, i)
    <3>1. i - a \in 1..(b - d + 1) /\ a + (i - a) = i
      OBVIOUS
    <3> QED BY <1>1, <1>2, <2>1, <3>1 DEF NotFound
  <2>3. NotFound(z, sub, a + 1)
    BY <1>1, <2>2 DEF NotFound
  <2> QED BY <1>1, <1>3, <1>4, <2>3, FindsIt
<1>5. CASE Find(t, sub, 1) # 0
  <2>1. PICK f \in Nat : f = Find(t, sub, 1) /\ FoundAt(t, sub, 1, f)
    BY <1>3, <1>5, FindIs
  <2>2. f \in 1..(b - d + 1) /\ Occurs(z, sub, a + f)
    BY <1>1, <1>2, <2>1 DEF FoundAt
  <2>3. ASSUME NEW i \in (a + 1)..((a + f) - 1) PROVE ~Occurs(z, sub, i)
    <3>1. i - a \in 1..(b - d + 1) /\ a + (i - a) = i /\ i - a \in 1..(f - 1)
      BY <2>2
    <3> QED BY <1>1, <1>2, <2>1, <3>1 DEF FoundAt
  <2>4. a + f \in Nat /\ FoundAt(z, sub, a + 1, a + f)
    BY <1>1, <2>2, <2>3 DEF FoundAt
  <2>5. Find(z, sub, a + 1) = a + f
    BY <1>3, <2>4, FindsIt
  <2> QED BY <1>1, <1>5, <2>1, <2>5
<1> QED BY <1>4, <1>5

Put(a, sep, b) == a \o sep \o b
JoinedStates(g, pieces, sep, S) ==
  /\ g \in [0..Len(pieces) -> Seq(S)]
  /\ g[0] = <<>>
  /\ \A i \in 1..Len(pieces) : g[i] = IF i = 1 THEN pieces[1] ELSE Put(g[i - 1], sep, pieces[i])

(* A separator between two texts. *)
LEMMA PutTexts ==
  ASSUME NEW S, NEW a \in Seq(S), NEW sep \in Seq(S), NEW b \in Seq(S)
  PROVE  /\ Put(a, sep, b) \in Seq(S) /\ Len(Put(a, sep, b)) = Len(a) + Len(sep) + Len(b)
         /\ a \o sep \in Seq(S) /\ Put(a, sep, b) = Beside(a, Beside(sep, b))
<1>1. a \o sep \in Seq(S) /\ Len(a \o sep) = Len(a) + Len(sep)
  BY ConcatProperties
<1>2. (a \o sep) \o b \in Seq(S) /\ Len((a \o sep) \o b) = Len(a \o sep) + Len(b)
  BY <1>1, ConcatProperties
<1>3. (a \o sep) \o b = a \o (sep \o b)
  BY ConcatAssociative
<1> QED BY <1>1, <1>2, <1>3 DEF Put, Beside

(* Texts beside each other stand so whichever two are put together first. *)
LEMMA BesideAgain ==
  ASSUME NEW S, NEW x \in Seq(S), NEW y \in Seq(S), NEW z \in Seq(S)
  PROVE  Beside(Beside(x, y), z) = Beside(x, Beside(y, z))
BY ConcatIsAssociative DEF Beside

(* A separator between two texts stands beside both. *)
LEMMA PutIs == \A a, sep, b : Put(a, sep, b) = Beside(Beside(a, sep), b)
BY DEF Put, Beside

(* The same for texts with separators between them. *)
LEMMA PutAgain ==
  ASSUME NEW S, NEW a \in Seq(S), NEW s1 \in Seq(S), NEW b \in Seq(S), NEW s2 \in Seq(S), NEW c \in Seq(S)
  PROVE  Put(Put(a, s1, b), s2, c) = Put(a, s1, Put(b, s2, c))
<1>1. \A x \in Seq(S), y \in Seq(S) : Beside(x, y) \in Seq(S)
  BY JoinedTexts
<1>2. \A x \in Seq(S), y \in Seq(S), z \in Seq(S) : Beside(Beside(x, y), z) = Beside(x, Beside(y, z))
  BY BesideAgain
<1>3. Beside(a, s1) \in Seq(S) /\ Beside(b, s2) \in Seq(S)
  BY <1>1
<1>4. Beside(Beside(Beside(a, s1), b), s2) = Beside(Beside(a, s1), Beside(b, s2))
  BY <1>2, <1>3
<1>5. Beside(Beside(Beside(a, s1), Beside(b, s2)), c) = Beside(Beside(a, s1), Beside(Beside(b, s2), c))
  BY <1>2, <1>3
<1> QED BY <1>4, <1>5, PutIs

(* Joined, as the states of its loop. *)
LEMMA JoinedLoop ==
  ASSUME NEW S, NEW pieces \in Seq(Seq(S)), NEW sep \in Seq(S)
  PROVE  \E g : JoinedStates(g, pieces, sep, S) /\ Joined(pieces, sep) = g[Len(pieces)]
<1> DEFINE m == Len(pieces)
           F == [x \in Seq(S) \X (1..m) |-> IF x[2] = 1 THEN pieces[1] ELSE Put(x[1], sep, pieces[x[2]])]
           n == CHOOSE n : n = [i \in 0..m |-> IF i = 0 THEN <<>> ELSE IF i = 1 THEN pieces[1]
                                               ELSE n[i - 1] \o sep \o pieces[i]]
<1>0. \A i \in 1..m : pieces[i] \in Seq(S)
  OBVIOUS
<1>1. m \in Nat /\ F \in Passes(Seq(S), m) /\ <<>> \in Seq(S)
  <2>1. \A x \in Seq(S), i \in 1..m : Put(x, sep, pieces[i]) \in Seq(S)
    BY <1>0, PutTexts
  <2>2. \A i \in 1..m : i = 1 => pieces[1] \in Seq(S)
    BY <1>0
  <2>3. \A x \in Seq(S) \X (1..m) : (IF x[2] = 1 THEN pieces[1] ELSE Put(x[1], sep, pieces[x[2]])) \in Seq(S)
    <3> TAKE x \in Seq(S) \X (1..m)
    <3>1. x[1] \in Seq(S) /\ x[2] \in 1..m
      OBVIOUS
    <3> QED BY <2>1, <2>2, <3>1
  <2>4. m \in Nat /\ <<>> \in Seq(S)
    OBVIOUS
  <2> QED BY <2>3, <2>4 DEF Passes
<1>2. \A k \in Seq(S), i \in 1..m : F[<<k, i>>] = IF i = 1 THEN pieces[1] ELSE Put(k, sep, pieces[i])
  OBVIOUS
<1>3. n = [i \in 0..m |-> IF i = 0 THEN <<>> ELSE IF i = 1 THEN pieces[1] ELSE n[i - 1] \o sep \o pieces[i]]
  <2> HIDE DEF m, F
  <2>1. PICK g : g \in States(Seq(S), m, <<>>, F)
    BY <1>1, LoopStates
  <2>2. g \in [0..m -> Seq(S)] /\ g[0] = <<>> /\ \A i \in 1..m : g[i - 1] \in Seq(S) /\ g[i] = F[<<g[i - 1], i>>]
    BY <1>1, <2>1 DEF States
  <2>3. \A i \in 0..m : i # 0 => i \in 1..m
    BY <1>1
  <2>4. \A i \in 1..m : g[i] = IF i = 1 THEN pieces[1] ELSE g[i - 1] \o sep \o pieces[i]
    BY <1>2, <2>2 DEF Put
  <2>5. g = [i \in 0..m |-> IF i = 0 THEN <<>> ELSE IF i = 1 THEN pieces[1] ELSE g[i - 1] \o sep \o pieces[i]]
    BY <2>2, <2>3, <2>4
  <2> QED BY <2>5
<1>4. Joined(pieces, sep) = n[m]
  BY DEF Joined
<1> HIDE DEF m, n, F
<1>5. n \in States(Seq(S), m, <<>>, F)
  <2>1. Follows(n, Seq(S), m, <<>>, F)
    <3>1. \A i \in 1..m : i \in 0..m /\ i # 0
      BY <1>1
    <3>2. \A i \in 1..m : n[i] = IF i = 1 THEN pieces[1] ELSE Put(n[i - 1], sep, pieces[i])
      BY <1>3, <3>1 DEF Put
    <3>3. n[0] = <<>>
      BY <1>1, <1>3
    <3>4. n = [i \in 0..m |-> n[i]]
      BY <1>3
    <3> QED BY <1>2, <3>2, <3>3, <3>4 DEF Follows
  <2> QED BY <1>1, <2>1, LoopFollows
<1>6. n \in [0..m -> Seq(S)] /\ n[0] = <<>> /\ \A i \in 1..m : n[i - 1] \in Seq(S) /\ n[i] = F[<<n[i - 1], i>>]
  BY <1>1, <1>5 DEF States
<1>7. \A i \in 1..m : n[i] = IF i = 1 THEN pieces[1] ELSE Put(n[i - 1], sep, pieces[i])
  BY <1>2, <1>6
<1> QED BY <1>4, <1>6, <1>7 DEF m, JoinedStates

(* No pieces joined are no text, and one is itself. *)
LEMMA JoinedIs ==
  ASSUME NEW S, NEW pieces \in Seq(Seq(S)), NEW sep \in Seq(S)
  PROVE  /\ Joined(pieces, sep) \in Seq(S)
         /\ Len(pieces) = 0 => Joined(pieces, sep) = <<>>
         /\ Len(pieces) = 1 => Joined(pieces, sep) = pieces[1]
<1>1. PICK g : JoinedStates(g, pieces, sep, S) /\ Joined(pieces, sep) = g[Len(pieces)]
  BY JoinedLoop
<1>2. PICK n \in Nat : n = Len(pieces)
  OBVIOUS
<1>3. n \in 0..n /\ (n = 1 => n \in 1..n)
  BY <1>2
<1>4. g[n] \in Seq(S) /\ g[0] = <<>>
  BY <1>1, <1>2, <1>3 DEF JoinedStates
<1>5. n = 1 => g[n] = pieces[1]
  BY <1>1, <1>2, <1>3 DEF JoinedStates
<1> QED BY <1>1, <1>2, <1>4, <1>5

(* A first piece stands in front of the others joined. *)
LEMMA JoinedFirst ==
  ASSUME NEW S, NEW P \in Seq(Seq(S)), Len(P) > 0, NEW a \in Seq(S), NEW sep \in Seq(S),
         NEW Q \in Seq(Seq(S)), Len(Q) = Len(P) + 1, Q[1] = a, \A i \in 1..Len(P) : Q[i + 1] = P[i]
  PROVE  Joined(Q, sep) = Put(a, sep, Joined(P, sep))
<1>1. PICK n \in Nat : n = Len(P) /\ n > 0 /\ Len(Q) = n + 1
  OBVIOUS
<1>2. PICK g : JoinedStates(g, P, sep, S) /\ Joined(P, sep) = g[n]
  BY <1>1, JoinedLoop
<1>3. PICK h : JoinedStates(h, Q, sep, S) /\ Joined(Q, sep) = h[n + 1]
  BY <1>1, JoinedLoop, ZenonT(30)
<1>4. /\ g[1] = P[1] /\ \A i \in 2..n : g[i] = Put(g[i - 1], sep, P[i])
      /\ \A i \in 0..n : g[i] \in Seq(S)
  <2>1. \A i \in 0..n : g[i] \in Seq(S)
    BY <1>1, <1>2 DEF JoinedStates
  <2>2. \A i \in 2..n : i \in 1..Len(P) /\ i # 1
    BY <1>1
  <2>3. \A i \in 2..n : g[i] = Put(g[i - 1], sep, P[i])
    BY <1>2, <2>2 DEF JoinedStates
  <2>4. 1 \in 1..Len(P)
    BY <1>1
  <2>5. g[1] = P[1]
    BY <1>2, <2>4 DEF JoinedStates
  <2> QED BY <2>1, <2>3, <2>5
<1>5. /\ h[1] = a /\ \A i \in 2..(n + 1) : h[i] = Put(h[i - 1], sep, Q[i])
  BY <1>1, <1>3 DEF JoinedStates
<1> DEFINE T == {i \in Nat : i < n => h[i + 2] = Put(a, sep, g[i + 1])}
<1>6. 0 \in T
  <2>1. h[2] = Put(h[1], sep, Q[2])
    <3>1. 2 \in 2..(n + 1) /\ 2 - 1 = 1
      BY <1>1
    <3> QED BY <1>5, <3>1
  <2>2. Q[2] = P[1]
    <3>1. 1 \in 1..Len(P) /\ 1 + 1 = 2
      BY <1>1
    <3> QED BY <3>1
  <2>3. 0 + 2 = 2 /\ 0 + 1 = 1
    OBVIOUS
  <2> QED BY <1>4, <1>5, <2>1, <2>2, <2>3
<1>7. ASSUME NEW i \in Nat, i \in T PROVE i + 1 \in T
  <2>1. SUFFICES ASSUME i + 1 < n PROVE h[(i + 1) + 2] = Put(a, sep, g[(i + 1) + 1])
    OBVIOUS
  <2>2. PICK j \in Nat : j = i + 2
    OBVIOUS
  <2>3. h[j] = Put(a, sep, g[j - 1]) /\ j \in 2..n /\ j + 1 \in 2..(n + 1) /\ (j + 1) - 1 = j /\ j \in 1..Len(P)
    <3>1. i < n /\ i + 1 = j - 1
      BY <2>1, <2>2
    <3> QED BY <1>1, <1>7, <2>1, <2>2, <3>1, SMTT(30)
  <2>4. h[j + 1] = Put(h[j], sep, Q[j + 1]) /\ Q[j + 1] = P[j] /\ g[j] = Put(g[j - 1], sep, P[j])
    BY <1>4, <1>5, <2>3
  <2>5. g[j - 1] \in Seq(S) /\ P[j] \in Seq(S)
    <3>1. j - 1 \in 0..n /\ j \in 1..Len(P)
      BY <2>3
    <3>2. P[j] \in Seq(S)
      BY <3>1, ElementOfSeq
    <3> QED BY <1>4, <3>1, <3>2
  <2>6. Put(Put(a, sep, g[j - 1]), sep, P[j]) = Put(a, sep, Put(g[j - 1], sep, P[j]))
    <3>1. PICK u \in Seq(S), w \in Seq(S) : u = g[j - 1] /\ w = P[j]
      BY <2>5
    <3>2. \A x \in Seq(S), y \in Seq(S) : Put(Put(a, sep, x), sep, y) = Put(a, sep, Put(x, sep, y))
      BY PutAgain
    <3> QED BY <3>1, <3>2
  <2>7. (i + 1) + 2 = j + 1 /\ (i + 1) + 1 = j
    BY <2>2
  <2> QED BY <2>3, <2>4, <2>6, <2>7
<1>8. Nat \subseteq T
  <2> HIDE DEF T
  <2> QED BY <1>6, <1>7, Induction
<1>9. h[n + 1] = Put(a, sep, g[n])
  <2>1. n - 1 \in Nat /\ n - 1 < n /\ (n - 1) + 2 = n + 1 /\ (n - 1) + 1 = n
    BY <1>1
  <2>2. n - 1 \in T
    BY <1>8, <2>1
  <2> QED BY <2>1, <2>2
<1> QED BY <1>2, <1>3, <1>9

(* A last piece stands behind the others joined. *)
LEMMA JoinedLast ==
  ASSUME NEW S, NEW P \in Seq(Seq(S)), Len(P) > 0, NEW a \in Seq(S), NEW sep \in Seq(S)
  PROVE  Joined(Append(P, a), sep) = Put(Joined(P, sep), sep, a)
<1>0. PICK Q : Q = Append(P, a)
  OBVIOUS
<1>1. PICK n \in Nat : n = Len(P) /\ n > 0
  OBVIOUS
<1>11. Q \in Seq(Seq(S)) /\ Len(Q) = n + 1 /\ Q[n + 1] = a /\ \A i \in 1..n : Q[i] = P[i]
  BY <1>0, <1>1, AppendProperties
<1>2. PICK g : JoinedStates(g, P, sep, S) /\ Joined(P, sep) = g[n]
  BY <1>1, JoinedLoop
<1>3. PICK h : JoinedStates(h, Q, sep, S) /\ Joined(Q, sep) = h[n + 1]
  BY <1>1, <1>11, JoinedLoop, ZenonT(30)
<1>4. /\ g[1] = P[1] /\ \A i \in 2..n : g[i] = Put(g[i - 1], sep, P[i])
  BY <1>1, <1>2 DEF JoinedStates
<1>5. /\ h[1] = Q[1] /\ \A i \in 2..(n + 1) : h[i] = Put(h[i - 1], sep, Q[i])
  BY <1>1, <1>3, <1>11 DEF JoinedStates
<1> DEFINE T == {i \in Nat : i < n => h[i + 1] = g[i + 1]}
<1>6. 0 \in T
  BY <1>1, <1>4, <1>5, <1>11
<1>7. ASSUME NEW i \in Nat, i \in T PROVE i + 1 \in T
  <2>1. SUFFICES ASSUME i + 1 < n PROVE h[(i + 1) + 1] = g[(i + 1) + 1]
    OBVIOUS
  <2>2. PICK j \in Nat : j = i + 2
    OBVIOUS
  <2>3. h[j - 1] = g[j - 1] /\ j \in 2..n /\ j \in 2..(n + 1) /\ j \in 1..n
    <3>1. i < n /\ i + 1 = j - 1
      BY <2>1, <2>2
    <3> QED BY <1>1, <1>7, <2>1, <2>2, <3>1
  <2>4. h[j] = Put(h[j - 1], sep, Q[j]) /\ Q[j] = P[j] /\ g[j] = Put(g[j - 1], sep, P[j])
    BY <1>4, <1>5, <1>11, <2>3
  <2>7. (i + 1) + 1 = j
    BY <2>2
  <2> QED BY <2>3, <2>4, <2>7
<1>8. Nat \subseteq T
  <2> HIDE DEF T
  <2> QED BY <1>6, <1>7, Induction
<1>9. h[n] = g[n]
  <2>1. n - 1 \in Nat /\ n - 1 < n /\ (n - 1) + 1 = n
    BY <1>1
  <2>2. n - 1 \in T
    BY <1>8, <2>1
  <2> QED BY <2>1, <2>2
<1>10. h[n + 1] = Put(h[n], sep, Q[n + 1])
  <2>1. n + 1 \in 2..(n + 1) /\ (n + 1) - 1 = n
    BY <1>1
  <2> QED BY <1>5, <2>1
<1> QED BY <1>0, <1>2, <1>3, <1>9, <1>10, <1>11

(* The characters from the m-th to the n-th. *)
Piece(s, m, n) == SubSeq(s, m, n)
RestOf(s, m) == Piece(s, m, Len(s))

IsPiece(p, s, m, n, S) ==
  p \in Seq(S) /\ Len(p) = n - m + 1 /\ \A k \in 1..(n - m + 1) : p[k] = s[m + k - 1]
Bounds(s, m, n) == m \in Nat \ {0} /\ n \in Nat /\ n <= Len(s) /\ m <= n + 1

(* The characters of a piece. *)
LEMMA PieceIs ==
  ASSUME NEW S, NEW s \in Seq(S), NEW m, NEW n
  PROVE  Bounds(s, m, n) => IsPiece(Piece(s, m, n), s, m, n, S)
<1>0. SUFFICES ASSUME m \in Nat \ {0}, n \in Nat, n <= Len(s), m <= n + 1 PROVE IsPiece(Piece(s, m, n), s, m, n, S)
  BY DEF Bounds
<1>1. m \in Int /\ n \in Int /\ \A i \in m..n : s[i] \in S
  <2>1. \A i \in m..n : i \in 1..Len(s)
    BY <1>0
  <2> QED BY <1>0, <2>1
<1>2. /\ SubSeq(s, m, n) \in Seq(S) /\ Len(SubSeq(s, m, n)) = (IF m <= n THEN n - m + 1 ELSE 0)
      /\ \A i \in 1..(n - m + 1) : SubSeq(s, m, n)[i] = s[m + i - 1]
  BY <1>1, SubSeqProperties
<1> QED BY <1>0, <1>2 DEF Piece, IsPiece

(* A part of the second of two texts is the same part of both together. *)
LEMMA PieceBehind ==
  ASSUME NEW S, NEW x \in Seq(S), NEW t \in Seq(S), NEW m \in Nat \ {0}, NEW n \in Nat, n <= Len(t), m <= n + 1
  PROVE  Piece(Beside(x, t), Len(x) + m, Len(x) + n) = Piece(t, m, n)
<1>1. PICK z \in Seq(S), a \in Nat, b \in Nat :
        /\ z = Beside(x, t) /\ a = Len(x) /\ b = Len(t) /\ Len(z) = a + b
        /\ \A j \in 1..b : z[a + j] = t[j]
  <2>1. Beside(x, t) \in Seq(S) /\ AreBeside(x, t, Beside(x, t)) /\ Len(x) \in Nat /\ Len(t) \in Nat
    BY JoinedTexts
  <2> QED BY <2>1 DEF AreBeside
<1>2. PICK u \in Seq(S) : u = Piece(t, m, n) /\ Len(u) = n - m + 1 /\ \A k \in 1..(n - m + 1) : u[k] = t[m + k - 1]
  <2>1. Bounds(t, m, n)
    BY DEF Bounds
  <2>2. IsPiece(Piece(t, m, n), t, m, n, S)
    BY <2>1, PieceIs
  <2> QED BY <2>2 DEF IsPiece
<1>3. PICK v \in Seq(S) : v = Piece(z, a + m, a + n) /\ Len(v) = n - m + 1
                          /\ \A k \in 1..(n - m + 1) : v[k] = z[(a + m) + k - 1]
  <2>1. a + m \in Nat \ {0} /\ a + n \in Nat /\ a + n <= Len(z) /\ a + m <= (a + n) + 1 /\ (a + n) - (a + m) + 1 = n - m + 1
    BY <1>1
  <2>2. Bounds(z, a + m, a + n)
    BY <2>1 DEF Bounds
  <2>3. IsPiece(Piece(z, a + m, a + n), z, a + m, a + n, S)
    BY <2>2, PieceIs
  <2> QED BY <2>1, <2>3 DEF IsPiece
<1>4. ASSUME NEW k \in 1..(n - m + 1) PROVE v[k] = u[k]
  <2>1. m + k - 1 \in 1..b /\ (a + m) + k - 1 = a + (m + k - 1)
    BY <1>1
  <2>2. u[k] = t[m + k - 1]
    BY <1>2
  <2>3. v[k] = z[a + (m + k - 1)]
    BY <1>3, <2>1
  <2>4. PICK j \in 1..b : j = m + k - 1
    BY <2>1
  <2>5. z[a + j] = t[j]
    BY <1>1
  <2> QED BY <2>2, <2>3, <2>4, <2>5
<1>5. v = u
  BY <1>2, <1>3, <1>4, SeqEqual, SMTT(30)
<1> QED BY <1>1, <1>2, <1>3, <1>5

(* The first characters of both are the first text and the first of the second. *)
LEMMA PieceAcross ==
  ASSUME NEW S, NEW x \in Seq(S), NEW t \in Seq(S), NEW n \in Nat, n <= Len(t)
  PROVE  Piece(Beside(x, t), 1, Len(x) + n) = Beside(x, Piece(t, 1, n))
<1>1. PICK z \in Seq(S), a \in Nat, b \in Nat :
        /\ z = Beside(x, t) /\ a = Len(x) /\ b = Len(t) /\ Len(z) = a + b
        /\ \A i \in 1..a : z[i] = x[i]
        /\ \A j \in 1..b : z[a + j] = t[j]
  <2>1. Beside(x, t) \in Seq(S) /\ AreBeside(x, t, Beside(x, t)) /\ Len(x) \in Nat /\ Len(t) \in Nat
    BY JoinedTexts
  <2> QED BY <2>1 DEF AreBeside
<1>2. PICK u \in Seq(S) : u = Piece(t, 1, n) /\ Len(u) = n /\ \A k \in 1..n : u[k] = t[k]
  <2>1. 1 \in Nat \ {0} /\ 1 <= n + 1 /\ n - 1 + 1 = n /\ \A k \in 1..n : 1 + k - 1 = k
    OBVIOUS
  <2>2. Bounds(t, 1, n)
    BY <2>1 DEF Bounds
  <2>3. IsPiece(Piece(t, 1, n), t, 1, n, S)
    BY <2>2, PieceIs
  <2> QED BY <2>1, <2>3 DEF IsPiece
<1>3. PICK v \in Seq(S) : v = Piece(z, 1, a + n) /\ Len(v) = a + n /\ \A k \in 1..(a + n) : v[k] = z[k]
  <2>1. 1 \in Nat \ {0} /\ a + n \in Nat /\ a + n <= Len(z) /\ 1 <= (a + n) + 1 /\ (a + n) - 1 + 1 = a + n
        /\ \A k \in 1..(a + n) : 1 + k - 1 = k
    BY <1>1
  <2>2. Bounds(z, 1, a + n)
    BY <2>1 DEF Bounds
  <2>3. IsPiece(Piece(z, 1, a + n), z, 1, a + n, S)
    BY <2>2, PieceIs
  <2> QED BY <2>1, <2>3 DEF IsPiece
<1>4. PICK w \in Seq(S) : w = Beside(x, u) /\ Len(w) = a + n /\ (\A i \in 1..a : w[i] = x[i])
                          /\ \A j \in 1..n : w[a + j] = u[j]
  <2>1. Beside(x, u) \in Seq(S) /\ AreBeside(x, u, Beside(x, u))
    BY <1>2, JoinedTexts
  <2> QED BY <1>1, <1>2, <2>1, SMTT(30) DEF AreBeside
<1>5. ASSUME NEW k \in 1..(a + n) PROVE v[k] = w[k]
  <2>1. CASE k <= a
    <3>1. k \in 1..a
      BY <2>1
    <3> QED BY <1>1, <1>3, <1>4, <3>1
  <2>2. CASE ~(k <= a)
    <3>1. k - a \in 1..n /\ a + (k - a) = k /\ k - a \in 1..b
      BY <1>1, <2>2
    <3>2. w[a + (k - a)] = u[k - a] /\ z[a + (k - a)] = t[k - a] /\ u[k - a] = t[k - a]
      BY <1>1, <1>2, <1>4, <3>1
    <3> QED BY <1>3, <3>1, <3>2
  <2> QED BY <2>1, <2>2
<1>6. v = w
  BY <1>3, <1>4, <1>5, SeqEqual
<1> QED BY <1>1, <1>2, <1>3, <1>4, <1>6

Cuts(t, sub, i, S) ==
  /\ i \in 1..(Len(t) - Len(sub) + 1)
  /\ Piece(t, 1, i - 1) \in Seq(S) /\ Len(Piece(t, 1, i - 1)) = i - 1
  /\ RestOf(t, i + Len(sub)) \in Seq(S) /\ Len(RestOf(t, i + Len(sub))) = Len(t) - Len(sub) - (i - 1)
  /\ t = Put(Piece(t, 1, i - 1), sub, RestOf(t, i + Len(sub)))
  /\ Find(Piece(t, 1, i - 1), sub, 1) = 0
(* Where sub is found a text falls into what is before it, sub and the rest. *)
LEMMA FirstPlaceCuts ==
  ASSUME NEW S, NEW t \in Seq(S), NEW sub \in Seq(S), Len(sub) > 0, NEW i \in Nat, FoundAt(t, sub, 1, i)
  PROVE  Cuts(t, sub, i, S)
<1>1. PICK b \in Nat, d \in Nat : b = Len(t) /\ d = Len(sub)
  OBVIOUS
<1>2. i \in 1..(b - d + 1) /\ i \in Nat /\ i - 1 \in Nat /\ i + d \in Nat \ {0} /\ d > 0
      /\ i - 1 <= b /\ i + d <= b + 1 /\ 1 \in Nat \ {0} /\ 1 <= (i - 1) + 1 /\ (i - 1) - 1 + 1 = i - 1
      /\ b - (i + d) + 1 = b - d - (i - 1)
  BY <1>1 DEF FoundAt
<1>3. PICK u \in Seq(S) : u = Piece(t, 1, i - 1) /\ Len(u) = i - 1 /\ \A k \in 1..(i - 1) : u[k] = t[k]
  <2>1. \A k \in 1..(i - 1) : 1 + k - 1 = k
    OBVIOUS
  <2>2. Bounds(t, 1, i - 1)
    BY <1>1, <1>2 DEF Bounds
  <2>3. IsPiece(Piece(t, 1, i - 1), t, 1, i - 1, S)
    BY <2>2, PieceIs
  <2> QED BY <1>2, <2>1, <2>3 DEF IsPiece
<1>4. PICK w \in Seq(S) : w = RestOf(t, i + d) /\ Len(w) = b - d - (i - 1)
                          /\ \A k \in 1..(b - d - (i - 1)) : w[k] = t[(i + d) + k - 1]
  <2>1. Bounds(t, i + d, b)
    BY <1>1, <1>2 DEF Bounds
  <2>2. IsPiece(Piece(t, i + d, b), t, i + d, b, S)
    BY <2>1, PieceIs
  <2> QED BY <1>1, <1>2, <2>2 DEF IsPiece, RestOf
<1>5. PICK v \in Seq(S) : v = Beside(u, sub) /\ Len(v) = i - 1 + d /\ (\A k \in 1..(i - 1) : v[k] = u[k])
                          /\ \A k \in 1..d : v[(i - 1) + k] = sub[k]
  <2>1. Beside(u, sub) \in Seq(S) /\ AreBeside(u, sub, Beside(u, sub))
    BY <1>3, JoinedTexts
  <2>2. \A x \in Seq(S) : AreBeside(u, sub, x) => /\ Len(x) = i - 1 + d /\ \A k \in 1..(i - 1) : x[k] = u[k]
                                                 /\ \A k \in 1..d : x[(i - 1) + k] = sub[k]
    BY <1>1, <1>3 DEF AreBeside
  <2> QED BY <2>1, <2>2
<1>6. PICK z \in Seq(S) : z = Beside(v, w) /\ Len(z) = b /\ (\A k \in 1..(i - 1 + d) : z[k] = v[k])
                          /\ \A k \in 1..(b - d - (i - 1)) : z[(i - 1 + d) + k] = w[k]
  <2>1. Beside(v, w) \in Seq(S) /\ AreBeside(v, w, Beside(v, w))
    BY <1>4, <1>5, JoinedTexts
  <2>2. (i - 1 + d) + (b - d - (i - 1)) = b
    BY <1>2
  <2>3. Len(v) = i - 1 + d /\ Len(w) = b - d - (i - 1)
    BY <1>4, <1>5
  <2>4. \A x \in Seq(S) : AreBeside(v, w, x) => /\ Len(x) = b /\ \A k \in 1..(i - 1 + d) : x[k] = v[k]
                                               /\ \A k \in 1..(b - d - (i - 1)) : x[(i - 1 + d) + k] = w[k]
    BY <2>2, <2>3 DEF AreBeside
  <2> QED BY <2>1, <2>4
<1>7. ASSUME NEW k \in 1..b PROVE z[k] = t[k]
  <2>1. CASE k <= i - 1
    <3>1. k \in 1..(i - 1) /\ k \in 1..(i - 1 + d)
      BY <1>2, <2>1
    <3> QED BY <1>3, <1>5, <1>6, <3>1
  <2>2. CASE i <= k /\ k <= i - 1 + d
    <3>1. PICK j \in 1..d : j = k - (i - 1)
      BY <1>2, <2>2
    <3>2. k \in 1..(i - 1 + d) /\ (i - 1) + j = k /\ i + j - 1 = k
      BY <1>2, <2>2, <3>1
    <3>3. t[i + j - 1] = sub[j] /\ v[(i - 1) + j] = sub[j]
      BY <1>1, <1>5 DEF FoundAt, Occurs
    <3> QED BY <1>6, <3>2, <3>3
  <2>3. CASE i - 1 + d < k
    <3>1. PICK j \in 1..(b - d - (i - 1)) : j = k - (i - 1 + d)
      BY <1>2, <2>3
    <3>2. (i - 1 + d) + j = k /\ (i + d) + j - 1 = k
      BY <1>2, <3>1
    <3>3. z[(i - 1 + d) + j] = w[j] /\ w[j] = t[(i + d) + j - 1]
      BY <1>4, <1>6
    <3> QED BY <3>2, <3>3
  <2> QED BY <1>2, <2>1, <2>2, <2>3
<1>8. z = t
  BY <1>1, <1>6, <1>7, SeqEqual
<1>9. Find(u, sub, 1) = 0
  <2>1. ASSUME NEW j \in 1..((i - 1) - d + 1) PROVE ~Occurs(u, sub, j)
    <3>1. j \in 1..(i - 1) /\ ~Occurs(t, sub, j)
      BY <1>1, <1>2 DEF FoundAt
    <3>2. ASSUME NEW k \in 1..d PROVE u[j + k - 1] = t[j + k - 1]
      <4>1. j + k - 1 \in 1..(i - 1)
        BY <1>2
      <4> QED BY <1>3, <4>1
    <3> QED BY <1>1, <3>1, <3>2 DEF Occurs
  <2>2. NotFound(u, sub, 1)
    BY <1>1, <1>3, <2>1 DEF NotFound
  <2> QED BY <1>2, <1>3, <2>2, FindsIt
<1>10. t = Put(u, sub, w)
  BY <1>5, <1>6, <1>8, PutIs
<1> QED BY <1>1, <1>2, <1>3, <1>4, <1>9, <1>10 DEF Cuts

(* The pieces from a place on, as string_split's loop finds them. *)
SplitStep(f, s, sep, p) ==
  f[p] = IF Find(s, sep, p) = 0 THEN IF p = Len(s) + 1 THEN <<>> ELSE <<RestOf(s, p)>>
         ELSE <<Piece(s, p, Find(s, sep, p) - 1)>> \o f[Find(s, sep, p) + Len(sep)]

(* Where string_split goes on lies behind the place it was at. *)
LEMMA SplitNext ==
  ASSUME NEW S, NEW s \in Seq(S), NEW sep \in Seq(S), Len(sep) > 0, NEW p \in 1..(Len(s) + 1), Find(s, sep, p) # 0
  PROVE  /\ Find(s, sep, p) \in p..Len(s) /\ Find(s, sep, p) + Len(sep) \in (p + 1)..(Len(s) + 1)
         /\ Piece(s, p, Find(s, sep, p) - 1) \in Seq(S)
<1>1. PICK b \in Nat, d \in Nat, q \in Nat : b = Len(s) /\ d = Len(sep) /\ q = Find(s, sep, p) /\ FoundAt(s, sep, p, q)
  <2>1. p \in Nat \ {0} /\ Len(s) \in Nat /\ Len(sep) \in Nat
    OBVIOUS
  <2> QED BY <2>1, FindIs
<1>2. q \in p..(b - d + 1) /\ d > 0
  BY <1>1 DEF FoundAt
<1>3. Bounds(s, p, q - 1)
  BY <1>1, <1>2 DEF Bounds
<1>4. Piece(s, p, q - 1) \in Seq(S)
  BY <1>3, PieceIs DEF IsPiece
<1> QED BY <1>1, <1>2, <1>4

(* string_split, as the pieces from each place on: its loop ends. *)
LEMMA SplitLoop ==
  ASSUME NEW S, NEW s \in Seq(S), NEW sep \in Seq(S), Len(sep) > 0
  PROVE  \E f \in [1..(Len(s) + 1) -> Seq(Seq(S))] :
           string_split(s, sep) = f[1] /\ \A p \in 1..(Len(s) + 1) : SplitStep(f, s, sep, p)
<1> DEFINE D == 1..(Len(s) + 1)
           V == Seq(Seq(S))
           stop == {p \in D : Find(s, sep, p) = 0}
           base == [p \in stop |-> IF p = Len(s) + 1 THEN <<>> ELSE <<RestOf(s, p)>>]
           nx == [p \in D \ stop |-> Find(s, sep, p) + Len(sep)]
           F == [p \in D \ stop |-> [v \in V |-> <<Piece(s, p, Find(s, sep, p) - 1)>> \o v]]
           mu == [p \in D |-> Len(s) + 1 - p]
<1>1. base \in [stop -> V]
  <2>1. ASSUME NEW p \in stop, p # Len(s) + 1 PROVE <<RestOf(s, p)>> \in V
    <3>1. p \in D
      OBVIOUS
    <3>2. Bounds(s, p, Len(s))
      BY <2>1, <3>1 DEF Bounds
    <3>3. RestOf(s, p) \in Seq(S)
      BY <3>2, PieceIs DEF IsPiece, RestOf
    <3> QED BY <3>3
  <2>2. <<>> \in V
    OBVIOUS
  <2> QED BY <2>1, <2>2
<1>2. \A p \in D \ stop : /\ Find(s, sep, p) \in p..Len(s) /\ Find(s, sep, p) + Len(sep) \in (p + 1)..(Len(s) + 1)
                          /\ Piece(s, p, Find(s, sep, p) - 1) \in Seq(S)
  BY SplitNext
<1>3. Falls(D, stop, nx, mu)
  <2>1. ASSUME NEW p \in D \ stop PROVE nx[p] \in D /\ mu[nx[p]] < mu[p]
    <3>1. PICK q : q = Find(s, sep, p) + Len(sep)
      OBVIOUS
    <3>2. q \in (p + 1)..(Len(s) + 1) /\ Len(s) \in Nat /\ p \in Nat
      BY <1>2, <3>1
    <3>3. nx[p] = q
      BY <3>1
    <3>4. q \in D /\ p \in D
      BY <3>2
    <3>5. mu[q] = Len(s) + 1 - q /\ mu[p] = Len(s) + 1 - p
      BY <3>4
    <3> HIDE DEF nx, mu, D
    <3> QED BY <3>2, <3>3, <3>4, <3>5
  <2>2. mu \in [D -> Nat]
    OBVIOUS
  <2>3. nx = [p \in D \ stop |-> nx[p]]
    OBVIOUS
  <2> HIDE DEF nx, mu, D, stop
  <2> QED BY <2>1, <2>2, <2>3 DEF Falls
<1>4. F \in [D \ stop -> [V -> V]]
  <2>1. ASSUME NEW p \in D \ stop, NEW v \in V PROVE <<Piece(s, p, Find(s, sep, p) - 1)>> \o v \in V
    <3>1. PICK w : w = Piece(s, p, Find(s, sep, p) - 1)
      OBVIOUS
    <3>2. w \in Seq(S)
      BY <1>2, <3>1
    <3>3. <<w>> \in Seq(Seq(S))
      BY <3>2
    <3>4. <<w>> \o v \in Seq(Seq(S))
      BY <3>3, ConcatProperties
    <3> QED BY <3>1, <3>4
  <2> HIDE DEF D, stop, V
  <2> QED BY <2>1
<1>5. \A p \in D \ stop, v \in V : F[p][v] = <<Piece(s, p, Find(s, sep, p) - 1)>> \o v /\ nx[p] = Find(s, sep, p) + Len(sep)
  <2> HIDE DEF D, stop, V
  <2> QED OBVIOUS
<1>6. \A p \in stop : base[p] = IF p = Len(s) + 1 THEN <<>> ELSE <<RestOf(s, p)>>
  OBVIOUS
<1>7. \A p \in D : p \in stop <=> Find(s, sep, p) = 0
  OBVIOUS
<1>8. <<>> \in V /\ 1 \in D
  OBVIOUS
<1>9. PICK f \in [D -> V] : \A p \in D : Unfolds(f, p, stop, base, nx, F)
  <2> HIDE DEF D, stop, V, base, nx, F, mu
  <2>1. nx \in [D \ stop -> D] /\ mu \in [D -> Nat] /\ \A x \in D \ stop : mu[nx[x]] < mu[x]
    BY <1>3 DEF Falls
  <2> QED BY <1>1, <1>4, <1>8, <2>1, Recursion
<1>10. \A p \in D : SplitStep(f, s, sep, p)
  <2>1. \A p \in D \ stop : nx[p] \in D
    BY <1>3 DEF Falls
  <2> HIDE DEF D, stop, V, base, nx, F, mu
  <2> TAKE p \in D
  <2>2. CASE p \in stop
    BY <1>6, <1>7, <1>9, <2>2 DEF Unfolds, SplitStep
  <2>3. CASE p \notin stop
    <3>1. f[nx[p]] \in V
      BY <1>9, <2>1, <2>3
    <3>2. f[p] = F[p][f[nx[p]]]
      BY <1>9, <2>3 DEF Unfolds
    <3> QED BY <1>5, <1>7, <2>3, <3>1, <3>2 DEF SplitStep
  <2> QED BY <2>2, <2>3
<1> DEFINE Right(g) == g = [pos1 \in 1..(Len(s) + 1) |->
                              LET pos2 == Find(s, sep, pos1)
                              IN IF pos2 # 0 THEN <<SubSeq(s, pos1, pos2 - 1)>> \o g[pos2 + Len(sep)]
                                 ELSE IF pos1 # Len(s) + 1 THEN <<SubSeq(s, pos1, Len(s))>> ELSE <<>>]
           g0 == CHOOSE g : Right(g)
<1>11. string_split(s, sep) = g0[1]
  BY DEF string_split
<1>12. Right(f)
  BY <1>9, <1>10 DEF SplitStep, RestOf, Piece
<1>13. Right(g0)
  BY <1>12
<1>14. \A p \in D : g0[p] = IF Find(s, sep, p) # 0 THEN <<Piece(s, p, Find(s, sep, p) - 1)>> \o g0[Find(s, sep, p) + Len(sep)]
                            ELSE IF p # Len(s) + 1 THEN <<RestOf(s, p)>> ELSE <<>>
  <2> HIDE DEF g0
  <2> QED BY <1>13 DEF Piece, RestOf
<1> HIDE DEF g0, D, V, stop, base, nx, F, mu, Right
<1>15. ASSUME NEW p \in D PROVE UnfoldsIn(V, g0, p, stop, base, nx, F)
  <2>1. CASE p \in stop
    BY <1>6, <1>7, <1>14, <2>1 DEF UnfoldsIn
  <2>2. CASE p \notin stop
    <3>1. nx[p] = Find(s, sep, p) + Len(sep)
      BY <1>5, <1>8, <2>2
    <3>2. g0[p] = <<Piece(s, p, Find(s, sep, p) - 1)>> \o g0[nx[p]]
      BY <1>7, <1>14, <2>2, <3>1
    <3>3. g0[nx[p]] \in V => F[p][g0[nx[p]]] = <<Piece(s, p, Find(s, sep, p) - 1)>> \o g0[nx[p]]
      BY <1>5, <2>2
    <3> QED BY <2>2, <3>2, <3>3, Zenon DEF UnfoldsIn
  <2> QED BY <2>1, <2>2
<1>16. \A p \in D : g0[p] = f[p]
  <2>1. AllUnfold(D, V, f, stop, base, nx, F) /\ AllUnfoldIn(D, V, g0, stop, base, nx, F)
    BY <1>9, <1>15 DEF AllUnfold, AllUnfoldIn
  <2>2. Agree(D, f, g0)
    BY <1>3, <2>1, RecursionIs
  <2> QED BY <2>2 DEF Agree
<1>17. string_split(s, sep) = f[1]
  BY <1>8, <1>11, <1>16
<1> QED BY <1>9, <1>10, <1>17 DEF D, V

(* What string_replace's loop makes of a text and a place in it. *)
Edit(s, p) == [str |-> s, pos |-> p]
Edited(r, old, new) ==
  LET q == Find(r.str, old, r.pos)
  IN Edit(Put(Piece(r.str, 1, q - 1), new, RestOf(r.str, q + Len(old))), GoOnAt(q, new))
ReplaceStep(L, old, new, r) == L[r] = IF Find(r.str, old, r.pos) = 0 THEN r.str ELSE L[Edited(r, old, new)]
Behind(r) == IF r.pos <= Len(r.str) THEN Len(r.str) + 1 - r.pos ELSE 0

(* A state of string_replace's loop is a text and a place. *)
LEMMA EditsAre ==
  /\ \A r \in Edits : r.str \in Seq(STRING) /\ r.pos \in Nat \ {0} /\ r = Edit(r.str, r.pos)
  /\ \A s \in Seq(STRING), p \in Nat \ {0} : Edit(s, p) \in Edits /\ Edit(s, p).str = s /\ Edit(s, p).pos = p
BY DEF Edits, Edit

(* Each pass of it leaves less of the text behind the place. *)
LEMMA EditedIs ==
  ASSUME NEW r \in Edits, NEW old \in Seq(STRING), NEW new \in Seq(STRING), Len(old) > 0,
         Find(r.str, old, r.pos) # 0
  PROVE  Edited(r, old, new) \in Edits /\ Behind(Edited(r, old, new)) < Behind(r)
<1>1. PICK s \in Seq(STRING), p \in Nat \ {0} : r.str = s /\ r.pos = p
  BY EditsAre
<1>2. PICK b \in Nat, d \in Nat, e \in Nat, q \in Nat :
        /\ b = Len(s) /\ d = Len(old) /\ d > 0 /\ e = Len(new) /\ q = Find(s, old, p) /\ FoundAt(s, old, p, q)
  <2>1. Len(s) \in Nat /\ Len(old) \in Nat /\ Len(new) \in Nat
    OBVIOUS
  <2> QED BY <1>1, <2>1, FindIs
<1>3. q \in p..(b - d + 1)
  BY <1>2 DEF FoundAt
<1>4. Bounds(s, 1, q - 1) /\ Bounds(s, q + d, b)
  BY <1>2, <1>3 DEF Bounds
<1>5. PICK u \in Seq(STRING), w \in Seq(STRING) :
        u = Piece(s, 1, q - 1) /\ Len(u) = q - 1 /\ w = RestOf(s, q + d) /\ Len(w) = b - (q + d) + 1
  <2>1. IsPiece(Piece(s, 1, q - 1), s, 1, q - 1, STRING) /\ IsPiece(Piece(s, q + d, b), s, q + d, b, STRING)
    BY <1>4, PieceIs
  <2>2. (q - 1) - 1 + 1 = q - 1
    BY <1>2
  <2> QED BY <1>2, <2>1, <2>2 DEF IsPiece, RestOf
<1>6. PICK z \in Seq(STRING) : z = Put(u, new, w) /\ Len(z) = (q - 1) + e + (b - (q + d) + 1)
  <2>1. Put(u, new, w) \in Seq(STRING) /\ Len(Put(u, new, w)) = Len(u) + Len(new) + Len(w)
    <3>1. u \in Seq(STRING) /\ w \in Seq(STRING)
      BY <1>5
    <3>2. \A x \in Seq(STRING), y \in Seq(STRING) :
            Put(x, new, y) \in Seq(STRING) /\ Len(Put(x, new, y)) = Len(x) + Len(new) + Len(y)
      BY PutTexts
    <3> QED BY <3>1, <3>2
  <2> QED BY <1>2, <1>5, <2>1
<1>7. Edited(r, old, new) = Edit(z, q + e)
  BY <1>1, <1>2, <1>5, <1>6 DEF Edited, GoOnAt
<1>8. q + e \in Nat \ {0}
  BY <1>2, <1>3
<1>9. Edit(z, q + e) \in Edits /\ Edit(z, q + e).str = z /\ Edit(z, q + e).pos = q + e
  BY <1>8, EditsAre
<1>10. PICK y \in Edits : y = Edited(r, old, new) /\ y.str = z /\ y.pos = q + e
  BY <1>7, <1>9
<1>11. b \in Nat /\ d \in Nat /\ e \in Nat /\ q \in Nat /\ p \in Nat /\ d > 0 /\ p <= q /\ q <= b - d + 1
  BY <1>1, <1>2, <1>3
<1>12. Behind(y) < Behind(r)
  <2>1. Behind(r) = b + 1 - p
    BY <1>1, <1>2, <1>3 DEF Behind
  <2>2. PICK lz \in Nat : lz = Len(z) /\ lz = (q - 1) + e + (b - (q + d) + 1)
    BY <1>6
  <2>3. lz + 1 - (q + e) < b + 1 - p /\ 0 < b + 1 - p
    BY <1>11, <2>2
  <2>4. Behind(y) = lz + 1 - (q + e) \/ Behind(y) = 0
    BY <1>10, <2>2 DEF Behind
  <2> QED BY <2>1, <2>3, <2>4
<1> QED BY <1>10, <1>12

(* string_replace, as the results from each text and place on: its loop    *)
(* ends.                                                                   *)
LEMMA ReplaceLoop ==
  ASSUME NEW old \in Seq(STRING), NEW new \in Seq(STRING), Len(old) > 0
  PROVE  \E L \in [Edits -> Seq(STRING)] :
           /\ \A r \in Edits : ReplaceStep(L, old, new, r)
           /\ \A text \in Seq(STRING) : string_replace(old, new, text) = L[Edit(text, 1)]
<1> DEFINE D == Edits
           V == Seq(STRING)
           stop == {r \in D : Find(r.str, old, r.pos) = 0}
           base == [r \in stop |-> r.str]
           nx == [r \in D \ stop |-> Edited(r, old, new)]
           F == [r \in D \ stop |-> [v \in V |-> v]]
           mu == [r \in D |-> Behind(r)]
<1>1. base \in [stop -> V]
  BY EditsAre
<1>2. \A r \in D : Behind(r) \in Nat
  <2> TAKE r \in D
  <2>1. r.str \in Seq(STRING) /\ r.pos \in Nat
    BY EditsAre
  <2>2. PICK b \in Nat, p \in Nat : b = Len(r.str) /\ p = r.pos
    BY <2>1
  <2> QED BY <2>2 DEF Behind
<1>3. Falls(D, stop, nx, mu)
  <2>1. ASSUME NEW r \in D \ stop PROVE nx[r] \in D /\ mu[nx[r]] < mu[r]
    <3>1. PICK y \in Edits : y = Edited(r, old, new) /\ Behind(y) < Behind(r)
      BY EditedIs
    <3>2. nx[r] = y
      BY <3>1
    <3>3. mu[y] = Behind(y) /\ mu[r] = Behind(r)
      OBVIOUS
    <3> HIDE DEF nx, mu
    <3> QED BY <3>1, <3>2, <3>3
  <2>2. mu \in [D -> Nat]
    BY <1>2
  <2>3. nx = [r \in D \ stop |-> nx[r]]
    OBVIOUS
  <2> HIDE DEF nx, mu, D, stop
  <2> QED BY <2>1, <2>2, <2>3 DEF Falls
<1>4. F \in [D \ stop -> [V -> V]]
  OBVIOUS
<1>5. \A r \in D \ stop, v \in V : F[r][v] = v /\ nx[r] = Edited(r, old, new)
  <2> HIDE DEF D, stop, V
  <2> QED OBVIOUS
<1>6. \A r \in stop : base[r] = r.str
  OBVIOUS
<1>7. \A r \in D : r \in stop <=> Find(r.str, old, r.pos) = 0
  OBVIOUS
<1>8. <<>> \in V
  OBVIOUS
<1>9. PICK f \in [D -> V] : \A r \in D : Unfolds(f, r, stop, base, nx, F)
  <2> HIDE DEF D, stop, V, base, nx, F, mu
  <2>1. nx \in [D \ stop -> D] /\ mu \in [D -> Nat] /\ \A x \in D \ stop : mu[nx[x]] < mu[x]
    BY <1>3 DEF Falls
  <2> QED BY <1>1, <1>4, <1>8, <2>1, Recursion
<1>10. \A r \in D : ReplaceStep(f, old, new, r)
  <2>1. \A r \in D \ stop : nx[r] \in D
    BY <1>3 DEF Falls
  <2> HIDE DEF D, stop, V, base, nx, F, mu
  <2> TAKE r \in D
  <2>2. CASE r \in stop
    BY <1>6, <1>7, <1>9, <2>2 DEF Unfolds, ReplaceStep
  <2>3. CASE r \notin stop
    <3>1. f[nx[r]] \in V
      BY <1>9, <2>1, <2>3
    <3>2. f[r] = F[r][f[nx[r]]]
      BY <1>9, <2>3 DEF Unfolds
    <3>3. F[r][f[nx[r]]] = f[nx[r]] /\ nx[r] = Edited(r, old, new)
      BY <1>5, <2>3, <3>1
    <3> QED BY <1>7, <2>3, <3>2, <3>3 DEF ReplaceStep
  <2> QED BY <2>2, <2>3
<1> DEFINE Replaced(str, pos) == SubSeq(str, 1, pos - 1) \o new \o SubSeq(str, pos + Len(old), Len(str))
           Right(g) == g = [r \in Edits |-> LET pos == Find(r.str, old, r.pos)
                                            IN IF pos = 0 THEN r.str
                                               ELSE g[[str |-> Replaced(r.str, pos), pos |-> GoOnAt(pos, new)]]]
           g0 == CHOOSE g : Right(g)
<1>11. \A text \in Seq(STRING) : string_replace(old, new, text) = g0[Edit(text, 1)]
  BY DEF string_replace, Edit
<1>12. Right(f)
  <2>1. f = [r \in Edits |-> IF Find(r.str, old, r.pos) = 0 THEN r.str ELSE f[Edited(r, old, new)]]
    <3> HIDE DEF Right
    <3> QED BY <1>9, <1>10 DEF ReplaceStep
  <2> QED BY <2>1 DEF Edited, Edit, RestOf, Piece, Put
<1>13. Right(g0)
  BY <1>12
<1>14. \A r \in D : g0[r] = IF Find(r.str, old, r.pos) = 0 THEN r.str ELSE g0[Edited(r, old, new)]
  <2> HIDE DEF g0
  <2> QED BY <1>13 DEF Edited, Edit, RestOf, Piece, Put
<1> HIDE DEF g0, D, V, stop, base, nx, F, mu, Right
<1>15. ASSUME NEW r \in D PROVE UnfoldsIn(V, g0, r, stop, base, nx, F)
  <2>1. CASE r \in stop
    BY <1>6, <1>7, <1>14, <2>1 DEF UnfoldsIn
  <2>2. CASE r \notin stop
    <3>1. nx[r] = Edited(r, old, new)
      BY <1>5, <1>8, <2>2
    <3>2. g0[r] = g0[nx[r]]
      BY <1>7, <1>14, <2>2, <3>1
    <3>3. g0[nx[r]] \in V => F[r][g0[nx[r]]] = g0[nx[r]]
      BY <1>5, <2>2
    <3> QED BY <2>2, <3>2, <3>3, Zenon DEF UnfoldsIn
  <2> QED BY <2>1, <2>2
<1>16. \A r \in D : g0[r] = f[r]
  <2>1. AllUnfold(D, V, f, stop, base, nx, F) /\ AllUnfoldIn(D, V, g0, stop, base, nx, F)
    BY <1>9, <1>15 DEF AllUnfold, AllUnfoldIn
  <2>2. Agree(D, f, g0)
    BY <1>3, <2>1, RecursionIs
  <2> QED BY <2>2 DEF Agree
<1>17. \A text \in Seq(STRING) : string_replace(old, new, text) = f[Edit(text, 1)]
  <2> TAKE text \in Seq(STRING)
  <2>1. Edit(text, 1) \in D
    BY EditsAre DEF D
  <2> QED BY <1>11, <1>16, <2>1
<1> QED BY <1>9, <1>10, <1>17 DEF D, V

(* A sequence of one piece. *)
LEMMA OnePiece ==
  ASSUME NEW S, NEW t \in S
  PROVE  <<t>> \in Seq(S) /\ Len(<<t>>) = 1 /\ <<t>>[1] = t
OBVIOUS

(* The text from a place on, behind the text in front of it. *)
LEMMA RestIs ==
  ASSUME NEW S, NEW s \in Seq(S), NEW p \in 1..(Len(s) + 1)
  PROVE  \E x \in Seq(S) : /\ RestOf(s, p) \in Seq(S) /\ Len(RestOf(s, p)) = Len(s) + 1 - p
                           /\ Len(x) = p - 1 /\ s = Beside(x, RestOf(s, p))
<1>1. PICK b \in Nat : b = Len(s) /\ p \in Nat /\ p >= 1 /\ p <= b + 1
  OBVIOUS
<1>2. Bounds(s, 1, p - 1) /\ Bounds(s, p, b)
  BY <1>1 DEF Bounds
<1>3. IsPiece(Piece(s, 1, p - 1), s, 1, p - 1, S) /\ IsPiece(Piece(s, p, b), s, p, b, S)
  BY <1>2, PieceIs
<1>4. PICK x \in Seq(S), t \in Seq(S) : x = Piece(s, 1, p - 1) /\ t = RestOf(s, p) /\ Len(x) = p - 1 /\ Len(t) = b + 1 - p
                                        /\ (\A k \in 1..(p - 1) : x[k] = s[k]) /\ \A k \in 1..(b + 1 - p) : t[k] = s[p + k - 1]
  <2>1. (p - 1) - 1 + 1 = p - 1 /\ b - p + 1 = b + 1 - p /\ \A k \in 1..(p - 1) : 1 + k - 1 = k
    BY <1>1
  <2> QED BY <1>1, <1>3, <2>1 DEF IsPiece, RestOf
<1>5. PICK z \in Seq(S) : z = Beside(x, t) /\ Len(z) = b /\ (\A k \in 1..(p - 1) : z[k] = x[k])
                          /\ \A k \in 1..(b + 1 - p) : z[(p - 1) + k] = t[k]
  <2>1. Beside(x, t) \in Seq(S) /\ AreBeside(x, t, Beside(x, t))
    BY <1>4, JoinedTexts
  <2>2. (p - 1) + (b + 1 - p) = b
    BY <1>1
  <2>3. PICK z \in Seq(S) : z = Beside(x, t) /\ AreBeside(x, t, z)
    BY <2>1
  <2>4. Len(z) = b /\ (\A k \in 1..(p - 1) : z[k] = x[k]) /\ \A k \in 1..(b + 1 - p) : z[(p - 1) + k] = t[k]
    BY <1>4, <2>2, <2>3 DEF AreBeside
  <2> QED BY <2>3, <2>4
<1>6. ASSUME NEW k \in 1..b PROVE z[k] = s[k]
  <2>1. CASE k <= p - 1
    BY <1>1, <1>4, <1>5, <2>1
  <2>2. CASE ~(k <= p - 1)
    <3>1. PICK j \in 1..(b + 1 - p) : (p - 1) + j = k /\ p + j - 1 = k
      <4>1. k - (p - 1) \in 1..(b + 1 - p) /\ (p - 1) + (k - (p - 1)) = k /\ p + (k - (p - 1)) - 1 = k
        BY <1>1, <2>2
      <4> QED BY <4>1
    <3>2. z[(p - 1) + j] = t[j] /\ t[j] = s[p + j - 1]
      BY <1>4, <1>5
    <3> QED BY <3>1, <3>2
  <2> QED BY <2>1, <2>2
<1>7. z = s
  BY <1>1, <1>5, <1>6, SeqEqual
<1> QED BY <1>1, <1>4, <1>5, <1>7

GoesOn(x, t, old, new, L) ==
  \E a \in Seq(STRING), u \in Seq(STRING), y \in Seq(STRING) :
    /\ a = Piece(t, 1, Find(t, old, 1) - 1) /\ u = RestOf(t, Find(t, old, 1) + Len(old))
    /\ y = Beside(Beside(x, a), new)
    /\ L[Edit(Beside(x, t), Len(x) + 1)] = L[Edit(Beside(y, u), Len(y) + 1)]
(* One pass of string_replace behind any text. *)
LEMMA ReplacePass ==
  ASSUME NEW x \in Seq(STRING), NEW t \in Seq(STRING), NEW old \in Seq(STRING), NEW new \in Seq(STRING), Len(old) > 0,
         NEW L, ReplaceStep(L, old, new, Edit(Beside(x, t), Len(x) + 1))
  PROVE  /\ Find(t, old, 1) = 0 => L[Edit(Beside(x, t), Len(x) + 1)] = Beside(x, t)
         /\ Find(t, old, 1) # 0 => GoesOn(x, t, old, new, L)
<1> USE DEF GoesOn
<1>1. PICK z \in Seq(STRING), n \in Nat, b \in Nat, d \in Nat, e \in Nat :
        z = Beside(x, t) /\ n = Len(x) /\ b = Len(t) /\ d = Len(old) /\ e = Len(new) /\ Len(z) = n + b
  <2>1. Beside(x, t) \in Seq(STRING) /\ AreBeside(x, t, Beside(x, t)) /\ Len(x) \in Nat /\ Len(t) \in Nat
        /\ Len(old) \in Nat /\ Len(new) \in Nat
    BY JoinedTexts
  <2> QED BY <2>1 DEF AreBeside
<1>2. PICK r : r = Edit(z, n + 1) /\ r.str = z /\ r.pos = n + 1
  <2>1. n + 1 \in Nat \ {0}
    OBVIOUS
  <2>2. z \in Seq(STRING)
    BY <1>1
  <2>3. Edit(z, n + 1).str = z /\ Edit(z, n + 1).pos = n + 1
    BY <2>1, <2>2, EditsAre
  <2> QED BY <2>3
<1>3. L[r] = IF Find(z, old, n + 1) = 0 THEN z ELSE L[Edited(r, old, new)]
  BY <1>1, <1>2 DEF ReplaceStep
<1>4. CASE Find(t, old, 1) = 0
  <2>1. Find(z, old, n + 1) = 0
    BY <1>1, <1>4, FindBehind
  <2> QED BY <1>1, <1>2, <1>3, <1>4, <2>1
<1>5. CASE Find(t, old, 1) # 0
  <2>1. PICK i \in Nat : i = Find(t, old, 1) /\ FoundAt(t, old, 1, i)
    <3>1. 1 \in Nat \ {0}
      OBVIOUS
    <3> QED BY <1>5, <3>1, FindIs
  <2>2. Find(z, old, n + 1) = n + i
    BY <1>1, <1>5, <2>1, FindBehind
  <2>3. i \in 1..(b - d + 1) /\ d > 0 /\ n \in Nat /\ b \in Nat /\ d \in Nat /\ e \in Nat /\ i \in Nat
    BY <1>1, <2>1 DEF FoundAt
  <2>4. PICK a \in Seq(STRING), u \in Seq(STRING) : a = Piece(t, 1, i - 1) /\ Len(a) = i - 1 /\ u = RestOf(t, i + d)
    <3>1. Cuts(t, old, i, STRING)
      BY <2>1, FirstPlaceCuts
    <3> QED BY <1>1, <3>1 DEF Cuts
  <2>5. Piece(z, 1, n + (i - 1)) = Beside(x, a)
    <3>1. i - 1 \in Nat /\ i - 1 <= Len(t)
      BY <1>1, <2>3
    <3> QED BY <1>1, <2>4, <3>1, PieceAcross, SMTT(30)
  <2>6. Piece(z, n + (i + d), n + b) = u
    <3>1. i + d \in Nat \ {0} /\ b \in Nat /\ b <= Len(t) /\ i + d <= b + 1
      BY <1>1, <2>3
    <3>2. Piece(Beside(x, t), Len(x) + (i + d), Len(x) + b) = Piece(t, i + d, b)
      BY <3>1, PieceBehind
    <3> QED BY <1>1, <2>4, <3>2 DEF RestOf
  <2>7. PICK y \in Seq(STRING) : y = Beside(Beside(x, a), new) /\ Len(y) = n + (i - 1) + e
    <3>1. \A v, w \in Seq(STRING) : Beside(v, w) \in Seq(STRING) /\ Len(Beside(v, w)) = Len(v) + Len(w)
      BY JoinedTexts DEF AreBeside
    <3>2. a \in Seq(STRING) /\ Len(a) = i - 1
      BY <2>4
    <3>3. Beside(x, a) \in Seq(STRING) /\ Len(Beside(x, a)) = n + (i - 1)
      <4>1. x \in Seq(STRING) /\ Len(x) = n
        BY <1>1
      <4>2. Beside(x, a) \in Seq(STRING) /\ AreBeside(x, a, Beside(x, a))
        BY <3>2, JoinedTexts
      <4>3. Len(Beside(x, a)) = Len(x) + Len(a)
        BY <4>2 DEF AreBeside
      <4> QED BY <3>2, <4>1, <4>2, <4>3
    <3>4. Beside(Beside(x, a), new) \in Seq(STRING) /\ Len(Beside(Beside(x, a), new)) = n + (i - 1) + e
      BY <1>1, <3>1, <3>3, ZenonT(30)
    <3> QED BY <3>4
  <2>8. Edited(r, old, new) = Edit(Beside(y, u), Len(y) + 1)
    <3>1. (n + i) - 1 = n + (i - 1) /\ (n + i) + d = n + (i + d) /\ n + (i - 1) + e + 1 = (n + i) + e
      BY <2>3
    <3>2. Edited(r, old, new) = Edit(Put(Piece(z, 1, (n + i) - 1), new, Piece(z, (n + i) + d, n + b)), (n + i) + e)
      BY <1>1, <1>2, <2>2 DEF Edited, RestOf, GoOnAt
    <3>3. Put(Piece(z, 1, (n + i) - 1), new, Piece(z, (n + i) + d, n + b)) = Beside(y, u)
      BY <2>5, <2>6, <2>7, <3>1, PutIs
    <3> QED BY <2>7, <3>1, <3>2, <3>3
  <2>9. n + i # 0
    BY <2>3
  <2>10. L[r] = L[Edit(Beside(y, u), Len(y) + 1)]
    BY <1>3, <2>2, <2>8, <2>9
  <2>11. a = Piece(t, 1, Find(t, old, 1) - 1)
    BY <2>1, <2>4
  <2>12. u = RestOf(t, Find(t, old, 1) + Len(old))
    BY <1>1, <2>1, <2>4
  <2>13. L[Edit(Beside(x, t), Len(x) + 1)] = L[Edit(Beside(y, u), Len(y) + 1)]
    BY <1>1, <1>2, <2>10, Zenon
  <2>14. GoesOn(x, t, old, new, L)
    BY <2>4, <2>7, <2>11, <2>12, <2>13, Zenon
  <2> QED BY <1>5, <2>14
<1> QED BY <1>4, <1>5

(* What string_split's pieces from a place on are: joined again with the   *)
(* separator they are the rest of the text, joined with the new value they *)
(* are what string_replace makes of it, and the separator is in none.      *)
AreThePieces(P, s, p, f, L, old, new) ==
  /\ P \in Seq(Seq(STRING)) /\ Len(P) > 0
  /\ Joined(P, old) = RestOf(s, p)
  /\ \A x \in Seq(STRING) : L[Edit(Beside(x, RestOf(s, p)), Len(x) + 1)] = Beside(x, Joined(P, new))
  /\ \A i \in 1..Len(P) : Find(P[i], old, 1) = 0
  /\ f[p] = P \/ P = Append(f[p], <<>>)

(* Where the separator is not found any more, one piece is left. *)
LEMMA LastPieces ==
  ASSUME NEW s \in Seq(STRING), NEW old \in Seq(STRING), NEW new \in Seq(STRING), Len(old) > 0,
         NEW f, NEW L, \A r \in Edits : ReplaceStep(L, old, new, r),
         NEW p \in 1..(Len(s) + 1), SplitStep(f, s, old, p), Find(RestOf(s, p), old, 1) = 0
  PROVE  \E P : AreThePieces(P, s, p, f, L, old, new)
<1>1. PICK x0 \in Seq(STRING) : /\ RestOf(s, p) \in Seq(STRING) /\ Len(RestOf(s, p)) = Len(s) + 1 - p
                                /\ Len(x0) = p - 1 /\ s = Beside(x0, RestOf(s, p))
  BY RestIs
<1>2. PICK t \in Seq(STRING) : t = RestOf(s, p) /\ Len(t) = Len(s) + 1 - p
  BY <1>1
<1>3. PICK P \in Seq(Seq(STRING)) : P = <<t>> /\ Len(P) = 1 /\ P[1] = t
  BY <1>2, OnePiece
<1>9. Find(t, old, 1) = 0
  BY <1>2
<1>4. Joined(P, old) = t /\ Joined(P, new) = t
  BY <1>3, JoinedIs
<1>5. ASSUME NEW x \in Seq(STRING) PROVE L[Edit(Beside(x, t), Len(x) + 1)] = Beside(x, t)
  <2>1. Beside(x, t) \in Seq(STRING) /\ Len(x) + 1 \in Nat \ {0}
    BY <1>2, JoinedTexts
  <2>2. ReplaceStep(L, old, new, Edit(Beside(x, t), Len(x) + 1))
    BY <2>1, EditsAre
  <2> QED BY <1>2, <1>9, <2>2, ReplacePass
<1>6. Find(s, old, p) = 0
  <2>1. Len(x0) + 1 = p
    BY <1>1
  <2> QED BY <1>1, <1>2, <2>1, FindBehind
<1>7. f[p] = IF p = Len(s) + 1 THEN <<>> ELSE <<t>>
  BY <1>2, <1>6 DEF SplitStep
<1>8. f[p] = P \/ P = Append(f[p], <<>>)
  <2>1. CASE p = Len(s) + 1
    <3>1. Len(t) = 0
      BY <1>2, <2>1
    <3>2. t = <<>>
      BY <3>1
    <3>3. f[p] = <<>>
      BY <1>7, <2>1
    <3>4. Append(<<>>, t) = <<t>>
      OBVIOUS
    <3> QED BY <1>3, <3>2, <3>3, <3>4
  <2>2. CASE p # Len(s) + 1
    BY <1>3, <1>7, <2>2
  <2> QED BY <2>1, <2>2
<1>10. \A i \in 1..Len(P) : Find(P[i], old, 1) = 0
  BY <1>3, <1>9
<1>11. \A x \in Seq(STRING) : L[Edit(Beside(x, RestOf(s, p)), Len(x) + 1)] = Beside(x, Joined(P, new))
  BY <1>2, <1>4, <1>5
<1>12. P \in Seq(Seq(STRING)) /\ Len(P) > 0 /\ Joined(P, old) = RestOf(s, p)
  BY <1>2, <1>3, <1>4
<1> QED BY <1>8, <1>10, <1>11, <1>12 DEF AreThePieces

InFront(a, P) == <<a>> \o P
IsInFront(Q, a, P, S) ==
  Q \in Seq(S) /\ Len(Q) = Len(P) + 1 /\ Q[1] = a /\ \A i \in 1..Len(P) : Q[i + 1] = P[i]
(* A piece put in front of others. *)
LEMMA InFrontIs ==
  ASSUME NEW S, NEW a \in S, NEW P \in Seq(S)
  PROVE  IsInFront(InFront(a, P), a, P, S)
<1>1. <<a>> \in Seq(S) /\ Len(<<a>>) = 1 /\ <<a>>[1] = a
  BY OnePiece
<1>2. PICK q \in Seq(S) : q = <<a>> /\ Len(q) = 1 /\ q[1] = a
  BY <1>1
<1>3. Beside(q, P) \in Seq(S) /\ AreBeside(q, P, Beside(q, P))
  BY <1>2, JoinedTexts
<1>4. PICK z \in Seq(S) : z = InFront(a, P) /\ z = Beside(q, P) /\ AreBeside(q, P, z)
  BY <1>2, <1>3 DEF InFront, Beside
<1>5. PICK n \in Nat : n = Len(P)
  OBVIOUS
<1>6. Len(z) = 1 + n /\ (\A i \in 1..1 : z[i] = q[i]) /\ \A j \in 1..n : z[1 + j] = P[j]
  BY <1>2, <1>4, <1>5 DEF AreBeside
<1>7. z[1] = a /\ Len(z) = n + 1
  BY <1>2, <1>5, <1>6
<1>8. \A i \in 1..n : z[i + 1] = P[i]
  <2> TAKE i \in 1..n
  <2>1. 1 + i = i + 1
    OBVIOUS
  <2> QED BY <1>6, <2>1
<1> QED BY <1>4, <1>5, <1>7, <1>8 DEF IsInFront

(* It does not matter whether a piece is put in front or one is appended   *)
(* first.                                                                  *)
LEMMA InFrontAppended ==
  ASSUME NEW S, NEW a \in S, NEW P \in Seq(S), NEW b \in S
  PROVE  InFront(a, Append(P, b)) = Append(InFront(a, P), b)
<1>1. P \o <<b>> = Append(P, b) /\ <<b>> \in Seq(S) /\ <<a>> \in Seq(S)
  BY AppendIsConcat
<1>2. (<<a>> \o P) \o <<b>> = <<a>> \o (P \o <<b>>)
  BY <1>1, ConcatAssociative
<1>3. InFront(a, P) \in Seq(S)
  BY InFrontIs DEF IsInFront
<1>4. Append(InFront(a, P), b) = InFront(a, P) \o <<b>>
  BY <1>3, AppendIsConcat
<1> QED BY <1>1, <1>2, <1>4 DEF InFront

(* A piece put in front of others, joined with them. *)
LEMMA JoinedInFront ==
  ASSUME NEW S, NEW P \in Seq(Seq(S)), Len(P) > 0, NEW a \in Seq(S), NEW sep \in Seq(S),
         NEW Q, IsInFront(Q, a, P, Seq(S))
  PROVE  Joined(Q, sep) = Put(a, sep, Joined(P, sep))
BY JoinedFirst, SMTT(30) DEF IsInFront

ReplaceSteps(L, old, new) == \A r \in Edits : ReplaceStep(L, old, new, r)
PiecesFrom(s, p, f, L, old, new) == \E P : AreThePieces(P, s, p, f, L, old, new)

(* Where the separator is found, there is one piece more than behind it. *)
LEMMA MorePieces ==
  ASSUME NEW s \in Seq(STRING), NEW old \in Seq(STRING), NEW new \in Seq(STRING), Len(old) > 0,
         NEW f, NEW L, ReplaceSteps(L, old, new),
         NEW p \in 1..(Len(s) + 1), SplitStep(f, s, old, p), Find(RestOf(s, p), old, 1) # 0,
         NEW p2, p2 = Find(s, old, p) + Len(old), f[p2] \in Seq(Seq(STRING)),
         PiecesFrom(s, p2, f, L, old, new)
  PROVE  PiecesFrom(s, p, f, L, old, new)
<1>0. PICK P2 : AreThePieces(P2, s, p2, f, L, old, new)
  BY DEF PiecesFrom
<1>1. PICK x0 \in Seq(STRING) : /\ RestOf(s, p) \in Seq(STRING) /\ Len(RestOf(s, p)) = Len(s) + 1 - p
                                /\ Len(x0) = p - 1 /\ s = Beside(x0, RestOf(s, p))
  BY RestIs
<1>2. PICK t \in Seq(STRING), b \in Nat, d \in Nat, n \in Nat :
        /\ t = RestOf(s, p) /\ b = Len(t) /\ d = Len(old) /\ d > 0 /\ n = Len(x0) /\ s = Beside(x0, t)
        /\ n + 1 = p /\ n + b = Len(s)
  <2>1. Len(s) \in Nat /\ Len(old) \in Nat
    OBVIOUS
  <2> QED BY <1>1, <2>1
<1>3. PICK i \in Nat : i = Find(t, old, 1) /\ i # 0 /\ FoundAt(t, old, 1, i)
  <2>1. 1 \in Nat \ {0}
    OBVIOUS
  <2> QED BY <1>2, <2>1, FindIs
<1>4. Cuts(t, old, i, STRING)
  BY <1>2, <1>3, FirstPlaceCuts
<1>5. i \in 1..(b - d + 1)
  BY <1>2, <1>4 DEF Cuts
<1>6. PICK a \in Seq(STRING), u \in Seq(STRING) :
        a = Piece(t, 1, i - 1) /\ u = RestOf(t, i + d) /\ t = Put(a, old, u) /\ Find(a, old, 1) = 0
  BY <1>2, <1>4 DEF Cuts
<1>7. Find(s, old, p) = n + i
  <2>1. x0 \in Seq(STRING) /\ t \in Seq(STRING)
    BY <1>1, <1>2
  <2>2. Find(t, old, 1) # 0
    BY <1>3
  <2>3. Find(Beside(x0, t), old, Len(x0) + 1) = Len(x0) + Find(t, old, 1)
    BY <2>1, <2>2, FindBehind
  <2> QED BY <1>2, <1>3, <2>3
<1>8. p2 = n + (i + d) /\ p2 \in (p + 1)..(Len(s) + 1)
  BY <1>2, <1>5, <1>7, SMTT(30)
<1>9. Piece(s, p, Find(s, old, p) - 1) = a
  <2>1. 1 \in Nat \ {0} /\ i - 1 \in Nat /\ i - 1 <= Len(t) /\ 1 <= (i - 1) + 1 /\ (n + i) - 1 = n + (i - 1)
    BY <1>2, <1>5
  <2>2. Piece(Beside(x0, t), Len(x0) + 1, Len(x0) + (i - 1)) = Piece(t, 1, i - 1)
    <3>1. x0 \in Seq(STRING) /\ t \in Seq(STRING)
      BY <1>1, <1>2
    <3> QED BY <2>1, <3>1, PieceBehind, SMTT(30)
  <2> QED BY <1>2, <1>6, <1>7, <2>1, <2>2
<1>10. RestOf(s, p2) = u
  <2>1. i + d \in Nat \ {0} /\ b \in Nat /\ b <= Len(t) /\ i + d <= b + 1
    BY <1>2, <1>5, SMTT(30)
  <2>2. Piece(Beside(x0, t), Len(x0) + (i + d), Len(x0) + b) = Piece(t, i + d, b)
    <3>1. x0 \in Seq(STRING) /\ t \in Seq(STRING)
      BY <1>1, <1>2
    <3> QED BY <2>1, <3>1, PieceBehind, SMTT(30)
  <2> QED BY <1>2, <1>6, <1>8, <2>2 DEF RestOf
<1>11. P2 \in Seq(Seq(STRING)) /\ Len(P2) > 0 /\ Joined(P2, old) = u
  BY <1>0, <1>10 DEF AreThePieces
<1>12. PICK P \in Seq(Seq(STRING)) : P = InFront(a, P2) /\ Len(P) = Len(P2) + 1 /\ P[1] = a
                                     /\ \A j \in 1..Len(P2) : P[j + 1] = P2[j]
  <2>1. a \in Seq(STRING) /\ P2 \in Seq(Seq(STRING))
    BY <1>6, <1>11
  <2>2. IsInFront(InFront(a, P2), a, P2, Seq(STRING))
    BY <2>1, InFrontIs
  <2> QED BY <2>2 DEF IsInFront
<1>13. Joined(P, old) = Put(a, old, Joined(P2, old)) /\ Joined(P, new) = Put(a, new, Joined(P2, new))
  <2>1. \A sep \in Seq(STRING) : Joined(P, sep) = Put(a, sep, Joined(P2, sep))
    <3>1. a \in Seq(STRING) /\ P2 \in Seq(Seq(STRING)) /\ P \in Seq(Seq(STRING)) /\ Len(P2) > 0
      BY <1>6, <1>11, <1>12
    <3>2. IsInFront(P, a, P2, Seq(STRING))
      BY <1>12 DEF IsInFront
    <3> QED BY <3>1, <3>2, JoinedInFront
  <2> QED BY <2>1
<1>14. Joined(P, old) = RestOf(s, p)
  BY <1>2, <1>6, <1>11, <1>13
<1>15. ASSUME NEW x \in Seq(STRING) PROVE L[Edit(Beside(x, t), Len(x) + 1)] = Beside(x, Joined(P, new))
  <2>1. Beside(x, t) \in Seq(STRING) /\ Len(x) + 1 \in Nat \ {0}
    BY <1>2, JoinedTexts, SMTT(30)
  <2>2. ReplaceStep(L, old, new, Edit(Beside(x, t), Len(x) + 1))
    BY <2>1, EditsAre DEF ReplaceSteps
  <2>3. GoesOn(x, t, old, new, L)
    BY <1>2, <1>3, <2>2, ReplacePass
  <2>4. PICK y \in Seq(STRING) : /\ y = Beside(Beside(x, a), new)
                                 /\ L[Edit(Beside(x, t), Len(x) + 1)] = L[Edit(Beside(y, u), Len(y) + 1)]
    BY <1>2, <1>3, <1>6, <2>3 DEF GoesOn
  <2>5. PICK j \in Seq(STRING) : j = Joined(P2, new)
    BY <1>11, JoinedIs
  <2>6. L[Edit(Beside(y, u), Len(y) + 1)] = Beside(y, j)
    BY <1>0, <1>10, <2>4, <2>5 DEF AreThePieces
  <2>7. Beside(y, j) = Beside(x, Put(a, new, j))
    <3>1. a \in Seq(STRING) /\ Beside(a, new) \in Seq(STRING) /\ j \in Seq(STRING)
      BY <1>6, <2>5, JoinedTexts
    <3>2. Beside(Beside(x, a), new) = Beside(x, Beside(a, new))
      BY <3>1, BesideAgain, SMTT(30)
    <3>3. Beside(Beside(x, Beside(a, new)), j) = Beside(x, Beside(Beside(a, new), j))
      BY <3>1, BesideAgain, SMTT(30)
    <3> QED BY <2>4, <3>2, <3>3, PutIs
  <2> QED BY <1>13, <2>4, <2>5, <2>6, <2>7
<1>16. \A j \in 1..Len(P) : Find(P[j], old, 1) = 0
  <2> TAKE j \in 1..Len(P)
  <2>1. CASE j = 1
    BY <1>6, <1>12, <2>1
  <2>2. CASE j # 1
    <3>1. j - 1 \in 1..Len(P2) /\ (j - 1) + 1 = j
      BY <1>11, <1>12, <2>2
    <3>2. P[(j - 1) + 1] = P2[j - 1]
      BY <1>12, <3>1
    <3>3. Find(P2[j - 1], old, 1) = 0
      BY <1>0, <3>1 DEF AreThePieces
    <3> QED BY <3>1, <3>2, <3>3
  <2> QED BY <2>1, <2>2
<1>17. f[p] = P \/ P = Append(f[p], <<>>)
  <2>1. f[p] = InFront(a, f[p2])
    <3>1. n + i # 0 /\ Find(s, old, p) = n + i
      BY <1>2, <1>5, <1>7
    <3>2. f[p] = <<Piece(s, p, Find(s, old, p) - 1)>> \o f[Find(s, old, p) + Len(old)]
      BY <3>1 DEF SplitStep
    <3> QED BY <1>9, <3>2, Zenon DEF InFront
  <2>2. CASE f[p2] = P2
    BY <1>12, <2>1, <2>2
  <2>3. CASE P2 = Append(f[p2], <<>>)
    <3>1. <<>> \in Seq(STRING) /\ a \in Seq(STRING)
      BY <1>6
    <3>2. InFront(a, Append(f[p2], <<>>)) = Append(InFront(a, f[p2]), <<>>)
      <4>1. PICK S, v : S = Seq(STRING) /\ v = f[p2]
        OBVIOUS
      <4>2. <<>> \in S /\ a \in S /\ v \in Seq(S)
        BY <3>1, <4>1
      <4>3. InFront(a, Append(v, <<>>)) = Append(InFront(a, v), <<>>)
        BY <4>2, InFrontAppended, SMTT(30)
      <4> QED BY <4>1, <4>3
    <3> QED BY <1>12, <2>1, <2>3, <3>2
  <2> QED BY <1>0, <2>2, <2>3 DEF AreThePieces
<1>18. \A x \in Seq(STRING) : L[Edit(Beside(x, RestOf(s, p)), Len(x) + 1)] = Beside(x, Joined(P, new))
  BY <1>2, <1>15
<1>19. P \in Seq(Seq(STRING)) /\ Len(P) > 0
  BY <1>11, <1>12
<1>20. AreThePieces(P, s, p, f, L, old, new)
  BY <1>14, <1>16, <1>17, <1>18, <1>19 DEF AreThePieces
<1> QED BY <1>20 DEF PiecesFrom

(* The pieces from the beginning of a text are such pieces. *)
LEMMA PiecesFound ==
  ASSUME NEW s \in Seq(STRING), NEW old \in Seq(STRING), NEW new \in Seq(STRING), Len(old) > 0,
         NEW f \in [1..(Len(s) + 1) -> Seq(Seq(STRING))], \A p \in 1..(Len(s) + 1) : SplitStep(f, s, old, p),
         NEW L, \A r \in Edits : ReplaceStep(L, old, new, r)
  PROVE  \E P : AreThePieces(P, s, 1, f, L, old, new)
<1> DEFINE D == 1..(Len(s) + 1)
           Found(p) == PiecesFrom(s, p, f, L, old, new)
           T == {k \in Nat : \A p \in D : Len(s) + 1 - p < k => Found(p)}
<1>0. Len(s) \in Nat
  OBVIOUS
<1>1. 0 \in T
  BY <1>0
<1>2. ASSUME NEW k \in Nat, k \in T, NEW p \in D, Len(s) + 1 - p < k + 1 PROVE Found(p)
  <2>1. CASE Find(RestOf(s, p), old, 1) = 0
    BY <2>1, LastPieces DEF PiecesFrom
  <2>2. CASE Find(RestOf(s, p), old, 1) # 0
    <3>1. PICK x0 \in Seq(STRING) : /\ RestOf(s, p) \in Seq(STRING) /\ Len(RestOf(s, p)) = Len(s) + 1 - p
                                    /\ Len(x0) = p - 1 /\ s = Beside(x0, RestOf(s, p))
      BY RestIs
    <3>2. Find(s, old, p) # 0
      <4>1. PICK t \in Seq(STRING) : t = RestOf(s, p) /\ s = Beside(x0, t) /\ Len(x0) + 1 = p
        BY <3>1
      <4>2. x0 \in Seq(STRING) /\ t \in Seq(STRING) /\ Find(t, old, 1) # 0
        BY <2>2, <3>1, <4>1
      <4>3. Find(Beside(x0, t), old, Len(x0) + 1) = Len(x0) + Find(t, old, 1)
        BY <4>2, FindBehind
      <4>4. Find(t, old, 1) \in Nat /\ Len(x0) \in Nat
        <5>1. 1 \in Nat \ {0}
          OBVIOUS
        <5> QED BY <4>2, <5>1, FindIs
      <4> QED BY <4>1, <4>2, <4>3, <4>4
    <3>3. PICK p2 : p2 = Find(s, old, p) + Len(old)
      OBVIOUS
    <3>4. p2 \in (p + 1)..(Len(s) + 1)
      BY <3>2, <3>3, SplitNext
    <3>5. p2 \in D /\ Len(s) + 1 - p2 < k
      BY <1>0, <1>2, <3>4
    <3>6. PiecesFrom(s, p2, f, L, old, new)
      BY <1>2, <3>5
    <3>7. f[p2] \in Seq(Seq(STRING))
      BY <3>5
    <3>8. SplitStep(f, s, old, p)
      OBVIOUS
    <3>9. ReplaceSteps(L, old, new)
      BY DEF ReplaceSteps
    <3>10. PiecesFrom(s, p, f, L, old, new)
      BY <2>2, <3>3, <3>6, <3>7, <3>8, <3>9, MorePieces
    <3> QED BY <3>10
  <2> QED BY <2>1, <2>2
<1>3. \A k \in Nat : k \in T => k + 1 \in T
  <2> HIDE DEF Found
  <2> QED BY <1>2, SMTT(30)
<1>4. Len(s) + 1 \in T
  <2> HIDE DEF T
  <2> QED BY <1>0, <1>1, <1>3, Induction
<1> QED BY <1>0, <1>4 DEF PiecesFrom

(* string_split's pieces put together with another separator are what      *)
(* string_replace makes of a text, and no piece holds the separator; the   *)
(* pieces joined again are the text.                                       *)
THEOREM PiecesReplaced ==
  ASSUME NEW s \in Seq(STRING), NEW old \in Seq(STRING), NEW new \in Seq(STRING), old # <<>>
  PROVE  ReplacesEveryPlace(s, old, new)
<1>1. Len(old) > 0
  OBVIOUS
<1>2. PICK f \in [1..(Len(s) + 1) -> Seq(Seq(STRING))] :
        string_split(s, old) = f[1] /\ \A p \in 1..(Len(s) + 1) : SplitStep(f, s, old, p)
  BY <1>1, SplitLoop
<1>3. PICK L : /\ \A r \in Edits : ReplaceStep(L, old, new, r)
               /\ \A text \in Seq(STRING) : string_replace(old, new, text) = L[Edit(text, 1)]
  BY <1>1, ReplaceLoop
<1>4. PICK P : AreThePieces(P, s, 1, f, L, old, new)
  BY <1>1, <1>2, <1>3, PiecesFound
<1>5. RestOf(s, 1) = s
  BY SubSeqFull DEF RestOf, Piece
<1>6. PICK v \in Seq(Seq(STRING)) : v = string_split(s, old) /\ v = f[1]
  <2>1. 1 \in 1..(Len(s) + 1)
    OBVIOUS
  <2> QED BY <1>2, <2>1
<1>7. /\ P \in Seq(Seq(STRING)) /\ Len(P) > 0 /\ Joined(P, old) = s
      /\ \A i \in 1..Len(P) : Find(P[i], old, 1) = 0
      /\ v = P \/ P = Append(v, <<>>)
  BY <1>4, <1>5, <1>6 DEF AreThePieces
<1>8. string_replace(old, new, s) = Joined(P, new)
  <2>1. PICK x \in Seq(STRING) : x = <<>> /\ Len(x) = 0
    BY EmptySeq
  <2>2. L[Edit(Beside(x, RestOf(s, 1)), Len(x) + 1)] = Beside(x, Joined(P, new))
    BY <1>4, <2>1 DEF AreThePieces
  <2>3. \A y \in Seq(STRING) : <<>> \o y = y
    BY ConcatEmptySeq
  <2>4. Joined(P, new) \in Seq(STRING)
    BY <1>7, JoinedIs
  <2>5. Beside(x, s) = s /\ Beside(x, Joined(P, new)) = Joined(P, new) /\ Len(x) + 1 = 1
    BY <2>1, <2>3, <2>4 DEF Beside
  <2> QED BY <1>3, <1>5, <2>2, <2>5
<1> DEFINE pieces == IF Joined(v, old) = s THEN v ELSE Append(v, <<>>)
<1>9. pieces \in Seq(Seq(STRING)) /\ Joined(pieces, old) = s /\ Joined(pieces, new) = Joined(P, new)
      /\ \A i \in 1..Len(pieces) : Find(pieces[i], old, 1) = 0
  <2>1. CASE v = P
    BY <1>7, <2>1
  <2>2. CASE v # P /\ Len(v) > 0
    <3>1. P = Append(v, <<>>) /\ <<>> \in Seq(STRING) /\ Len(<<>>) = 0
      BY <1>7, <2>2
    <3>2. PICK j \in Seq(STRING) : j = Joined(v, old)
      BY <1>6, JoinedIs
    <3>3. s = Put(j, old, <<>>)
      BY <1>6, <1>7, <2>2, <3>1, <3>2, JoinedLast, ZenonT(30)
    <3>4. Len(s) = Len(j) + Len(old) + Len(<<>>)
      <4>1. j \in Seq(STRING) /\ <<>> \in Seq(STRING)
        BY <3>1, <3>2
      <4>2. \A x \in Seq(STRING), y \in Seq(STRING) : Len(Put(x, old, y)) = Len(x) + Len(old) + Len(y)
        BY PutTexts
      <4> QED BY <3>3, <4>1, <4>2
    <3>5. Len(j) \in Nat /\ Len(old) \in Nat
      BY <3>2
    <3>6. j # s
      BY <1>1, <3>1, <3>4, <3>5
    <3>7. pieces = P
      BY <3>1, <3>2, <3>6
    <3> HIDE DEF pieces
    <3> QED BY <1>7, <3>7
  <2>3. CASE v # P /\ Len(v) = 0
    <3>1. v = <<>> /\ P = Append(<<>>, <<>>)
      <4>1. v = <<>>
        BY <1>6, <2>3, EmptySeq
      <4> QED BY <1>7, <2>3, <4>1
    <3>2. P = <<<<>>>> /\ Len(P) = 1 /\ P[1] = <<>>
      BY <3>1
    <3>3. s = <<>> /\ Joined(P, new) = <<>>
      BY <1>7, <3>2, JoinedIs
    <3>4. Joined(v, old) = <<>> /\ Joined(v, new) = <<>>
      BY <1>6, <2>3, JoinedIs
    <3>5. pieces = v
      BY <3>3, <3>4
    <3>6. 1..Len(v) = {}
      BY <2>3
    <3> HIDE DEF pieces
    <3> QED BY <1>6, <3>3, <3>4, <3>5, <3>6
  <2>4. Len(v) \in Nat
    BY <1>6
  <2> QED BY <2>1, <2>2, <2>3, <2>4
<1>10. DOMAIN pieces = 1..Len(pieces)
  <2> HIDE DEF pieces
  <2> QED BY <1>9
<1> QED BY <1>6, <1>8, <1>9, <1>10 DEF ReplacesEveryPlace

(* The characters that group a number are no digits, and not the same. *)
LEMMA CommaIsNoDigit == ~IsDigit(DIGIT_COMMA) /\ DIGIT_COMMA # DIGIT_DOT
<1>1. \A i \in 1..10 : i = 1 \/ i = 2 \/ i = 3 \/ i = 4 \/ i = 5 \/ i = 6 \/ i = 7 \/ i = 8 \/ i = 9 \/ i = 10
  OBVIOUS
<1>2. /\ Digits[1] = "0" /\ Digits[2] = "1" /\ Digits[3] = "2" /\ Digits[4] = "3" /\ Digits[5] = "4"
      /\ Digits[6] = "5" /\ Digits[7] = "6" /\ Digits[8] = "7" /\ Digits[9] = "8" /\ Digits[10] = "9"
  BY DEF Digits
<1>3. \A i \in 1..10 : Digits[i] \in {"0", "1", "2", "3", "4", "5", "6", "7", "8", "9"}
  BY <1>1, <1>2
<1>4. DIGIT_COMMA \notin {"0", "1", "2", "3", "4", "5", "6", "7", "8", "9"}
  BY Zenon DEF DIGIT_COMMA
<1>5. DIGIT_COMMA # DIGIT_DOT
  BY Zenon DEF DIGIT_COMMA, DIGIT_DOT
<1> QED BY <1>3, <1>4, <1>5 DEF IsDigit

(* Without, as the states of its loop. *)
LeftStates(g, text, c, S) ==
  /\ g \in [0..Len(text) -> Seq(S)]
  /\ g[0] = <<>>
  /\ \A i \in 1..Len(text) : g[i] = IF text[i] = c THEN g[i - 1] ELSE Append(g[i - 1], text[i])

(* Without, as the states of its loop. *)
LEMMA WithoutLoop ==
  ASSUME NEW S, NEW text \in Seq(S), NEW c
  PROVE  \E g : LeftStates(g, text, c, S) /\ Without(text, c) = g[Len(text)]
<1> DEFINE m == Len(text)
           F == [x \in Seq(S) \X (1..m) |-> IF text[x[2]] = c THEN x[1] ELSE Append(x[1], text[x[2]])]
           n == CHOOSE n : n = [i \in 0..m |-> IF i = 0 THEN <<>> ELSE IF text[i] = c THEN n[i - 1]
                                               ELSE Append(n[i - 1], text[i])]
<1>0. \A i \in 1..m : text[i] \in S
  OBVIOUS
<1>1. m \in Nat /\ F \in Passes(Seq(S), m) /\ <<>> \in Seq(S)
  <2>1. \A x \in Seq(S), i \in 1..m : Append(x, text[i]) \in Seq(S)
    BY <1>0
  <2> QED BY <2>1 DEF Passes
<1>2. \A k \in Seq(S), i \in 1..m : F[<<k, i>>] = IF text[i] = c THEN k ELSE Append(k, text[i])
  OBVIOUS
<1>3. n = [i \in 0..m |-> IF i = 0 THEN <<>> ELSE IF text[i] = c THEN n[i - 1] ELSE Append(n[i - 1], text[i])]
  <2> HIDE DEF m, F
  <2>1. PICK g : g \in States(Seq(S), m, <<>>, F)
    BY <1>1, LoopStates
  <2>2. g \in [0..m -> Seq(S)] /\ g[0] = <<>> /\ \A i \in 1..m : g[i - 1] \in Seq(S) /\ g[i] = F[<<g[i - 1], i>>]
    BY <1>1, <2>1 DEF States
  <2>3. \A i \in 0..m : i # 0 => i \in 1..m
    BY <1>1
  <2>4. \A i \in 1..m : g[i] = IF text[i] = c THEN g[i - 1] ELSE Append(g[i - 1], text[i])
    BY <1>2, <2>2
  <2>5. g = [i \in 0..m |-> IF i = 0 THEN <<>> ELSE IF text[i] = c THEN g[i - 1] ELSE Append(g[i - 1], text[i])]
    BY <2>2, <2>3, <2>4
  <2> QED BY <2>5
<1>4. Without(text, c) = n[m]
  BY DEF Without
<1> HIDE DEF m, n, F
<1>5. n \in States(Seq(S), m, <<>>, F)
  <2>1. Follows(n, Seq(S), m, <<>>, F)
    <3>1. \A i \in 1..m : i \in 0..m /\ i # 0
      BY <1>1
    <3>2. \A i \in 1..m : n[i] = IF text[i] = c THEN n[i - 1] ELSE Append(n[i - 1], text[i])
      BY <1>3, <3>1
    <3>3. n[0] = <<>>
      BY <1>1, <1>3
    <3>4. n = [i \in 0..m |-> n[i]]
      BY <1>3
    <3> QED BY <1>2, <3>2, <3>3, <3>4 DEF Follows
  <2> QED BY <1>1, <2>1, LoopFollows
<1>6. n \in [0..m -> Seq(S)] /\ n[0] = <<>> /\ \A i \in 1..m : n[i - 1] \in Seq(S) /\ n[i] = F[<<n[i - 1], i>>]
  BY <1>1, <1>5 DEF States
<1>7. \A i \in 1..m : n[i] = IF text[i] = c THEN n[i - 1] ELSE Append(n[i - 1], text[i])
  BY <1>2, <1>6
<1> QED BY <1>4, <1>6, <1>7 DEF m, LeftStates

(* What is left of two texts beside each other stands beside each other.   *)
LEMMA AppendedBeside ==
  ASSUME NEW S, NEW x \in Seq(S), NEW y \in Seq(S), NEW a \in S
  PROVE  Append(Beside(x, y), a) = Beside(x, Append(y, a))
<1>1. /\ <<a>> \in Seq(S) /\ Append(Beside(x, y), a) = Beside(Beside(x, y), <<a>>) /\ Append(y, a) = Beside(y, <<a>>)
  <2>1. Beside(x, y) \in Seq(S)
    BY JoinedTexts
  <2>2. \A z \in Seq(S) : Append(z, a) = z \o <<a>>
    BY AppendIsConcat
  <2> QED BY <2>1, <2>2 DEF Beside
<1>2. Beside(Beside(x, y), <<a>>) = Beside(x, Beside(y, <<a>>))
  <2>1. PICK b \in Seq(S) : b = <<a>>
    BY <1>1
  <2>2. Beside(Beside(x, y), b) = Beside(x, Beside(y, b))
    BY BesideAgain
  <2> QED BY <2>1, <2>2
<1> QED BY <1>1, <1>2

(* What is left of two texts beside each other stands beside each other. *)
LEMMA WithoutBeside ==
  ASSUME NEW S, NEW x \in Seq(S), NEW y \in Seq(S), NEW c
  PROVE  /\ Without(x, c) \in Seq(S) /\ Without(y, c) \in Seq(S)
         /\ Without(Beside(x, y), c) = Beside(Without(x, c), Without(y, c))
<1>1. PICK a \in Nat, b \in Nat, z \in Seq(S) :
        /\ a = Len(x) /\ b = Len(y) /\ z = Beside(x, y) /\ Len(z) = a + b
        /\ \A i \in 1..a : z[i] = x[i]
        /\ \A j \in 1..b : z[a + j] = y[j]
  <2>1. Beside(x, y) \in Seq(S) /\ AreBeside(x, y, Beside(x, y)) /\ Len(x) \in Nat /\ Len(y) \in Nat
    BY JoinedTexts
  <2> QED BY <2>1 DEF AreBeside
<1>2. PICK g : LeftStates(g, x, c, S) /\ Without(x, c) = g[a]
  BY <1>1, WithoutLoop
<1>3. PICK h : LeftStates(h, y, c, S) /\ Without(y, c) = h[b]
  BY <1>1, WithoutLoop
<1>4. PICK f : LeftStates(f, z, c, S) /\ Without(z, c) = f[a + b]
  <2>1. PICK f : LeftStates(f, z, c, S) /\ Without(z, c) = f[Len(z)]
    <3>1. \A t \in Seq(S) : \E f : LeftStates(f, t, c, S) /\ Without(t, c) = f[Len(t)]
      BY WithoutLoop
    <3> QED BY <3>1
  <2>2. Len(z) = a + b
    BY <1>1
  <2> QED BY <2>1, <2>2
<1>5. /\ g \in [0..a -> Seq(S)] /\ g[0] = <<>>
      /\ \A i \in 1..a : g[i] = IF x[i] = c THEN g[i - 1] ELSE Append(g[i - 1], x[i])
  BY <1>1, <1>2 DEF LeftStates
<1>6. /\ h \in [0..b -> Seq(S)] /\ h[0] = <<>>
      /\ \A i \in 1..b : h[i] = IF y[i] = c THEN h[i - 1] ELSE Append(h[i - 1], y[i])
  BY <1>1, <1>3 DEF LeftStates
<1>7. /\ f \in [0..(a + b) -> Seq(S)] /\ f[0] = <<>>
      /\ \A i \in 1..(a + b) : f[i] = IF z[i] = c THEN f[i - 1] ELSE Append(f[i - 1], z[i])
  BY <1>1, <1>4 DEF LeftStates
<1>8. f[a] = g[a]
  <2> DEFINE T == {i \in Nat : i <= a => f[i] = g[i]}
  <2>1. 0 \in T
    BY <1>5, <1>7
  <2>2. ASSUME NEW i \in Nat, i \in T, i + 1 <= a PROVE f[i + 1] = g[i + 1]
    <3>1. i + 1 \in 1..a /\ i + 1 \in 1..(a + b) /\ (i + 1) - 1 = i /\ f[i] = g[i]
      BY <1>1, <2>2
    <3>2. PICK k : k = i + 1
      OBVIOUS
    <3>3. z[k] = x[k] /\ f[k - 1] = g[k - 1]
      BY <1>1, <3>1, <3>2
    <3> QED BY <1>5, <1>7, <3>1, <3>2, <3>3
  <2>3. Nat \subseteq T
    <3>1. \A i \in Nat : i \in T => i + 1 \in T
      BY <2>2
    <3> HIDE DEF T
    <3> QED BY <2>1, <3>1, Induction
  <2> QED BY <1>1, <2>3
<1>9. f[a + b] = Beside(g[a], h[b])
  <2> DEFINE T == {j \in Nat : j <= b => f[a + j] = Beside(g[a], h[j])}
  <2>0. g[a] \in Seq(S) /\ h[b] \in Seq(S)
    BY <1>1, <1>5, <1>6
  <2>1. 0 \in T
    <3>1. Beside(g[a], <<>>) = g[a]
      BY <2>0, ConcatEmptySeq DEF Beside
    <3> QED BY <1>1, <1>6, <1>8, <3>1
  <2>2. ASSUME NEW j \in Nat, j \in T, j + 1 <= b PROVE f[a + (j + 1)] = Beside(g[a], h[j + 1])
    <3>1. /\ j + 1 \in 1..b /\ a + (j + 1) \in 1..(a + b) /\ (j + 1) - 1 = j /\ (a + (j + 1)) - 1 = a + j
          /\ f[a + j] = Beside(g[a], h[j])
      <4>1. j <= b
        BY <1>1, <2>2
      <4>2. f[a + j] = Beside(g[a], h[j])
        BY <2>2, <4>1
      <4>3. j + 1 \in 1..b /\ a + (j + 1) \in 1..(a + b) /\ (j + 1) - 1 = j /\ (a + (j + 1)) - 1 = a + j
        BY <1>1, <2>2
      <4> QED BY <4>2, <4>3
    <3>2. PICK k, l : k = j + 1 /\ l = a + (j + 1)
      OBVIOUS
    <3>3. z[l] = y[k] /\ y[k] \in S /\ h[j] \in Seq(S)
      <4>1. j \in 0..b
        BY <3>1
      <4>2. h[j] \in Seq(S)
        BY <1>6, <4>1
      <4>3. k \in 1..b /\ l = a + k
        BY <3>1, <3>2
      <4>4. z[l] = y[k]
        BY <1>1, <4>3
      <4>5. k \in 1..Len(y)
        BY <1>1, <4>3
      <4>6. y[k] \in S
        BY <4>5, ElementOfSeq
      <4> QED BY <4>2, <4>4, <4>6
    <3>4. /\ h[k] = IF y[k] = c THEN h[j] ELSE Append(h[j], y[k])
          /\ f[l] = IF z[l] = c THEN f[a + j] ELSE Append(f[a + j], z[l])
      <4>1. k \in 1..b /\ l \in 1..(a + b) /\ k - 1 = j /\ l - 1 = a + j
        BY <3>1, <3>2
      <4>2. h[k] = IF y[k] = c THEN h[k - 1] ELSE Append(h[k - 1], y[k])
        BY <1>6, <4>1
      <4>3. f[l] = IF z[l] = c THEN f[l - 1] ELSE Append(f[l - 1], z[l])
        BY <1>7, <4>1
      <4> QED BY <4>1, <4>2, <4>3
    <3>5. Append(Beside(g[a], h[j]), y[k]) = Beside(g[a], Append(h[j], y[k]))
      <4>1. PICK u \in Seq(S), v \in Seq(S), e \in S : u = g[a] /\ v = h[j] /\ e = y[k]
        BY <2>0, <3>3
      <4>2. Append(Beside(u, v), e) = Beside(u, Append(v, e))
        BY AppendedBeside
      <4> QED BY <4>1, <4>2
    <3> QED BY <3>1, <3>2, <3>3, <3>4, <3>5
  <2>3. Nat \subseteq T
    <3>1. \A i \in Nat : i \in T => i + 1 \in T
      BY <2>2
    <3> HIDE DEF T
    <3> QED BY <2>1, <3>1, Induction
  <2> QED BY <1>1, <2>3
<1>10. g[a] \in Seq(S) /\ h[b] \in Seq(S)
  BY <1>1, <1>5, <1>6
<1> QED BY <1>1, <1>2, <1>3, <1>4, <1>9, <1>10

(* A text without the character is kept. *)
LEMMA WithoutNone ==
  ASSUME NEW S, NEW x \in Seq(S), NEW c, \A i \in 1..Len(x) : x[i] # c
  PROVE  Without(x, c) = x
<1>1. PICK a \in Nat : a = Len(x)
  OBVIOUS
<1>2. PICK g : LeftStates(g, x, c, S) /\ Without(x, c) = g[a]
  BY <1>1, WithoutLoop
<1>3. /\ g \in [0..a -> Seq(S)] /\ g[0] = <<>>
      /\ \A i \in 1..a : g[i] = Append(g[i - 1], x[i])
  BY <1>1, <1>2 DEF LeftStates
<1> DEFINE T == {i \in Nat : i <= a => Len(g[i]) = i /\ \A j \in 1..i : g[i][j] = x[j]}
<1>4. 0 \in T
  BY <1>3
<1>5. ASSUME NEW i \in Nat, i \in T, i + 1 <= a PROVE Len(g[i + 1]) = i + 1 /\ \A j \in 1..(i + 1) : g[i + 1][j] = x[j]
  <2>1. i \in 0..a /\ i + 1 \in 1..a /\ (i + 1) - 1 = i /\ Len(g[i]) = i /\ \A j \in 1..i : g[i][j] = x[j]
    BY <1>1, <1>5
  <2>2. g[i] \in Seq(S) /\ x[i + 1] \in S
    <3>1. g[i] \in Seq(S)
      BY <1>3, <2>1
    <3>2. i + 1 \in 1..Len(x)
      BY <1>1, <2>1
    <3>3. x[i + 1] \in S
      BY <3>2, ElementOfSeq
    <3> QED BY <3>1, <3>3
  <2>3. g[i + 1] = Append(g[i], x[i + 1])
    BY <1>3, <2>1
  <2>4. PICK u \in Seq(S), v \in S : u = g[i] /\ v = x[i + 1]
    BY <2>2
  <2>5. Len(Append(u, v)) = i + 1 /\ Append(u, v)[i + 1] = v /\ \A j \in 1..i : Append(u, v)[j] = u[j]
    BY <2>1, <2>4, AppendProperties
  <2>6. \A j \in 1..(i + 1) : j = i + 1 \/ j \in 1..i
    OBVIOUS
  <2> QED BY <2>1, <2>3, <2>4, <2>5, <2>6
<1>6. Nat \subseteq T
  <2>1. \A i \in Nat : i \in T => i + 1 \in T
    BY <1>5
  <2> HIDE DEF T
  <2> QED BY <1>4, <2>1, Induction
<1>7. Len(g[a]) = a /\ (\A j \in 1..a : g[a][j] = x[j]) /\ g[a] \in Seq(S)
  BY <1>1, <1>3, <1>6
<1>8. \A j \in 1..Len(x) : g[a][j] = x[j]
  BY <1>1, <1>7
<1>9. g[a] = x
  BY <1>1, <1>7, <1>8, SeqEqual
<1> QED BY <1>2, <1>9

(* The digits of a text behind a place, and how many there are.            *)
DigitsBehind(t, i) == {j \in (i + 1)..Len(t) : IsDigit(t[j])}
HowMany(t, i) == Cardinality(DigitsBehind(t, i))

(* The digits behind a place are finitely many. *)
LEMMA DigitsAreFinite ==
  ASSUME NEW S, NEW t \in Seq(S), NEW i \in Nat
  PROVE  IsFiniteSet(DigitsBehind(t, i)) /\ HowMany(t, i) \in Nat
<1>1. IsFiniteSet((i + 1)..Len(t))
  BY FS_Interval
<1>2. DigitsBehind(t, i) \subseteq (i + 1)..Len(t)
  BY DEF DigitsBehind
<1>3. IsFiniteSet(DigitsBehind(t, i))
  BY <1>1, <1>2, FS_Subset
<1> QED BY <1>3, FS_CardinalityType DEF HowMany

(* A character in front of a text moves its places by one. *)
LEMMA DigitsShift ==
  ASSUME NEW S, NEW y \in Seq(S), NEW z \in Seq(S), Len(z) = Len(y) + 1,
         \A j \in 1..Len(y) : z[j + 1] = y[j], NEW i \in Nat
  PROVE  HowMany(z, i + 1) = HowMany(y, i)
<1> DEFINE f == [j \in DigitsBehind(y, i) |-> j + 1]
<1>1. PICK n \in Nat : n = Len(y) /\ Len(z) = n + 1
  OBVIOUS
<1>2. /\ \A j \in DigitsBehind(y, i) : j \in (i + 1)..n /\ IsDigit(y[j])
      /\ \A j \in (i + 1)..n : IsDigit(y[j]) => j \in DigitsBehind(y, i)
      /\ \A j \in DigitsBehind(z, i + 1) : j \in (i + 2)..(n + 1) /\ IsDigit(z[j])
      /\ \A j \in (i + 2)..(n + 1) : IsDigit(z[j]) => j \in DigitsBehind(z, i + 1)
  BY <1>1 DEF DigitsBehind
<1>3. \A j \in 1..n : z[j + 1] = y[j]
  BY <1>1
<1>4. f \in [DigitsBehind(y, i) -> DigitsBehind(z, i + 1)]
  <2>1. ASSUME NEW j \in DigitsBehind(y, i) PROVE j + 1 \in DigitsBehind(z, i + 1)
    <3>1. j \in (i + 1)..n /\ IsDigit(y[j])
      BY <1>2
    <3>2. j \in 1..n /\ j + 1 \in (i + 2)..(n + 1)
      BY <1>1, <3>1
    <3>3. z[j + 1] = y[j]
      BY <1>3, <3>2
    <3> QED BY <1>2, <3>1, <3>2, <3>3
  <2> QED BY <2>1
<1>5. \A j, k \in DigitsBehind(y, i) : f[j] = f[k] => j = k
  <2>1. \A j \in DigitsBehind(y, i) : f[j] = j + 1 /\ j \in Int
    BY <1>2
  <2> HIDE DEF f
  <2> QED BY <2>1
<1>6. \A k \in DigitsBehind(z, i + 1) : \E j \in DigitsBehind(y, i) : f[j] = k
  <2> TAKE k \in DigitsBehind(z, i + 1)
  <2>1. k \in (i + 2)..(n + 1) /\ IsDigit(z[k])
    BY <1>2
  <2>2. PICK j : j = k - 1
    OBVIOUS
  <2>3. j \in (i + 1)..n /\ j \in 1..n /\ j + 1 = k
    BY <1>1, <2>1, <2>2
  <2>4. z[j + 1] = y[j]
    BY <1>3, <2>3
  <2>5. j \in DigitsBehind(y, i)
    BY <1>2, <2>1, <2>3, <2>4
  <2> QED BY <2>3, <2>5
<1>7. IsFiniteSet(DigitsBehind(y, i)) /\ IsFiniteSet(DigitsBehind(z, i + 1))
  <2>1. i + 1 \in Nat
    OBVIOUS
  <2> QED BY <2>1, DigitsAreFinite
<1>8. f \in Bijection(DigitsBehind(y, i), DigitsBehind(z, i + 1))
  <2> HIDE DEF f
  <2>1. f \in Injection(DigitsBehind(y, i), DigitsBehind(z, i + 1))
    BY <1>4, <1>5 DEF Injection, IsInjective
  <2>2. f \in Surjection(DigitsBehind(y, i), DigitsBehind(z, i + 1))
    BY <1>4, <1>6 DEF Surjection
  <2> QED BY <2>1, <2>2 DEF Bijection
<1>9. Cardinality(DigitsBehind(y, i)) = Cardinality(DigitsBehind(z, i + 1))
  <2> HIDE DEF f
  <2>1. ExistsBijection(DigitsBehind(y, i), DigitsBehind(z, i + 1))
    BY <1>8 DEF ExistsBijection
  <2>2. \A A, B : IsFiniteSet(A) /\ ExistsBijection(A, B) => Cardinality(B) = Cardinality(A)
    BY FS_Bijection
  <2> QED BY <1>7, <2>1, <2>2
<1> QED BY <1>9 DEF HowMany

Fronted(c, y, z) ==
  /\ Len(z) = Len(y) + 1 /\ z[1] = c
  /\ \A j \in 1..Len(y) : z[j + 1] = y[j]
  /\ HowMany(z, 0) = IF IsDigit(c) THEN HowMany(y, 0) + 1 ELSE HowMany(y, 0)
  /\ \A i \in Nat : HowMany(z, i + 1) = HowMany(y, i)

(* A character put in front of a text is one digit more, or none. *)
LEMMA CharacterInFront ==
  ASSUME NEW S, NEW y \in Seq(S), NEW c \in S
  PROVE  Beside(<<c>>, y) \in Seq(S) /\ Fronted(c, y, Beside(<<c>>, y))
<1>1. PICK z \in Seq(S) : /\ z = Beside(<<c>>, y) /\ Len(z) = Len(y) + 1 /\ z[1] = c
                          /\ \A j \in 1..Len(y) : z[j + 1] = y[j]
  <2>1. <<c>> \in Seq(S) /\ Len(<<c>>) = 1 /\ <<c>>[1] = c
    OBVIOUS
  <2>2. Beside(<<c>>, y) \in Seq(S) /\ AreBeside(<<c>>, y, Beside(<<c>>, y))
    BY <2>1, JoinedTexts
  <2>3. /\ Len(Beside(<<c>>, y)) = Len(y) + 1 /\ Beside(<<c>>, y)[1] = c
        /\ \A j \in 1..Len(y) : Beside(<<c>>, y)[1 + j] = y[j]
    BY <2>1, <2>2 DEF AreBeside
  <2> QED BY <2>2, <2>3
<1>2. \A i \in Nat : HowMany(z, i + 1) = HowMany(y, i)
  <2> TAKE i \in Nat
  <2>1. PICK v \in Seq(S) : v = z
    BY <1>1
  <2>2. Len(v) = Len(y) + 1 /\ \A j \in 1..Len(y) : v[j + 1] = y[j]
    BY <1>1, <2>1
  <2>3. HowMany(v, i + 1) = HowMany(y, i)
    BY <2>2, DigitsShift
  <2> QED BY <2>1, <2>3
<1>3. HowMany(z, 1) = HowMany(y, 0) /\ HowMany(y, 0) \in Nat
  <2>1. HowMany(z, 0 + 1) = HowMany(y, 0)
    BY <1>2
  <2> QED BY <2>1, DigitsAreFinite
<1>4. IsFiniteSet(DigitsBehind(z, 1)) /\ 1 \notin DigitsBehind(z, 1)
  <2>1. \A t \in Seq(S) : IsFiniteSet(DigitsBehind(t, 1))
    BY DigitsAreFinite
  <2> QED BY <1>1, <2>1 DEF DigitsBehind
<1>5. DigitsBehind(z, 0) = IF IsDigit(c) THEN DigitsBehind(z, 1) \cup {1} ELSE DigitsBehind(z, 1)
  <2>1. PICK n \in Nat : n = Len(y) /\ Len(z) = n + 1
    BY <1>1
  <2>2. \A j : j \in 1..(n + 1) <=> j = 1 \/ j \in 2..(n + 1)
    BY <2>1
  <2>3. DigitsBehind(z, 0) = {j \in 1..(n + 1) : IsDigit(z[j])} /\ DigitsBehind(z, 1) = {j \in 2..(n + 1) : IsDigit(z[j])}
    BY <2>1 DEF DigitsBehind
  <2> QED BY <1>1, <2>2, <2>3, ZenonT(30)
<1>6. HowMany(z, 0) = IF IsDigit(c) THEN HowMany(y, 0) + 1 ELSE HowMany(y, 0)
  <2>1. Cardinality(DigitsBehind(z, 1) \cup {1}) = Cardinality(DigitsBehind(z, 1)) + 1
    BY <1>4, FS_AddElement
  <2> QED BY <1>3, <1>5, <2>1 DEF HowMany
<1>7. Fronted(c, y, z)
  BY <1>1, <1>2, <1>6 DEF Fronted
<1> QED BY <1>1, <1>7

(* A text with n digits that is grouped, but for the places of open, where *)
(* a comma may have no digit in front.                                     *)
CommaStands(t, i, open) ==
  /\ HowMany(t, i) > 0 /\ HowMany(t, i) % 3 = 0
  /\ i \in open \/ \E j \in 1..(i - 1) : IsDigit(t[j])
Grouped(t, n, open) ==
  /\ n = HowMany(t, 0) /\ n \in Nat
  /\ \A i \in 1..Len(t) : t[i] # DIGIT_DOT /\ (t[i] = DIGIT_COMMA => CommaStands(t, i, open))

(* A character put in front of a grouped text leaves it grouped, and a     *)
(* place where a comma had no digit in front has one when the character is *)
(* a digit.                                                                *)
LEMMA PutInFront ==
  ASSUME NEW S, NEW t \in Seq(S), NEW n \in Nat, NEW open \in SUBSET {1}, Grouped(t, n, open),
         NEW c \in S, c # DIGIT_DOT, c # DIGIT_COMMA, open = {1} => IsDigit(c)
  PROVE  Grouped(Beside(<<c>>, t), IF IsDigit(c) THEN n + 1 ELSE n, {})
<1>1. PICK z \in Seq(S) :
        /\ z = Beside(<<c>>, t) /\ Len(z) = Len(t) + 1 /\ z[1] = c
        /\ \A j \in 1..Len(t) : z[j + 1] = t[j]
        /\ HowMany(z, 0) = IF IsDigit(c) THEN HowMany(t, 0) + 1 ELSE HowMany(t, 0)
        /\ \A i \in Nat : HowMany(z, i + 1) = HowMany(t, i)
  <2>1. PICK z \in Seq(S) : z = Beside(<<c>>, t) /\ Fronted(c, t, z)
    BY CharacterInFront
  <2> QED BY <2>1 DEF Fronted
<1>2. PICK m \in Nat : m = Len(t) /\ Len(z) = m + 1
  BY <1>1
<1>3. \A i \in 1..m : t[i] # DIGIT_DOT /\ (t[i] = DIGIT_COMMA => CommaStands(t, i, open))
  BY <1>2 DEF Grouped
<1>4. ASSUME NEW i \in 1..(m + 1) PROVE z[i] # DIGIT_DOT /\ (z[i] = DIGIT_COMMA => CommaStands(z, i, {}))
  <2>1. CASE i = 1
    BY <1>1, <2>1
  <2>2. CASE i # 1
    <3>1. PICK k \in 1..m : k + 1 = i
      <4>1. i - 1 \in 1..m /\ (i - 1) + 1 = i
        BY <1>2, <2>2
      <4> QED BY <4>1
    <3>2. z[i] = t[k] /\ HowMany(z, i) = HowMany(t, k)
      <4>1. k \in 1..Len(t) /\ k \in Nat
        BY <1>2
      <4>2. z[k + 1] = t[k] /\ HowMany(z, k + 1) = HowMany(t, k)
        BY <1>1, <4>1
      <4> QED BY <3>1, <4>2
    <3>3. SUFFICES ASSUME t[k] = DIGIT_COMMA PROVE CommaStands(z, i, {})
      BY <1>3, <3>2
    <3>4. CommaStands(t, k, open)
      BY <1>3, <3>3
    <3>5. \E j \in 1..(i - 1) : IsDigit(z[j])
      <4>1. CASE k \in open
        <5>1. open = {1}
          BY <4>1
        <5>2. IsDigit(z[1])
          BY <1>1, <5>1
        <5>3. 1 \in 1..(i - 1)
          BY <2>2
        <5> QED BY <5>2, <5>3
      <4>2. CASE k \notin open
        <5>1. PICK j \in 1..(k - 1) : IsDigit(t[j])
          BY <3>4, <4>2 DEF CommaStands
        <5>2. j \in 1..Len(t) /\ j + 1 \in 1..(i - 1)
          BY <1>2, <3>1
        <5>3. z[j + 1] = t[j]
          BY <1>1, <5>2
        <5>4. IsDigit(z[j + 1])
          BY <5>1, <5>3
        <5> QED BY <5>2, <5>4
      <4> QED BY <4>1, <4>2
    <3> QED BY <3>2, <3>4, <3>5 DEF CommaStands
  <2> QED BY <2>1, <2>2
<1>5. HowMany(z, 0) = IF IsDigit(c) THEN n + 1 ELSE n
  BY <1>1 DEF Grouped
<1>6. (IF IsDigit(c) THEN n + 1 ELSE n) \in Nat
  OBVIOUS
<1>7. PICK k \in Nat : k = IF IsDigit(c) THEN n + 1 ELSE n
  BY <1>6
<1>8. Grouped(z, k, {})
  BY <1>2, <1>4, <1>5, <1>7 DEF Grouped
<1> QED BY <1>1, <1>7, <1>8

(* A comma put in front of three digits leaves it grouped, but for a digit *)
(* in front of the comma.                                                  *)
LEMMA CommaInFront ==
  ASSUME NEW S, DIGIT_COMMA \in S, NEW t \in Seq(S), NEW n \in Nat, Grouped(t, n, {}), n # 0, n % 3 = 0
  PROVE  Grouped(Beside(<<DIGIT_COMMA>>, t), n, {1})
<1>0. PICK c \in S : c = DIGIT_COMMA /\ ~IsDigit(c) /\ c # DIGIT_DOT
  BY CommaIsNoDigit
<1>1. PICK z \in Seq(S) :
        /\ z = Beside(<<c>>, t) /\ Len(z) = Len(t) + 1 /\ z[1] = c
        /\ \A j \in 1..Len(t) : z[j + 1] = t[j]
        /\ HowMany(z, 0) = IF IsDigit(c) THEN HowMany(t, 0) + 1 ELSE HowMany(t, 0)
        /\ \A i \in Nat : HowMany(z, i + 1) = HowMany(t, i)
  <2>1. PICK z \in Seq(S) : z = Beside(<<c>>, t) /\ Fronted(c, t, z)
    BY CharacterInFront
  <2> QED BY <2>1 DEF Fronted
<1>2. PICK m \in Nat : m = Len(t) /\ Len(z) = m + 1
  BY <1>1
<1>3. \A i \in 1..m : t[i] # DIGIT_DOT /\ (t[i] = DIGIT_COMMA => CommaStands(t, i, {}))
  BY <1>2 DEF Grouped
<1>4. ASSUME NEW i \in 1..(m + 1) PROVE z[i] # DIGIT_DOT /\ (z[i] = DIGIT_COMMA => CommaStands(z, i, {1}))
  <2>1. CASE i = 1
    <3>1. HowMany(z, 0 + 1) = HowMany(t, 0) /\ HowMany(t, 0) = n
      BY <1>1 DEF Grouped
    <3>2. HowMany(z, 1) = n
      BY <3>1
    <3>3. n > 0
      OBVIOUS
    <3>4. CommaStands(z, 1, {1})
      BY <3>2, <3>3 DEF CommaStands
    <3> QED BY <1>0, <1>1, <2>1, <3>4
  <2>2. CASE i # 1
    <3>1. PICK k \in 1..m : k + 1 = i
      <4>1. i - 1 \in 1..m /\ (i - 1) + 1 = i
        BY <1>2, <2>2
      <4> QED BY <4>1
    <3>2. z[i] = t[k] /\ HowMany(z, i) = HowMany(t, k)
      <4>1. k \in 1..Len(t) /\ k \in Nat
        BY <1>2
      <4>2. z[k + 1] = t[k] /\ HowMany(z, k + 1) = HowMany(t, k)
        BY <1>1, <4>1
      <4> QED BY <3>1, <4>2
    <3>3. SUFFICES ASSUME t[k] = DIGIT_COMMA PROVE CommaStands(z, i, {1})
      BY <1>3, <3>2
    <3>4. CommaStands(t, k, {})
      BY <1>3, <3>3
    <3>5. \E j \in 1..(i - 1) : IsDigit(z[j])
      <4>1. PICK j \in 1..(k - 1) : IsDigit(t[j])
        BY <3>4 DEF CommaStands
      <4>2. j \in 1..Len(t) /\ j + 1 \in 1..(i - 1)
        BY <1>2, <3>1
      <4>3. z[j + 1] = t[j]
        BY <1>1, <4>2
      <4>4. IsDigit(z[j + 1])
        BY <4>1, <4>3
      <4> QED BY <4>2, <4>4
    <3> QED BY <3>2, <3>4, <3>5 DEF CommaStands
  <2> QED BY <2>1, <2>2
<1>5. HowMany(z, 0) = n
  BY <1>0, <1>1 DEF Grouped
<1>8. Grouped(z, n, {1})
  BY <1>2, <1>4, <1>5 DEF Grouped
<1> QED BY <1>0, <1>1, <1>8

(* What is left of one character. *)
LEMMA WithoutCharacter ==
  ASSUME NEW S, NEW c \in S, NEW d
  PROVE  /\ c # d => Without(<<c>>, d) = <<c>>
         /\ c = d => Without(<<c>>, d) = <<>>
<1>1. PICK x \in Seq(S) : x = <<c>> /\ Len(x) = 1 /\ x[1] = c
  <2>1. <<c>> \in Seq(S) /\ Len(<<c>>) = 1 /\ <<c>>[1] = c
    OBVIOUS
  <2> QED BY <2>1
<1>2. c # d => Without(x, d) = x
  <2>1. \A y \in Seq(S) : (\A i \in 1..Len(y) : y[i] # d) => Without(y, d) = y
    BY WithoutNone
  <2>2. c # d => \A i \in 1..Len(x) : x[i] # d
    BY <1>1
  <2> QED BY <2>1, <2>2
<1>3. PICK g : LeftStates(g, x, d, S) /\ Without(x, d) = g[Len(x)]
  BY WithoutLoop
<1>4. 1 \in 1..Len(x) /\ 1 - 1 = 0
  BY <1>1
<1>5. c = d => g[1] = <<>>
  BY <1>1, <1>3, <1>4 DEF LeftStates
<1> QED BY <1>1, <1>2, <1>3, <1>5

(* One pass of the loop: C is what stands before the dot so far, W what    *)
(* stood there before.                                                     *)
CommaPut(c, n) == IsDigit(c) /\ n # 0 /\ n % 3 = 0
PassOver(c, C, n) == Beside(<<c>>, IF CommaPut(c, n) THEN Beside(<<DIGIT_COMMA>>, C) ELSE C)
(* A pass keeps what is written grouped, and adds one character to what    *)
(* stood there without commas.                                             *)
LEMMA OnePass ==
  ASSUME NEW S, DIGIT_COMMA \in S, NEW C \in Seq(S), NEW n \in Nat, Grouped(C, n, {}), NEW W \in Seq(S), Without(C, DIGIT_COMMA) = W,
         NEW c \in S, c # DIGIT_DOT, c # DIGIT_COMMA
  PROVE  /\ PassOver(c, C, n) \in Seq(S)
         /\ Grouped(PassOver(c, C, n), IF IsDigit(c) THEN n + 1 ELSE n, {})
         /\ Without(PassOver(c, C, n), DIGIT_COMMA) = Beside(<<c>>, W)
<1>1. PICK y \in Seq(S), open \in SUBSET {1} :
        /\ y = IF CommaPut(c, n) THEN Beside(<<DIGIT_COMMA>>, C) ELSE C
        /\ open = IF CommaPut(c, n) THEN {1} ELSE {}
        /\ Grouped(y, n, open) /\ Without(y, DIGIT_COMMA) = W
  <2>1. CASE CommaPut(c, n)
    <3>1. PICK d \in S : d = DIGIT_COMMA
      OBVIOUS
    <3>2. Grouped(Beside(<<DIGIT_COMMA>>, C), n, {1})
      BY <2>1, CommaInFront DEF CommaPut
    <3>3. Beside(<<d>>, C) \in Seq(S) /\ Without(Beside(<<d>>, C), d) = Beside(Without(<<d>>, d), Without(C, d))
      <4>1. <<d>> \in Seq(S)
        OBVIOUS
      <4>2. PICK x \in Seq(S) : x = <<d>>
        BY <4>1
      <4>3. \A y \in Seq(S) : Beside(y, C) \in Seq(S) /\ Without(Beside(y, C), d) = Beside(Without(y, d), Without(C, d))
        BY JoinedTexts, WithoutBeside
      <4> QED BY <4>2, <4>3
    <3>4. Without(<<d>>, d) = <<>> /\ Beside(<<>>, W) = W
      BY WithoutCharacter, ConcatEmptySeq DEF Beside
    <3>5. Without(Beside(<<d>>, C), d) = W
      BY <3>1, <3>3, <3>4
    <3> QED BY <2>1, <3>1, <3>2, <3>3, <3>5
  <2>2. CASE ~CommaPut(c, n)
    BY <2>2
  <2> QED BY <2>1, <2>2
<1>2. PassOver(c, C, n) = Beside(<<c>>, y)
  BY <1>1 DEF PassOver
<1>3. open = {1} => IsDigit(c)
  BY <1>1 DEF CommaPut
<1>4. Grouped(Beside(<<c>>, y), IF IsDigit(c) THEN n + 1 ELSE n, {})
  <2>1. PICK x \in Seq(S) : x = y /\ Grouped(x, n, open)
    BY <1>1
  <2>2. Grouped(Beside(<<c>>, x), IF IsDigit(c) THEN n + 1 ELSE n, {})
    BY <1>3, <2>1, PutInFront
  <2> QED BY <2>1, <2>2
<1>5. Beside(<<c>>, y) \in Seq(S) /\ Without(Beside(<<c>>, y), DIGIT_COMMA) = Beside(<<c>>, W)
  <2>1. <<c>> \in Seq(S) /\ Without(<<c>>, DIGIT_COMMA) = <<c>>
    BY WithoutCharacter
  <2>2. \A x \in Seq(S), z \in Seq(S) :
          /\ Beside(x, z) \in Seq(S)
          /\ Without(Beside(x, z), DIGIT_COMMA) = Beside(Without(x, DIGIT_COMMA), Without(z, DIGIT_COMMA))
    BY JoinedTexts, WithoutBeside
  <2> QED BY <1>1, <2>1, <2>2
<1> QED BY <1>2, <1>4, <1>5

(* A text from a place on is the character there and the text behind it. *)
LEMMA RestOneMore ==
  ASSUME NEW S, NEW s \in Seq(S), NEW p \in 1..Len(s)
  PROVE  RestOf(s, p) = Beside(<<s[p]>>, RestOf(s, p + 1)) /\ RestOf(s, p) \in Seq(S) /\ RestOf(s, p + 1) \in Seq(S) /\ s[p] \in S
<1>1. PICK b \in Nat : b = Len(s) /\ p \in Nat /\ p >= 1 /\ p <= b
  OBVIOUS
<1>2. s[p] \in S
  OBVIOUS
<1>3. Bounds(s, p, b) /\ Bounds(s, p + 1, b)
  BY <1>1 DEF Bounds
<1>4. IsPiece(RestOf(s, p), s, p, b, S) /\ IsPiece(RestOf(s, p + 1), s, p + 1, b, S)
  BY <1>1, <1>3, PieceIs DEF RestOf
<1>5. PICK u \in Seq(S) : u = RestOf(s, p) /\ Len(u) = b - p + 1 /\ \A k \in 1..(b - p + 1) : u[k] = s[p + k - 1]
  BY <1>4 DEF IsPiece
<1>6. PICK v \in Seq(S) : v = RestOf(s, p + 1) /\ Len(v) = b - p /\ \A j \in 1..(b - p) : v[j] = s[p + j]
  <2>1. b - (p + 1) + 1 = b - p /\ \A j \in 1..(b - p) : (p + 1) + j - 1 = p + j
    BY <1>1
  <2> QED BY <1>4, <2>1 DEF IsPiece
<1>7. PICK w \in Seq(S) : /\ w = Beside(<<s[p]>>, v) /\ Len(w) = b - p + 1 /\ w[1] = s[p]
                          /\ \A j \in 1..(b - p) : w[1 + j] = s[p + j]
  <2>1. PICK w \in Seq(S) : w = Beside(<<s[p]>>, v) /\ Fronted(s[p], v, w)
    BY <1>2, CharacterInFront
  <2>2. Len(w) = b - p + 1 /\ w[1] = s[p] /\ \A j \in 1..(b - p) : w[j + 1] = v[j]
    BY <1>1, <1>6, <2>1 DEF Fronted
  <2>3. \A j \in 1..(b - p) : w[1 + j] = s[p + j]
    <3>1. \A j \in 1..(b - p) : 1 + j = j + 1
      OBVIOUS
    <3> QED BY <1>6, <2>2, <3>1
  <2> QED BY <2>1, <2>2, <2>3
<1>8. \A k \in 1..(b - p + 1) : w[k] = u[k]
  <2> TAKE k \in 1..(b - p + 1)
  <2>1. CASE k = 1
    <3>1. p + k - 1 = p
      BY <1>1, <2>1
    <3>2. u[k] = s[p] /\ w[k] = s[p]
      BY <1>5, <1>7, <2>1, <3>1
    <3> QED BY <3>2
  <2>2. CASE k # 1
    <3>1. PICK j \in 1..(b - p) : k = 1 + j
      <4>1. k - 1 \in 1..(b - p) /\ k = 1 + (k - 1)
        BY <1>1, <2>2
      <4> QED BY <4>1
    <3>2. p + k - 1 = p + j
      BY <1>1, <3>1
    <3> QED BY <1>5, <1>7, <3>1, <3>2
  <2> QED BY <2>1, <2>2
<1>9. w = u
  <2>1. Len(w) = Len(u) /\ \A k \in 1..Len(w) : w[k] = u[k]
    BY <1>5, <1>7, <1>8
  <2>2. \A x, y \in Seq(S) : Len(x) = Len(y) /\ (\A k \in 1..Len(x) : x[k] = y[k]) => x = y
    BY SeqEqual
  <2> QED BY <2>1, <2>2
<1> QED BY <1>2, <1>5, <1>6, <1>7, <1>9

(* string_format_number_comma, as the states of its loop. *)
Written(S) == [text : Seq(S), cnt : Nat]
CommaStates(g, whole, rest, S) ==
  /\ g \in [0..Len(whole) -> Written(S)]
  /\ g[0] = [text |-> rest, cnt |-> 0]
  /\ \A k \in 1..Len(whole) : g[k] = Copied(whole[Len(whole) - (k - 1)], g[k - 1])

(* What Copied makes of a character and of what is written so far. *)
LEMMA CopiedIs ==
  ASSUME NEW S, DIGIT_COMMA \in S, NEW c \in S, NEW r \in Written(S)
  PROVE  /\ Copied(c, r) \in Written(S)
         /\ Copied(c, r).text = PassOver(c, r.text, r.cnt)
         /\ Copied(c, r).cnt = IF IsDigit(c) THEN r.cnt + 1 ELSE r.cnt
<1>1. r.text \in Seq(S) /\ r.cnt \in Nat
  BY DEF Written
<1>2. \A d \in S : \A t \in Seq(S) : Beside(<<d>>, t) \in Seq(S)
  BY CharacterInFront
<1>3. PassOver(c, r.text, r.cnt) \in Seq(S)
  BY <1>1, <1>2 DEF PassOver
<1>4. Copied(c, r).text = PassOver(c, r.text, r.cnt)
  <2>1. <<>> \o r.text = r.text
    BY <1>1, ConcatEmptySeq
  <2> QED BY <2>1 DEF Copied, PassOver, CommaPut, Beside
<1>5. Copied(c, r).cnt = IF IsDigit(c) THEN r.cnt + 1 ELSE r.cnt
  BY DEF Copied
<1>6. (IF IsDigit(c) THEN r.cnt + 1 ELSE r.cnt) \in Nat
  BY <1>1
<1>7. Copied(c, r) = [text |-> PassOver(c, r.text, r.cnt), cnt |-> IF IsDigit(c) THEN r.cnt + 1 ELSE r.cnt]
  BY <1>4, <1>5 DEF Copied
<1> QED BY <1>3, <1>4, <1>5, <1>6, <1>7 DEF Written

WholeOf(num) == IF Find(num, <<DIGIT_DOT>>, 1) = 0 THEN num ELSE SubSeq(num, 1, Find(num, <<DIGIT_DOT>>, 1) - 1)
(* string_format_number_comma, as the states of its loop. *)
LEMMA CommaLoop ==
  ASSUME NEW S, DIGIT_COMMA \in S, NEW num \in Seq(S), NEW whole \in Seq(S), whole = WholeOf(num),
         NEW rest \in Seq(S), rest = SubSeq(num, Len(whole) + 1, Len(num)), ~(Len(num) < 3)
  PROVE  \E g : CommaStates(g, whole, rest, S) /\ string_format_number_comma(num) = g[Len(whole)].text
<1> DEFINE m == Len(whole)
           a == [text |-> rest, cnt |-> 0]
           F == [x \in Written(S) \X (1..m) |-> Copied(whole[m - (x[2] - 1)], x[1])]
           n == CHOOSE n : n = [k \in 0..m |-> IF k = 0 THEN a ELSE Copied(whole[m - (k - 1)], n[k - 1])]
<1>0. m \in Nat /\ a \in Written(S) /\ \A k \in 1..m : whole[m - (k - 1)] \in S
  <2>1. m \in Nat
    OBVIOUS
  <2>2. \A k \in 1..m : m - (k - 1) \in 1..m
    BY <2>1
  <2>3. \A k \in 1..m : whole[k] \in S
    OBVIOUS
  <2> QED BY <2>1, <2>2, <2>3 DEF Written
<1>1. F \in Passes(Written(S), m)
  <2>1. \A x \in Written(S), k \in 1..m : Copied(whole[m - (k - 1)], x) \in Written(S)
    BY <1>0, CopiedIs
  <2> HIDE DEF m
  <2> QED BY <2>1 DEF Passes
<1>2. \A r \in Written(S), k \in 1..m : F[<<r, k>>] = Copied(whole[m - (k - 1)], r)
  OBVIOUS
<1>3. n = [k \in 0..m |-> IF k = 0 THEN a ELSE Copied(whole[m - (k - 1)], n[k - 1])]
  <2> HIDE DEF m, F, a
  <2>1. PICK g : g \in States(Written(S), m, a, F)
    BY <1>0, <1>1, LoopStates
  <2>2. /\ g \in [0..m -> Written(S)] /\ g[0] = a
        /\ \A k \in 1..m : g[k - 1] \in Written(S) /\ g[k] = F[<<g[k - 1], k>>]
    BY <1>0, <2>1 DEF States
  <2>3. \A k \in 0..m : k # 0 => k \in 1..m
    BY <1>0
  <2>4. \A k \in 1..m : g[k] = Copied(whole[m - (k - 1)], g[k - 1])
    BY <1>2, <2>2
  <2>5. g = [k \in 0..m |-> IF k = 0 THEN a ELSE Copied(whole[m - (k - 1)], g[k - 1])]
    BY <2>2, <2>3, <2>4
  <2> QED BY <2>5
<1>4. string_format_number_comma(num) = n[m].text
  BY DEF string_format_number_comma, WholeOf
<1> HIDE DEF m, n, F, a
<1>5. n \in States(Written(S), m, a, F)
  <2>1. Follows(n, Written(S), m, a, F)
    <3>1. \A k \in 1..m : k \in 0..m /\ k # 0
      BY <1>0
    <3>2. \A k \in 1..m : n[k] = Copied(whole[m - (k - 1)], n[k - 1])
      BY <1>3, <3>1
    <3>3. n[0] = a
      BY <1>0, <1>3
    <3>4. n = [k \in 0..m |-> n[k]]
      BY <1>3
    <3> QED BY <1>2, <3>2, <3>3, <3>4 DEF Follows
  <2> QED BY <1>0, <1>1, <2>1, LoopFollows
<1>6. n \in [0..m -> Written(S)] /\ n[0] = a /\ \A k \in 1..m : n[k - 1] \in Written(S) /\ n[k] = F[<<n[k - 1], k>>]
  BY <1>0, <1>5 DEF States
<1>7. \A k \in 1..m : n[k] = Copied(whole[m - (k - 1)], n[k - 1])
  BY <1>2, <1>6
<1> QED BY <1>4, <1>6, <1>7 DEF m, a, CommaStates

(* What the loop has written after k passes. *)
WrittenSo(r, whole, rest, p, S) ==
  \E C \in Seq(S) : /\ r.text = Beside(C, rest)
                    /\ Grouped(C, r.cnt, {})
                    /\ Without(C, DIGIT_COMMA) = RestOf(whole, p)
(* Nothing written is grouped. *)
LEMMA NoDigitYet ==
  ASSUME NEW S, NEW C \in Seq(S), Len(C) = 0
  PROVE  Grouped(C, 0, {})
<1>1. DigitsBehind(C, 0) = {}
  BY DEF DigitsBehind
<1> QED BY <1>1, FS_EmptySet DEF Grouped, HowMany

(* One pass keeps what is said of the text written so far. *)
LEMMA PassWrites ==
  ASSUME NEW S, DIGIT_COMMA \in S, NEW r \in Written(S), NEW whole \in Seq(S), NEW rest \in Seq(S), NEW p \in 1..Len(whole),
         whole[p] # DIGIT_DOT, whole[p] # DIGIT_COMMA, WrittenSo(r, whole, rest, p + 1, S)
  PROVE  WrittenSo(Copied(whole[p], r), whole, rest, p, S)
<1>1. PICK C \in Seq(S) : /\ r.text = Beside(C, rest) /\ Grouped(C, r.cnt, {})
                          /\ Without(C, DIGIT_COMMA) = RestOf(whole, p + 1)
  BY DEF WrittenSo
<1>2. PICK c \in S, n \in Nat, W \in Seq(S) :
        /\ c = whole[p] /\ n = r.cnt /\ W = RestOf(whole, p + 1) /\ RestOf(whole, p) = Beside(<<c>>, W)
  BY RestOneMore DEF Written
<1>3. /\ PassOver(c, C, n) \in Seq(S)
      /\ Grouped(PassOver(c, C, n), IF IsDigit(c) THEN n + 1 ELSE n, {})
      /\ Without(PassOver(c, C, n), DIGIT_COMMA) = Beside(<<c>>, W)
  <2>1. Grouped(C, n, {}) /\ Without(C, DIGIT_COMMA) = W /\ c # DIGIT_DOT /\ c # DIGIT_COMMA
    BY <1>1, <1>2
  <2> QED BY <2>1, OnePass
<1>4. /\ Copied(c, r).text = PassOver(c, r.text, n)
      /\ Copied(c, r).cnt = IF IsDigit(c) THEN n + 1 ELSE n
  BY <1>2, CopiedIs
<1>5. PassOver(c, r.text, n) = Beside(PassOver(c, C, n), rest)
  <2>1. \A x, y, z \in Seq(S) : Beside(Beside(x, y), z) = Beside(x, Beside(y, z))
    BY BesideAgain
  <2>2. \A x, y \in Seq(S) : Beside(x, y) \in Seq(S)
    BY JoinedTexts
  <2>3. PICK x \in Seq(S), y \in Seq(S) : x = <<c>> /\ y = <<DIGIT_COMMA>>
    BY OnePiece
  <2>4. Beside(Beside(x, C), rest) = Beside(x, Beside(C, rest))
    BY <2>1
  <2>5. Beside(y, C) \in Seq(S) /\ Beside(Beside(y, C), rest) = Beside(y, Beside(C, rest))
    BY <2>1, <2>2
  <2>6. Beside(Beside(x, Beside(y, C)), rest) = Beside(x, Beside(Beside(y, C), rest))
    BY <2>1, <2>5
  <2> QED BY <1>1, <2>3, <2>4, <2>5, <2>6 DEF PassOver
<1>6. Copied(c, r).text = Beside(PassOver(c, C, n), rest)
  BY <1>4, <1>5
<1>7. Grouped(PassOver(c, C, n), Copied(c, r).cnt, {})
  BY <1>3, <1>4
<1>8. Without(PassOver(c, C, n), DIGIT_COMMA) = RestOf(whole, p)
  BY <1>2, <1>3
<1>9. WrittenSo(Copied(c, r), whole, rest, p, S)
  BY <1>3, <1>6, <1>7, <1>8 DEF WrittenSo
<1> QED BY <1>2, <1>9

(* So do all of them. *)
LEMMA LoopWrites ==
  ASSUME NEW S, DIGIT_COMMA \in S, NEW whole \in Seq(S), NEW rest \in Seq(S),
         \A i \in 1..Len(whole) : whole[i] # DIGIT_DOT /\ whole[i] # DIGIT_COMMA,
         NEW g, CommaStates(g, whole, rest, S)
  PROVE  WrittenSo(g[Len(whole)], whole, rest, 1, S)
<1>1. PICK m \in Nat : m = Len(whole)
  OBVIOUS
<1>2. /\ g[0] = [text |-> rest, cnt |-> 0]
      /\ \A k \in 1..m : g[k] = Copied(whole[m - (k - 1)], g[k - 1])
      /\ \A k \in 0..m : g[k] \in Written(S)
  BY <1>1 DEF CommaStates
<1> DEFINE T == {k \in Nat : k <= m => WrittenSo(g[k], whole, rest, (m - k) + 1, S)}
<1>3. 0 \in T
  <2>1. PICK C \in Seq(S) : Len(C) = 0 /\ C = <<>>
    BY EmptySeq
  <2>2. Beside(C, rest) = rest
    BY <2>1, ConcatEmptySeq DEF Beside
  <2>3. Grouped(C, 0, {})
    BY <2>1, NoDigitYet
  <2>4. Without(C, DIGIT_COMMA) = C
    <3>1. \A x \in Seq(S) : (\A i \in 1..Len(x) : x[i] # DIGIT_COMMA) => Without(x, DIGIT_COMMA) = x
      BY WithoutNone
    <3>2. \A i \in 1..Len(C) : C[i] # DIGIT_COMMA
      BY <2>1
    <3> QED BY <3>1, <3>2
  <2>5. RestOf(whole, (m - 0) + 1) = C
    <3>1. RestOf(whole, m + 1) = SubSeq(whole, m + 1, m)
      BY <1>1 DEF RestOf, Piece
    <3>2. SubSeq(whole, m + 1, m) = <<>>
      BY SubSeqEmpty
    <3> QED BY <1>1, <2>1, <3>1, <3>2
  <2>6. g[0].text = rest /\ g[0].cnt = 0
    BY <1>2
  <2>7. WrittenSo(g[0], whole, rest, (m - 0) + 1, S)
    BY <2>2, <2>3, <2>4, <2>5, <2>6 DEF WrittenSo
  <2> QED BY <2>7
<1>4. ASSUME NEW k \in Nat, k \in T, k + 1 <= m PROVE WrittenSo(g[k + 1], whole, rest, (m - (k + 1)) + 1, S)
  <2>1. PICK p \in 1..m : p = m - k /\ (m - (k + 1)) + 1 = p /\ (m - k) + 1 = p + 1
    BY <1>1, <1>4
  <2>2. g[k] \in Written(S) /\ g[k + 1] = Copied(whole[p], g[k])
    <3>1. k \in 0..m /\ k + 1 \in 1..m /\ (k + 1) - 1 = k /\ m - ((k + 1) - 1) = p
      BY <1>1, <1>4, <2>1
    <3>2. g[k + 1] = Copied(whole[m - ((k + 1) - 1)], g[(k + 1) - 1])
      BY <1>2, <3>1
    <3> QED BY <1>2, <3>1, <3>2
  <2>3. WrittenSo(g[k], whole, rest, p + 1, S)
    <3>1. k <= m
      BY <1>1, <1>4
    <3> QED BY <1>4, <2>1, <3>1
  <2>4. p \in 1..Len(whole) /\ whole[p] # DIGIT_DOT /\ whole[p] # DIGIT_COMMA
    BY <1>1, <2>1
  <2>5. PICK r \in Written(S) : r = g[k]
    BY <2>2
  <2>6. WrittenSo(Copied(whole[p], r), whole, rest, p, S)
    BY <2>3, <2>4, <2>5, PassWrites
  <2> QED BY <2>1, <2>2, <2>5, <2>6
<1>5. Nat \subseteq T
  <2>1. \A k \in Nat : k \in T => k + 1 \in T
    BY <1>4
  <2> HIDE DEF T
  <2> QED BY <1>3, <2>1, Induction
<1>6. WrittenSo(g[m], whole, rest, (m - m) + 1, S)
  BY <1>5
<1>7. (m - m) + 1 = 1
  OBVIOUS
<1> QED BY <1>1, <1>6, <1>7

(* Where Find finds a character.                                           *)
FirstAt(s, c, pos, i) == i \in pos..Len(s) /\ s[i] = c /\ \A j \in pos..(i - 1) : s[j] # c
NoneFrom(s, c, pos) == \A j \in pos..Len(s) : s[j] # c
Finds(s, c, pos, f) ==
  /\ NoneFrom(s, c, pos) => f = 0
  /\ \A i : FirstAt(s, c, pos, i) => f = i
  /\ (f = 0 /\ NoneFrom(s, c, pos)) \/ FirstAt(s, c, pos, f)
(* Find finds a character where it stands first, and 0 where it does not. *)
LEMMA CharacterFinds ==
  ASSUME NEW S, NEW s \in Seq(S), NEW c \in S, NEW pos \in Nat \ {0}
  PROVE  Finds(s, c, pos, Find(s, <<c>>, pos))
<1>1. PICK n \in Nat, x \in Seq(S), f \in Nat : n = Len(s) /\ x = <<c>> /\ Len(x) = 1 /\ x[1] = c /\ f = Find(s, <<c>>, pos)
  <2>1. <<c>> \in Seq(S) /\ Len(<<c>>) = 1 /\ <<c>>[1] = c
    BY OnePiece
  <2>2. Find(s, <<c>>, pos) \in Nat
    BY <2>1, FindIs
  <2>3. Len(s) \in Nat
    OBVIOUS
  <2> QED BY <2>1, <2>2, <2>3
<1>2. \A i : i \in pos..n => (Occurs(s, x, i) <=> s[i] = c)
  <2> TAKE i
  <2> HAVE i \in pos..n
  <2>1. i + 1 - 1 = i /\ \A k \in 1..Len(x) : k = 1
    BY <1>1
  <2> QED BY <1>1, <2>1 DEF Occurs
<1>3. pos..(Len(s) - Len(x) + 1) = pos..n
  <2>1. n - 1 + 1 = n
    OBVIOUS
  <2> QED BY <1>1, <2>1
<1>4. NotFound(s, x, pos) <=> NoneFrom(s, c, pos)
  BY <1>1, <1>2, <1>3 DEF NotFound, NoneFrom
<1>5. \A i : FoundAt(s, x, pos, i) <=> FirstAt(s, c, pos, i)
  <2> TAKE i
  <2>1. i \in pos..n => \A j \in pos..(i - 1) : j \in pos..n
    OBVIOUS
  <2> QED BY <1>1, <1>2, <1>3, <2>1 DEF FoundAt, FirstAt
<1>6. /\ f = 0 => NotFound(s, x, pos)
      /\ f # 0 => FoundAt(s, x, pos, f)
      /\ NotFound(s, x, pos) => f = 0
      /\ \A i \in Nat : FoundAt(s, x, pos, i) => f = i
  <2>1. \A y \in Seq(S) : /\ Find(s, y, pos) = 0 => NotFound(s, y, pos)
                          /\ Find(s, y, pos) # 0 => FoundAt(s, y, pos, Find(s, y, pos))
                          /\ NotFound(s, y, pos) => Find(s, y, pos) = 0
                          /\ \A i \in Nat : FoundAt(s, y, pos, i) => Find(s, y, pos) = i
    BY FindIs, FindsIt
  <2> QED BY <1>1, <2>1
<1>7. \A i : FirstAt(s, c, pos, i) => i \in Nat
  BY <1>1 DEF FirstAt
<1>8. Finds(s, c, pos, f)
  BY <1>4, <1>5, <1>6, <1>7 DEF Finds
<1> QED BY <1>1, <1>8

(* Before the first c of two texts is the first one, when it has no c and  *)
(* the second is empty or begins with c.                                   *)
LEMMA BeforeTheFirst ==
  ASSUME NEW S, NEW x \in Seq(S), NEW y \in Seq(S), NEW c \in S, NoneFrom(x, c, 1), Len(y) > 0 => y[1] = c
  PROVE  /\ Find(Beside(x, y), <<c>>, 1) = IF Len(y) = 0 THEN 0 ELSE Len(x) + 1
         /\ Before(Beside(x, y), Find(Beside(x, y), <<c>>, 1)) = x
<1>1. PICK z \in Seq(S), a \in Nat, b \in Nat :
        /\ z = Beside(x, y) /\ a = Len(x) /\ b = Len(y) /\ Len(z) = a + b
        /\ \A i \in 1..a : z[i] = x[i]
        /\ \A j \in 1..b : z[a + j] = y[j]
  <2>1. Beside(x, y) \in Seq(S) /\ AreBeside(x, y, Beside(x, y)) /\ Len(x) \in Nat /\ Len(y) \in Nat
    BY JoinedTexts
  <2> QED BY <2>1 DEF AreBeside
<1>2. PICK f : f = Find(z, <<c>>, 1)
  OBVIOUS
<1>3. Finds(z, c, 1, f)
  <2>1. \A t \in Seq(S) : Finds(t, c, 1, Find(t, <<c>>, 1))
    <3>1. 1 \in Nat \ {0}
      OBVIOUS
    <3> QED BY <3>1, CharacterFinds
  <2> QED BY <1>2, <2>1
<1>4. \A i \in 1..a : z[i] # c
  BY <1>1 DEF NoneFrom
<1>5. CASE b = 0
  <2>1. f = 0
    BY <1>1, <1>3, <1>4, <1>5 DEF Finds, NoneFrom
  <2>2. z = x
    <3>1. y = <<>>
      BY <1>1, <1>5, EmptySeq
    <3> QED BY <1>1, <3>1, ConcatEmptySeq DEF Beside
  <2> QED BY <1>1, <1>2, <1>5, <2>1, <2>2 DEF Before
<1>6. CASE b # 0
  <2>1. 1 \in 1..b /\ a + 1 \in 1..(a + b) /\ (a + 1) - 1 = a
    BY <1>1, <1>6
  <2>2. z[a + 1] = c
    BY <1>1, <2>1
  <2>3. FirstAt(z, c, 1, a + 1)
    BY <1>1, <1>4, <2>1, <2>2 DEF FirstAt
  <2>4. f = a + 1
    BY <1>3, <2>3 DEF Finds
  <2>5. Piece(Beside(x, y), 1, Len(x) + 0) = Beside(x, Piece(y, 1, 0))
    <3>1. 0 \in Nat /\ 0 <= Len(y)
      BY <1>1
    <3> QED BY <3>1, PieceAcross
  <2>6. Piece(y, 1, 0) = <<>>
    BY SubSeqEmpty DEF Piece
  <2>7. Beside(x, <<>>) = x
    BY ConcatEmptySeq DEF Beside
  <2>8. Len(x) + 0 = a
    BY <1>1
  <2>9. SubSeq(z, 1, a) = x
    BY <1>1, <2>5, <2>6, <2>7, <2>8 DEF Piece
  <2>10. Before(z, f) = x
    BY <2>1, <2>4, <2>9 DEF Before
  <2> QED BY <1>1, <1>2, <1>6, <2>4, <2>10
<1> QED BY <1>1, <1>5, <1>6

(* A text falls at its first c. *)
LEMMA SplitAtFirst ==
  ASSUME NEW S, NEW s \in Seq(S), NEW c \in S
  PROVE  \E x \in Seq(S), y \in Seq(S) :
           /\ s = Beside(x, y) /\ NoneFrom(x, c, 1) /\ (Len(y) > 0 => y[1] = c)
           /\ x = Before(s, Find(s, <<c>>, 1)) /\ y = SubSeq(s, Len(x) + 1, Len(s))
<1>1. PICK n, f : n \in Nat /\ n = Len(s) /\ f = Find(s, <<c>>, 1)
  OBVIOUS
<1>2. Finds(s, c, 1, f)
  <2>1. 1 \in Nat \ {0}
    OBVIOUS
  <2> QED BY <1>1, <2>1, CharacterFinds
<1>3. CASE f = 0
  <2>1. NoneFrom(s, c, 1)
    BY <1>2, <1>3 DEF Finds, FirstAt
  <2>2. PICK y \in Seq(S) : y = <<>> /\ Len(y) = 0
    BY EmptySeq
  <2>3. Beside(s, y) = s
    BY <2>2, ConcatEmptySeq DEF Beside
  <2>4. Before(s, f) = s
    BY <1>3 DEF Before
  <2>5. SubSeq(s, Len(s) + 1, Len(s)) = y
    BY <1>1, <2>2, SubSeqEmpty
  <2>6. s = Beside(s, y) /\ s = Before(s, Find(s, <<c>>, 1)) /\ y = SubSeq(s, Len(s) + 1, Len(s))
    BY <1>1, <2>3, <2>4, <2>5
  <2>7. ~(Len(y) > 0)
    BY <2>2
  <2> QED BY <2>1, <2>6, <2>7
<1>4. CASE f # 0
  <2>1. f \in 1..n /\ s[f] = c /\ \A j \in 1..(f - 1) : s[j] # c
    BY <1>1, <1>2, <1>4 DEF Finds, FirstAt
  <2>2. PICK x \in Seq(S) : x = Piece(s, 1, f - 1) /\ Len(x) = f - 1 /\ \A k \in 1..(f - 1) : x[k] = s[k]
    <3>1. Bounds(s, 1, f - 1) /\ (f - 1) - 1 + 1 = f - 1 /\ \A k \in 1..(f - 1) : 1 + k - 1 = k
      BY <1>1, <2>1 DEF Bounds
    <3>2. IsPiece(Piece(s, 1, f - 1), s, 1, f - 1, S)
      BY <3>1, PieceIs
    <3> QED BY <3>1, <3>2 DEF IsPiece
  <2>3. PICK y \in Seq(S) : y = RestOf(s, f) /\ Len(y) = n - f + 1 /\ \A k \in 1..(n - f + 1) : y[k] = s[f + k - 1]
    <3>1. Bounds(s, f, n)
      BY <1>1, <2>1 DEF Bounds
    <3>2. IsPiece(RestOf(s, f), s, f, n, S)
      BY <1>1, <3>1, PieceIs DEF RestOf
    <3> QED BY <3>2 DEF IsPiece
  <2>4. s = Beside(x, y)
    <3>1. PICK z \in Seq(S) : z = Beside(x, y) /\ AreBeside(x, y, z)
      BY JoinedTexts
    <3>2. /\ Len(z) = n /\ (\A i \in 1..(f - 1) : z[i] = s[i])
          /\ \A j \in 1..(n - f + 1) : z[(f - 1) + j] = y[j]
      <4>1. (f - 1) + (n - f + 1) = n
        BY <1>1, <2>1
      <4> QED BY <2>2, <2>3, <3>1, <4>1 DEF AreBeside
    <3>3. ASSUME NEW k \in 1..n PROVE z[k] = s[k]
      <4>1. CASE k \in 1..(f - 1)
        BY <3>2, <4>1
      <4>2. CASE k \notin 1..(f - 1)
        <5>1. PICK j \in 1..(n - f + 1) : k = (f - 1) + j
          <6>1. n \in Int /\ f \in Int /\ k \in Int /\ 1 <= f /\ f <= k /\ k <= n
            BY <1>1, <2>1, <4>2
          <6>2. PICK j : j = k - (f - 1)
            OBVIOUS
          <6>3. j \in 1..(n - f + 1) /\ k = (f - 1) + j
            BY <6>1, <6>2
          <6> QED BY <6>3
        <5>2. f + j - 1 = k
          BY <2>1, <5>1
        <5> QED BY <2>3, <3>2, <5>1, <5>2
      <4> QED BY <4>1, <4>2
    <3>4. z = s
      <4>1. Len(z) = Len(s) /\ \A k \in 1..Len(z) : z[k] = s[k]
        BY <1>1, <3>2, <3>3
      <4>2. \A u, v \in Seq(S) : Len(u) = Len(v) /\ (\A k \in 1..Len(u) : u[k] = v[k]) => u = v
        BY SeqEqual
      <4> QED BY <4>1, <4>2
    <3> QED BY <3>1, <3>4
  <2>5. NoneFrom(x, c, 1)
    BY <2>1, <2>2 DEF NoneFrom
  <2>6. Len(y) > 0 => y[1] = c
    <3>1. 1 \in 1..(n - f + 1) /\ f + 1 - 1 = f
      BY <1>1, <2>1
    <3> QED BY <2>1, <2>3, <3>1
  <2>7. x = Before(s, f)
    BY <1>4, <2>2 DEF Before, Piece
  <2>8. y = SubSeq(s, Len(x) + 1, Len(s))
    <3>1. (f - 1) + 1 = f
      BY <2>1
    <3> QED BY <2>2, <2>3, <3>1 DEF RestOf, Piece
  <2> QED BY <1>1, <2>4, <2>5, <2>6, <2>7, <2>8
<1> QED BY <1>3, <1>4

(* string_format_number_comma groups the digits in front of the dot by     *)
(* three, and adds nothing but commas.                                     *)
THEOREM CommasGroup ==
  ASSUME NEW num \in Seq(STRING), \A i \in 1..Len(num) : num[i] # DIGIT_COMMA, FitsCommas(num)
  PROVE  GroupsByThree(num)
<1>1. PICK S, s, n : /\ s \in Seq(S) /\ n \in Nat /\ DIGIT_COMMA \in S /\ DIGIT_DOT \in S /\ s = num /\ n = Len(num)
                                      /\ \A i \in 1..n : s[i] # DIGIT_COMMA
  <2> DEFINE S == STRING \cup {DIGIT_COMMA, DIGIT_DOT}
  <2>1. num \in Seq(S) /\ DIGIT_COMMA \in S /\ DIGIT_DOT \in S /\ Len(num) \in Nat
    <3>1. \A T, U : T \subseteq U => Seq(T) \subseteq Seq(U)
      OBVIOUS
    <3>2. STRING \subseteq S
      BY Zenon
    <3> QED BY <3>1, <3>2
  <2> HIDE DEF S
  <2> QED BY <2>1
<1> DEFINE Good(t, C) == /\ t = string_format_number_comma(s) /\ t \in Seq(S) /\ C \in Seq(S)
                         /\ Without(t, DIGIT_COMMA) = s
                         /\ C = Before(t, Find(t, <<DIGIT_DOT>>, 1))
                         /\ \A i \in 1..Len(t) : t[i] = DIGIT_COMMA =>
                              /\ i \in 1..Len(C) /\ HowMany(C, i) > 0 /\ HowMany(C, i) % 3 = 0
                              /\ \E j \in 1..(i - 1) : IsDigit(t[j])
<1>2. ASSUME n < 3 PROVE \E t, C : Good(t, C)
  <2>1. string_format_number_comma(s) = s
    BY <1>1, <1>2 DEF string_format_number_comma
  <2>2. Without(s, DIGIT_COMMA) = s
    BY <1>1, WithoutNone
  <2>3. PICK x \in Seq(S) : x = Before(s, Find(s, <<DIGIT_DOT>>, 1))
    BY <1>1, SplitAtFirst
  <2> QED BY <1>1, <2>1, <2>2, <2>3
<1>3. ASSUME ~(n < 3) PROVE \E t, C : Good(t, C)
  <2>1. PICK x \in Seq(S), y \in Seq(S) :
           /\ s = Beside(x, y) /\ NoneFrom(x, DIGIT_DOT, 1) /\ (Len(y) > 0 => y[1] = DIGIT_DOT)
           /\ x = Before(s, Find(s, <<DIGIT_DOT>>, 1)) /\ y = SubSeq(s, Len(x) + 1, Len(s))
    BY <1>1, SplitAtFirst
  <2>2. x = WholeOf(s)
    BY <2>1 DEF WholeOf, Before
  <2>3. PICK g : CommaStates(g, x, y, S) /\ string_format_number_comma(s) = g[Len(x)].text
    <3>1. ~(Len(s) < 3)
      BY <1>1, <1>3
    <3> QED BY <1>1, <2>1, <2>2, <3>1, CommaLoop
  <2>4. PICK a \in Nat, b \in Nat : a = Len(x) /\ b = Len(y) /\ (\A i \in 1..a : s[i] = x[i])
                                    /\ (\A j \in 1..b : s[a + j] = y[j]) /\ n = a + b
    <3>1. AreBeside(x, y, Beside(x, y)) /\ Len(x) \in Nat /\ Len(y) \in Nat
      BY JoinedTexts
    <3>2. PICK a \in Nat, b \in Nat : a = Len(x) /\ b = Len(y)
      BY <3>1
    <3>3. AreBeside(x, y, s)
      BY <2>1, <3>1
    <3>4. Len(s) = a + b /\ (\A i \in 1..a : s[i] = x[i]) /\ (\A j \in 1..b : s[a + j] = y[j])
      BY <3>2, <3>3 DEF AreBeside
    <3> QED BY <1>1, <3>2, <3>4
  <2>5. (\A i \in 1..a : x[i] # DIGIT_COMMA /\ x[i] # DIGIT_DOT) /\ \A j \in 1..b : y[j] # DIGIT_COMMA
    <3>1. \A i \in 1..a : i \in 1..n
      BY <2>4
    <3>2. \A j \in 1..b : a + j \in 1..n
      BY <2>4
    <3>3. \A i \in 1..a : x[i] # DIGIT_DOT
      BY <2>1, <2>4 DEF NoneFrom
    <3>4. \A i \in 1..a : x[i] # DIGIT_COMMA
      BY <1>1, <2>4, <3>1
    <3>5. \A j \in 1..b : y[j] # DIGIT_COMMA
      BY <1>1, <2>4, <3>2
    <3> QED BY <3>3, <3>4, <3>5
  <2>6. WrittenSo(g[a], x, y, 1, S)
    BY <1>1, <2>3, <2>4, <2>5, LoopWrites
  <2>7. PICK C, k : /\ C \in Seq(S) /\ g[a].text = Beside(C, y) /\ Grouped(C, k, {})
                               /\ Without(C, DIGIT_COMMA) = x
    <3>1. RestOf(x, 1) = x
      BY SubSeqFull DEF RestOf, Piece
    <3> QED BY <2>6, <3>1 DEF WrittenSo
  <2>8. PICK t \in Seq(S), m \in Nat :
          /\ t = Beside(C, y) /\ m = Len(C) /\ Len(t) = m + b
          /\ (\A i \in 1..m : t[i] = C[i]) /\ (\A j \in 1..b : t[m + j] = y[j])
    <3>1. Beside(C, y) \in Seq(S) /\ AreBeside(C, y, Beside(C, y)) /\ Len(C) \in Nat
      BY <2>7, JoinedTexts
    <3> QED BY <2>4, <3>1 DEF AreBeside
  <2>9. Without(t, DIGIT_COMMA) = s
    <3>1. \A u, v \in Seq(S) : Without(Beside(u, v), DIGIT_COMMA) = Beside(Without(u, DIGIT_COMMA), Without(v, DIGIT_COMMA))
      BY WithoutBeside
    <3>2. Without(y, DIGIT_COMMA) = y
      BY <2>4, <2>5, WithoutNone
    <3> QED BY <2>1, <2>7, <2>8, <3>1, <3>2, ZenonT(30)
  <2>10. \A i \in 1..m : C[i] # DIGIT_DOT /\ (C[i] = DIGIT_COMMA => CommaStands(C, i, {}))
    BY <2>7, <2>8 DEF Grouped
  <2>11. C = Before(t, Find(t, <<DIGIT_DOT>>, 1))
    <3>1. NoneFrom(C, DIGIT_DOT, 1)
      BY <2>8, <2>10 DEF NoneFrom
    <3>2. PICK d \in S : d = DIGIT_DOT
      BY <1>1
    <3>3. \A u, v \in Seq(S) : NoneFrom(u, d, 1) /\ (Len(v) > 0 => v[1] = d)
                               => Before(Beside(u, v), Find(Beside(u, v), <<d>>, 1)) = u
      BY BeforeTheFirst
    <3>4. Before(Beside(C, y), Find(Beside(C, y), <<d>>, 1)) = C
      <4>1. C \in Seq(S) /\ NoneFrom(C, d, 1) /\ (Len(y) > 0 => y[1] = d)
        BY <2>1, <2>7, <3>1, <3>2
      <4> QED BY <3>3, <4>1
    <3> QED BY <2>8, <3>2, <3>4
  <2>12. ASSUME NEW i \in 1..Len(t), t[i] = DIGIT_COMMA
         PROVE  /\ i \in 1..Len(C) /\ HowMany(C, i) > 0 /\ HowMany(C, i) % 3 = 0
                /\ \E j \in 1..(i - 1) : IsDigit(t[j])
    <3>1. i \in 1..m
      <4>1. SUFFICES ASSUME i \notin 1..m PROVE FALSE
        OBVIOUS
      <4>2. PICK j \in 1..b : i = m + j
        <5>1. i - m \in 1..b /\ i = m + (i - m)
          BY <2>8, <4>1
        <5> QED BY <5>1
      <4> QED BY <2>5, <2>8, <2>12, <4>2
    <3>2. CommaStands(C, i, {})
      BY <2>8, <2>10, <2>12, <3>1
    <3>3. PICK j \in 1..(i - 1) : IsDigit(C[j])
      BY <3>2 DEF CommaStands
    <3>4. j \in 1..m /\ t[j] = C[j]
      BY <2>8, <3>1
    <3>5. IsDigit(t[j])
      BY <3>3, <3>4
    <3> QED BY <2>8, <3>1, <3>2, <3>5 DEF CommaStands
  <2>13. t = string_format_number_comma(s)
    BY <2>3, <2>4, <2>7, <2>8
  <2>14. Good(t, C)
    <3>1. C \in Seq(S)
      BY <2>7
    <3>2. \A i \in 1..Len(t) : t[i] = DIGIT_COMMA =>
            /\ i \in 1..Len(C) /\ HowMany(C, i) > 0 /\ HowMany(C, i) % 3 = 0
            /\ \E j \in 1..(i - 1) : IsDigit(t[j])
      BY <2>12
    <3> QED BY <2>9, <2>11, <2>13, <3>1, <3>2
  <2> HIDE DEF Good
  <2> QED BY <2>14
<1>4. PICK t, C : Good(t, C)
  BY <1>2, <1>3
<1>5. /\ t = string_format_number_comma(num) /\ t \in Seq(S) /\ C \in Seq(S)
      /\ Without(t, DIGIT_COMMA) = num
      /\ C = Before(t, Find(t, <<DIGIT_DOT>>, 1))
      /\ \A i \in 1..Len(t) : t[i] = DIGIT_COMMA =>
           /\ i \in 1..Len(C) /\ HowMany(C, i) > 0 /\ HowMany(C, i) % 3 = 0
           /\ \E j \in 1..(i - 1) : IsDigit(t[j])
  BY <1>1, <1>4
<1> HIDE DEF Good
<1>6. DOMAIN t = 1..Len(t) /\ DOMAIN C = 1..Len(C)
  BY <1>5
<1>7. \A i : HowMany(C, i) = Cardinality({j \in (i + 1)..Len(C) : IsDigit(C[j])})
  BY DEF HowMany, DigitsBehind
<1> QED BY <1>5, <1>6, <1>7 DEF GroupsByThree
===============================================================================
