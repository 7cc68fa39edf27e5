--------------------------- MODULE FrameOrderProofs ---------------------------
(***************************************************************************)
(* Theorem about FrameOrder, for one producer and any number of consumers, *)
(* frames and particles: with the plain queue every frame is taken, once,  *)
(* in the order the frames were written.                                   *)
(***************************************************************************)
EXTENDS FrameOrder, ParticleQueueProofs

(* One thread produces, with the plain queue.                              *)
Only(p) == Producers = {p} /\ ~SingleProducer

(* A written frame with its number. *)
NumberedAs(d, n) == d \in written /\ info[d] = n

(* The frames of the vector that are still to be sent, wherever the call   *)
(* P_send_bulk has them.                                                   *)
AllNil(b) == \A i \in 1..Len(b) : b[i] = Nil
NoNil(b) == \A i \in 1..Len(b) : b[i] # Nil
Waits(t) == IF pc[t] = "send_bulk" THEN Len(local[t])
            ELSE IF AllNil(bulk[t]) THEN 0 ELSE Len(bulk[t])
WaitingFrame(t, i) == IF pc[t] = "send_bulk" THEN local[t][i] ELSE bulk[t][i].data

(* The frame in the producer's carrier, if it has been written. *)
SlotNumbered(t) == slot[t].data \in written
InSlot(t) == IF SlotNumbered(t) THEN 1 ELSE 0

(* The numbers of the frames between the consumers and the producer's pen: *)
(* first the lane, then the vector, then the carrier, without a gap.       *)
Numbering(t) ==
  /\ next = 1 + lastTaken + Len(ptoc[t]) + Waits(t) + InSlot(t)
  /\ \A i \in 1..Len(ptoc[t]) : NumberedAs(ptoc[t][i], lastTaken + i)
  /\ \A i \in 1..Waits(t) : NumberedAs(WaitingFrame(t, i), lastTaken + Len(ptoc[t]) + i)
  /\ SlotNumbered(t) => info[slot[t].data] = next - 1

(* What the producer has where it stands: a call is entered only when it   *)
(* may drop the carrier or has dropped it.                                 *)
SendState(t) ==
  /\ NoNil(bulk[t]) \/ (pc[t] \in {"send_bulk", "clear"} /\ AllNil(bulk[t]))
  /\ pc[t] = "send_bulk" => AllNil(bulk[t])
  /\ pc[t] \in {"send_bulk", "clear"} => slot[t] = Nil
  /\ pc[t] \notin {"idle", "send_bulk", "clear"} =>
       slot[t] = Nil \/ (SlotNumbered(t) /\ bulk[t] = <<>>)
  /\ pc[t] = "P_assign" => Head(local[t]) \notin written

OrderInv(p) ==
  /\ next \in Nat /\ lastTaken \in Nat /\ written \subseteq Particles
  /\ Numbering(p) /\ SendState(p)
  /\ \A l \in Lanes \ {p} : ptoc[l] = <<>>

-----------------------------------------------------------------------------
(* The client that numbers its frames is a client of the queue.            *)

(* A step of this client is one of the queue. *)
LEMMA OrderStepOfQueue ==
  ASSUME next \in Nat, NEW t \in Threads,
         Number(t) \/ ProducerStep(t) \/ ConsumerStep(t) \/ QueueStep(t)
  PROVE  InCall(t) \/ ClientStep(t)
<1>1. CASE Number(t)
  BY <1>1, OrderAssumption DEF Number, ClientStep
<1>2. CASE ProducerStep(t) \/ ConsumerStep(t)
  BY <1>2 DEF ProducerStep, ConsumerStep, ClientStep
<1> QED BY <1>1, <1>2 DEF QueueStep

-----------------------------------------------------------------------------
(* What the producer and the consumers do to the lanes.                    *)

(* The producer does not consume, and its carriers are bound for the lanes. *)
LEMMA SenderHosts ==
  ASSUME AllRoles, NEW p, Only(p)
  PROVE  /\ p \in Threads /\ p \notin Consumers /\ p \in Lanes
         /\ slot[p].host # "pool"
         /\ \A i \in 1..Len(bulk[p]) : bulk[p][i].host # "pool"
         /\ pc[p] \notin C_Calls \cup {"C_assign", "resize", "bulk_assign"}
BY OrderAssumption DEF Only, AllRoles, Roles, Threads, Lanes

(* Another thread does not produce. *)
LEMMA OthersConsume ==
  ASSUME AllRoles, NEW p, Only(p), NEW t \in Threads, t # p
  PROVE  /\ t \in Consumers /\ t \notin Producers
         /\ slot[t].host \notin Forwarding
         /\ \A i \in 1..Len(bulk[t]) : bulk[t][i].host \notin Forwarding
         /\ pc[t] \notin P_Calls \cup {"malloc", "fill", "thrown", "P_assign", "send_bulk"}
BY OrderAssumption DEF Only, AllRoles, Roles, Threads

(* A carrier the producer drops sends its frame to the producer's lane.    *)
LEMMA ReleaseSends ==
  ASSUME NEW p, Only(p), NEW c \in Carriers, c.host # "pool", Release(p, c)
  PROVE  /\ pool' = pool
         /\ c = Nil => ptoc' = ptoc
         /\ c # Nil => c.data \in Particles /\ ptoc' = [ptoc EXCEPT ![p] = Append(@, c.data)]
<1>1. ToConsumers = "ptoc" /\ ~EnqueueFails
  BY OrderAssumption DEF Only, ToConsumers, EnqueueFails
<1>2. c = Nil \/ (c.data \in Particles /\ c.host = "ptoc")
  BY <1>1 DEF Carriers
<1>3. LaneOf(p, c) = p \/ c = Nil
  BY <1>2 DEF LaneOf
<1> QED BY <1>1, <1>2, <1>3 DEF Release, Nil

(* A carrier a consumer drops leaves the lanes alone. *)
LEMMA ReleaseRecycles ==
  ASSUME NEW t, NEW c, c.host \notin Forwarding, Release(t, c)
  PROVE  ptoc' = ptoc /\ pool \subseteq pool'
BY OrderAssumption DEF Release, Forwarding, EnqueueFails

(* Where no lane loses a frame and the pool none either, none is noted. *)
LEMMA NothingTaken ==
  ASSUME Inv, Inv', NEW t, QueueStep(t), \A l \in Lanes : Len(ptoc[l]) <= Len(ptoc'[l]), pool \subseteq pool'
  PROVE  UNCHANGED <<next, written, lastTaken>>
<1>1. \A l \in Lanes : Len(ptoc[l]) \in Nat /\ Len(ptoc'[l]) \in Nat
  BY DEF Inv, TypeOK
<1>2. TakenFrom = {} /\ pool \ pool' = {}
  BY <1>1 DEF TakenFrom
<1> QED BY <1>2 DEF QueueStep

(* The numbering depends on what the producer has and on the lane only.    *)
LEMMA StillNumbered ==
  ASSUME NEW p, Numbering(p), ptoc'[p] = ptoc[p], bulk'[p] = bulk[p], local'[p] = local[p],
         slot'[p] = slot[p], info' = info, UNCHANGED <<next, written, lastTaken>>,
         pc'[p] = pc[p] \/ "send_bulk" \notin {pc[p], pc'[p]}
  PROVE  Numbering(p)'
BY DEF Numbering, Waits, WaitingFrame, InSlot, SlotNumbered, NumberedAs, AllNil

(* ... and so does the rest, unless the producer moves. *)
LEMMA StillSending ==
  ASSUME NEW p, SendState(p), bulk'[p] = bulk[p], local'[p] = local[p], slot'[p] = slot[p],
         pc'[p] = pc[p], written' = written
  PROVE  SendState(p)'
BY DEF SendState, SlotNumbered, AllNil, NoNil

-----------------------------------------------------------------------------
(* The consumers' steps. *)

(* A dequeue from a lane takes the oldest frame of the producer's. *)
LEMMA TakeInOrder ==
  ASSUME Inv, AllRoles, NEW p, Only(p), OrderInv(p), NEW t \in Threads, QueueStep(t),
         TakeFromPtoC(t) \/ TakeOneOfBulk(t)
  PROVE  OrderInv(p)' /\ lastTaken' = lastTaken + 1
<1>1. t # p /\ p \in Lanes /\ p \in Threads
  BY SenderHosts DEF TakeFromPtoC, TakeOneOfBulk, C_Calls
<1>2. ptoc[p] # <<>> /\ ptoc' = [ptoc EXCEPT ![p] = Tail(@)] /\ pool' = pool /\ info' = info
  BY DEF TakeFromPtoC, TakeOneOfBulk, OrderInv
<1>3. /\ slot'[p] = slot[p] /\ bulk'[p] = bulk[p] /\ local'[p] = local[p] /\ pc'[p] = pc[p]
  BY <1>1, OthersKeep DEF QueueStep
<1>4. PICK s : s = ptoc[p]
  OBVIOUS
<1>5. /\ s \in Seq(Particles) /\ s # <<>> /\ ptoc'[p] = Tail(s)
      /\ \A l \in Lanes \ {p} : ptoc'[l] = ptoc[l]
  BY <1>1, <1>2, <1>4 DEF Inv, TypeOK
<1>6. /\ Len(s) \in Nat \ {0} /\ Len(Tail(s)) = Len(s) - 1 /\ Head(s) = s[1]
      /\ \A i \in 1..Len(Tail(s)) : Tail(s)[i] = s[i + 1]
  BY <1>5, HeadTailProperties, EmptySeq, LenProperties
<1>7. TakenFrom = {p}
  <2>1. ASSUME NEW l \in Lanes \ {p} PROVE l \notin TakenFrom
    <3>1. Len(ptoc[l]) \in Nat /\ ptoc'[l] = ptoc[l]
      BY <1>5 DEF Inv, TypeOK
    <3> QED BY <3>1 DEF TakenFrom
  <2>2. p \in TakenFrom
    <3>1. Len(ptoc'[p]) = Len(ptoc[p]) - 1 /\ Len(ptoc[p]) \in Nat
      BY <1>4, <1>5, <1>6
    <3> QED BY <1>1, <3>1 DEF TakenFrom
  <2> QED BY <2>1, <2>2 DEF TakenFrom
<1>8. lastTaken' = info[s[1]] /\ written' = written /\ next' = next
  BY <1>2, <1>4, <1>6, <1>7 DEF QueueStep
<1>9. info[s[1]] = lastTaken + 1 /\ lastTaken \in Nat
  BY <1>4, <1>6 DEF OrderInv, Numbering, NumberedAs
<1>10. Numbering(p)'
  <2>1. /\ Waits(p)' = Waits(p) /\ InSlot(p)' = InSlot(p) /\ SlotNumbered(p)' = SlotNumbered(p)
        /\ \A i : WaitingFrame(p, i)' = WaitingFrame(p, i)
    BY <1>3, <1>8 DEF Waits, InSlot, SlotNumbered, WaitingFrame, AllNil
  <2>2. Waits(p) \in Nat /\ InSlot(p) \in Nat
    BY <1>1 DEF Waits, InSlot, Inv, TypeOK
  <2>3. next' = 1 + lastTaken' + Len(ptoc'[p]) + Waits(p)' + InSlot(p)'
    <3>1. next = 1 + lastTaken + Len(s) + Waits(p) + InSlot(p)
      BY <1>4 DEF OrderInv, Numbering
    <3>2. lastTaken' = lastTaken + 1 /\ Len(ptoc'[p]) = Len(s) - 1 /\ Len(s) \in Nat
      BY <1>5, <1>6, <1>8, <1>9
    <3> QED BY <1>8, <1>9, <2>1, <2>2, <3>1, <3>2
  <2>4. ASSUME NEW i \in 1..Len(ptoc'[p])
        PROVE  ptoc'[p][i] \in written' /\ info'[ptoc'[p][i]] = lastTaken' + i
    <3>1. i + 1 \in 1..Len(s) /\ ptoc'[p][i] = s[i + 1] /\ lastTaken' + i = lastTaken + (i + 1)
      <4>1. i \in 1..Len(Tail(s)) /\ ptoc'[p][i] = Tail(s)[i]
        BY <1>5
      <4>2. i \in Nat /\ i + 1 \in 1..Len(s) /\ Tail(s)[i] = s[i + 1]
        BY <1>6, <4>1
      <4>3. lastTaken' = lastTaken + 1
        BY <1>8, <1>9
      <4> QED BY <1>9, <4>1, <4>2, <4>3
    <3> QED BY <1>2, <1>4, <1>8, <3>1 DEF OrderInv, Numbering, NumberedAs
  <2>5. ASSUME NEW i \in 1..Waits(p)
        PROVE  NumberedAs(WaitingFrame(p, i), lastTaken + Len(ptoc[p]) + i)'
    <3>0. lastTaken' + Len(ptoc'[p]) = lastTaken + Len(ptoc[p])
      <4>1. Len(ptoc'[p]) = Len(s) - 1 /\ Len(ptoc[p]) = Len(s) /\ Len(s) \in Nat
        BY <1>4, <1>5, <1>6
      <4>2. lastTaken' = lastTaken + 1 /\ lastTaken \in Nat
        BY <1>8, <1>9
      <4> QED BY <4>1, <4>2
    <3>1. lastTaken' + Len(ptoc'[p]) + i = lastTaken + Len(ptoc[p]) + i
      BY <3>0
    <3> QED BY <1>2, <1>8, <2>1, <3>1 DEF OrderInv, Numbering, NumberedAs
  <2>6. SlotNumbered(p)' => info'[slot'[p].data] = next' - 1
    BY <1>2, <1>3, <1>8, <2>1 DEF OrderInv, Numbering
  <2> QED BY <2>1, <2>3, <2>4, <2>5, <2>6 DEF Numbering, NumberedAs
<1>11. SendState(p)'
  BY <1>3, <1>8, StillSending DEF OrderInv
<1> QED BY <1>5, <1>8, <1>9, <1>10, <1>11 DEF OrderInv

(* No other step of a consumer touches the lanes. *)
LEMMA ConsumerQuiet ==
  ASSUME Inv, AllRoles, NEW p, Only(p), NEW t \in Threads, t # p,
         InCall(t) \/ ConsumerStep(t), ~TakeFromPtoC(t), ~TakeOneOfBulk(t)
  PROVE  ptoc' = ptoc /\ pool \subseteq pool' /\ info' = info
<1>1. /\ pc[t] \notin P_Calls \cup {"malloc", "fill", "thrown", "P_assign", "send_bulk"}
      /\ slot[t].host \notin Forwarding
      /\ \A i \in 1..Len(bulk[t]) : bulk[t][i].host \notin Forwarding
  BY OthersConsume
<1>2. CASE C_Assign(t) \/ AssignNull(t) \/ Reset(t)
  BY <1>1, <1>2, ReleaseRecycles DEF C_Assign, AssignNull, Reset
<1>3. CASE C_Miss(t) \/ TakeBulkDone(t) \/ PadBulk(t) \/ ClearDone(t)
  BY <1>3 DEF C_Miss, TakeBulkDone, PadBulk, ClearDone
<1>4. CASE ShrinkBulk(t) \/ ClearBulk(t)
  <2>1. bulk[t] \in Seq(Carriers) /\ local[t] \in Seq(Particles)
    BY DEF Inv, TypeOK
  <2>2. CASE ShrinkBulk(t)
    <3>1. Len(local[t]) + 1 \in 1..Len(bulk[t])
      BY <2>1, <2>2 DEF ShrinkBulk
    <3> QED BY <1>1, <2>2, <3>1, ReleaseRecycles DEF ShrinkBulk
  <2>3. CASE ClearBulk(t)
    <3>1. 1 \in 1..Len(bulk[t]) /\ Head(bulk[t]) = bulk[t][1]
      BY <2>1, <2>3, HeadTailProperties, EmptySeq, LenProperties DEF ClearBulk
    <3> QED BY <1>1, <2>3, <3>1, ReleaseRecycles DEF ClearBulk
  <2> QED BY <1>4, <2>2, <2>3
<1>5. CASE AssignBulk(t)
  <2>1. /\ bulk[t] \in Seq(Carriers) /\ local[t] \in Seq(Particles)
        /\ local[t] # <<>> /\ Len(local[t]) <= Len(bulk[t])
    BY <1>5 DEF Inv, TypeOK, CallState, AssignBulk
  <2>2. Len(bulk[t]) - Len(local[t]) + 1 \in 1..Len(bulk[t])
    <3>1. Len(bulk[t]) \in Nat /\ Len(local[t]) \in Nat /\ Len(local[t]) # 0
      BY <2>1, EmptySeq, LenProperties
    <3>2. \A m, n \in Nat : n # 0 /\ n <= m => m - n + 1 \in 1..m
      OBVIOUS
    <3> QED BY <2>1, <3>1, <3>2
  <2> QED BY <1>1, <1>5, <2>2, ReleaseRecycles DEF AssignBulk
<1>6. CASE \E op \in C_Calls \cup {"clear"} : Call(t, op)
  BY <1>6 DEF Call
<1>7. /\ ~TakeFromPool(t) /\ ~P_Timeout(t) /\ ~P_Miss(t) /\ ~P_Assign(t)
      /\ ~Malloc(t) /\ ~MallocThrows(t) /\ ~Catch(t)
      /\ ~FillPool(t) /\ ~FillDone(t) /\ ~FillFails(t) /\ ~EnqueueBulk(t)
  BY <1>1
  DEF TakeFromPool, P_Timeout, P_Miss, P_Calls, P_Assign, Malloc, MallocThrows, Catch, FillPool, FillDone,
      FillFails, EnqueueBulk
<1> QED BY <1>2, <1>3, <1>4, <1>5, <1>6, <1>7 DEF InCall, ConsumerStep

(* The consumers keep the order. *)
LEMMA ConsumersKeepOrder ==
  ASSUME Inv, Inv', AllRoles, NEW p, Only(p), OrderInv(p), NEW t \in Threads, t # p,
         QueueStep(t) \/ ConsumerStep(t), ~TakeFromPtoC(t), ~TakeOneOfBulk(t)
  PROVE  OrderInv(p)' /\ lastTaken' = lastTaken
<1>1. ptoc' = ptoc /\ pool \subseteq pool' /\ info' = info
  BY ConsumerQuiet DEF QueueStep
<1>2. UNCHANGED <<next, written, lastTaken>>
  <2>1. CASE QueueStep(t)
    <3>1. \A l \in Lanes : Len(ptoc[l]) <= Len(ptoc'[l])
      BY <1>1 DEF Inv, TypeOK
    <3> QED BY <1>1, <2>1, <3>1, NothingTaken
  <2>2. CASE ConsumerStep(t)
    BY <2>2 DEF ConsumerStep
  <2> QED BY <2>1, <2>2
<1>3. /\ slot'[p] = slot[p] /\ bulk'[p] = bulk[p] /\ local'[p] = local[p] /\ pc'[p] = pc[p]
  BY OthersKeep, OrderStepOfQueue, SenderHosts DEF OrderInv
<1>4. Numbering(p)' /\ SendState(p)'
  BY <1>1, <1>2, <1>3, StillNumbered, StillSending DEF OrderInv
<1> QED BY <1>1, <1>2, <1>4 DEF OrderInv

-----------------------------------------------------------------------------
(* The producer's steps. *)

(* A vector without null pointers waits as a whole, and one of them only   *)
(* does not wait.                                                          *)
LEMMA WaitsWhole ==
  ASSUME NEW b \in Seq(Carriers)
  PROVE  /\ NoNil(b) => (IF AllNil(b) THEN 0 ELSE Len(b)) = Len(b)
         /\ Len(b) \in Nat
BY DEF NoNil, AllNil

(* The carrier dropped when a call replaces it, or by reset, was the last  *)
(* frame written and all others are in the lane.                           *)
LEMMA SlotSent ==
  ASSUME Inv, AllRoles, NEW p, Only(p), OrderInv(p), Release(p, slot[p]),
         slot[p] = Nil \/ (SlotNumbered(p) /\ bulk[p] = <<>>),
         slot'[p].data \notin written, bulk'[p] = bulk[p], info' = info,
         UNCHANGED <<next, written, lastTaken>>, "send_bulk" \notin {pc[p], pc'[p]}
  PROVE  Numbering(p)' /\ pool' = pool /\ \A l \in Lanes : Len(ptoc[l]) <= Len(ptoc'[l])
<1>1. /\ slot[p] \in Carriers /\ slot[p].host # "pool" /\ p \in Lanes
      /\ ptoc \in [Lanes -> Seq(Particles)]
  BY SenderHosts DEF Inv, TypeOK
<1>2. /\ pool' = pool
      /\ slot[p] = Nil => ptoc' = ptoc
      /\ slot[p] # Nil => slot[p].data \in Particles /\ ptoc' = [ptoc EXCEPT ![p] = Append(@, slot[p].data)]
  BY <1>1, ReleaseSends
<1>3. InSlot(p)' = 0 /\ ~SlotNumbered(p)' /\ Waits(p)' = Waits(p)
      /\ \A i : WaitingFrame(p, i)' = WaitingFrame(p, i)
  BY DEF InSlot, SlotNumbered, Waits, WaitingFrame, AllNil
<1>4. CASE slot[p] = Nil
  <2>1. ~SlotNumbered(p)
    BY <1>4, ConstantAssumption DEF SlotNumbered, Nil, OrderInv
  <2>2. Numbering(p)'
    BY <1>2, <1>3, <1>4, <2>1 DEF OrderInv, Numbering, NumberedAs, InSlot
  <2> QED BY <1>1, <1>2, <1>4, <2>2
<1>5. CASE slot[p] # Nil
  <2>1. PICK s, d : s = ptoc[p] /\ d = slot[p].data
    OBVIOUS
  <2>2. /\ s \in Seq(Particles) /\ d \in Particles /\ ptoc'[p] = Append(s, d)
        /\ \A l \in Lanes \ {p} : ptoc'[l] = ptoc[l]
    BY <1>1, <1>2, <1>5, <2>1
  <2>3. /\ Len(s) \in Nat /\ Len(Append(s, d)) = Len(s) + 1 /\ Append(s, d)[Len(s) + 1] = d
        /\ \A i \in 1..Len(s) : Append(s, d)[i] = s[i]
    BY <2>2, AppendProperties
  <2>4. Waits(p) = 0 /\ InSlot(p) = 1
    BY <1>5, EmptySeq DEF Waits, AllNil, InSlot
  <2>5. next = lastTaken + Len(s) + 2 /\ d \in written /\ info[d] = next - 1 /\ lastTaken \in Nat
    <3>1. next = 1 + lastTaken + Len(s) + Waits(p) + InSlot(p) /\ lastTaken \in Nat
      BY <2>1 DEF OrderInv, Numbering
    <3>2. d \in written /\ info[d] = next - 1
      BY <1>5, <2>1 DEF OrderInv, Numbering, SlotNumbered
    <3> QED BY <2>3, <2>4, <3>1, <3>2
  <2>6. ASSUME NEW i \in 1..Len(ptoc'[p])
        PROVE  ptoc'[p][i] \in written' /\ info'[ptoc'[p][i]] = lastTaken' + i
    <3>1. CASE i \in 1..Len(s)
      <4>1. ptoc'[p][i] = s[i]
        BY <2>2, <2>3, <3>1
      <4>2. s[i] \in written /\ info[s[i]] = lastTaken + i
        BY <2>1, <3>1 DEF OrderInv, Numbering, NumberedAs
      <4> QED BY <4>1, <4>2
    <3>2. CASE i = Len(s) + 1
      BY <2>2, <2>3, <2>5, <3>2
    <3> QED BY <2>2, <2>3, <3>1, <3>2
  <2>7. next' = 1 + lastTaken' + Len(ptoc'[p]) + Waits(p)' + InSlot(p)'
    BY <1>3, <2>2, <2>3, <2>4, <2>5
  <2>8. Numbering(p)'
    BY <1>3, <2>4, <2>6, <2>7 DEF Numbering, NumberedAs
  <2>9. ASSUME NEW l \in Lanes PROVE Len(ptoc[l]) <= Len(ptoc'[l])
    BY <1>1, <2>1, <2>2, <2>3
  <2> QED BY <1>2, <2>8, <2>9
<1> QED BY <1>4, <1>5

(* The steps of the producer that neither take, send nor write a frame.    *)
LEMMA ProducerQuiet ==
  ASSUME Inv, Inv', AllRoles, NEW p, Only(p), OrderInv(p), QueueStep(p),
         \/ P_Timeout(p) \/ P_Miss(p) \/ Malloc(p) \/ MallocThrows(p) \/ Catch(p)
         \/ FillPool(p) \/ FillDone(p) \/ ClearDone(p)
  PROVE  OrderInv(p)' /\ lastTaken' = lastTaken
<1>1. /\ ptoc' = ptoc /\ pool \subseteq pool' /\ info' = info
      /\ slot' = slot /\ bulk' = bulk /\ local' = local
      /\ \/ pc'[p] = pc[p]
         \/ /\ pc[p] \notin {"idle", "send_bulk", "clear"}
            /\ pc'[p] \notin {"send_bulk", "clear", "P_assign"}
         \/ pc[p] = "clear" /\ pc'[p] = "idle" /\ bulk[p] = <<>>
  BY SenderHosts DEF P_Timeout, P_Miss, Malloc, MallocThrows, Catch, FillPool, FillDone, ClearDone, Goto, Inv,
     TypeOK, P_Calls
<1>2. UNCHANGED <<next, written, lastTaken>>
  <2>1. \A l \in Lanes : Len(ptoc[l]) <= Len(ptoc'[l])
    BY <1>1 DEF Inv, TypeOK
  <2> QED BY <1>1, <2>1, NothingTaken
<1>3. Numbering(p)'
  BY <1>1, <1>2, StillNumbered DEF OrderInv
<1>4. SendState(p)'
  BY <1>1, <1>2, EmptySeq DEF OrderInv, SendState, SlotNumbered, AllNil, NoNil
<1> QED BY <1>1, <1>2, <1>3, <1>4 DEF OrderInv

(* Entering a call. *)
LEMMA ProducerCalls ==
  ASSUME Inv, AllRoles, NEW p, Only(p), OrderInv(p), ProducerStep(p),
         NEW op \in P_Calls \cup {"clear"}, Call(p, op), op = "clear" => slot[p] = Nil,
         op # "clear" => ReadyToSend(p)
  PROVE  OrderInv(p)' /\ lastTaken' = lastTaken
<1>1. /\ ptoc' = ptoc /\ info' = info /\ slot' = slot /\ bulk' = bulk /\ local' = local
      /\ pc[p] = "idle" /\ pc'[p] = op /\ UNCHANGED <<next, written, lastTaken>>
      /\ op \notin {"idle", "send_bulk", "P_assign"}
  BY SenderHosts DEF Call, ProducerStep, Goto, Inv, TypeOK, P_Calls
<1>2. Numbering(p)'
  BY <1>1, StillNumbered DEF OrderInv
<1>3. SendState(p)'
  BY <1>1 DEF OrderInv, SendState, SlotNumbered, AllNil, NoNil, ReadyToSend
<1> QED BY <1>1, <1>2, <1>3 DEF OrderInv

(* A particle taken from the pool is not among the frames on their way.    *)
LEMMA TakeNew ==
  ASSUME Inv, OneOwner, AllRoles, NEW p, Only(p), OrderInv(p), QueueStep(p), TakeFromPool(p)
  PROVE  OrderInv(p)' /\ lastTaken' = lastTaken
<1>1. PICK d \in pool : pool' = pool \ {d} /\ local' = [local EXCEPT ![p] = <<d>>]
  BY DEF TakeFromPool
<1>2. /\ ptoc' = ptoc /\ info' = info /\ slot' = slot /\ bulk' = bulk
      /\ local'[p] = <<d>> /\ pc[p] \in P_Calls /\ pc'[p] = "P_assign" /\ d \in Particles
      /\ p \in Threads /\ p \in Lanes
  BY <1>1, SenderHosts DEF TakeFromPool, Goto, Inv, TypeOK
<1>3. written' = written \ {d} /\ next' = next /\ lastTaken' = lastTaken
  <2>1. \A l \in Lanes : Len(ptoc[l]) \in Nat
    BY DEF Inv, TypeOK
  <2>2. TakenFrom = {} /\ pool \ pool' = {d}
    BY <1>1, <1>2, <2>1 DEF TakenFrom
  <2> QED BY <2>2 DEF QueueStep
<1>4. /\ \A i \in 1..Len(ptoc[p]) : ptoc[p][i] # d
      /\ \A i \in 1..Len(bulk[p]) : bulk[p][i].data # d
      /\ slot[p].data # d
  <2>1. d \notin InFlight /\ d \notin Private(p)
    BY <1>2 DEF OneOwner
  <2>2. d # NoParticle
    BY <1>2, ConstantAssumption
  <2> QED BY <1>2, <2>1, <2>2 DEF InFlight, Private, Elems, SlotData, BulkData
<1>5. Numbering(p)'
  <2>1. /\ Waits(p)' = Waits(p) /\ Waits(p) \in {0, Len(bulk[p])}
        /\ \A i : WaitingFrame(p, i)' = bulk[p][i].data /\ WaitingFrame(p, i) = bulk[p][i].data
    BY <1>2 DEF Waits, WaitingFrame, AllNil, P_Calls
  <2>2. SlotNumbered(p)' = SlotNumbered(p) /\ InSlot(p)' = InSlot(p)
    BY <1>2, <1>3, <1>4 DEF SlotNumbered, InSlot
  <2>3. ASSUME NEW i \in 1..Waits(p) PROVE bulk[p][i].data # d
    BY <1>4, <2>1
  <2>4. next' = 1 + lastTaken' + Len(ptoc'[p]) + Waits(p)' + InSlot(p)'
    BY <1>2, <1>3, <2>1, <2>2 DEF OrderInv, Numbering
  <2>5. ASSUME NEW i \in 1..Len(ptoc'[p])
        PROVE  ptoc'[p][i] \in written' /\ info'[ptoc'[p][i]] = lastTaken' + i
    BY <1>2, <1>3, <1>4 DEF OrderInv, Numbering, NumberedAs
  <2>6. ASSUME NEW i \in 1..Waits(p)
        PROVE  NumberedAs(WaitingFrame(p, i), lastTaken + Len(ptoc[p]) + i)'
    <3>1. NumberedAs(bulk[p][i].data, lastTaken + Len(ptoc[p]) + i)
      BY <2>1 DEF OrderInv, Numbering
    <3> QED BY <1>2, <1>3, <2>1, <2>3, <3>1 DEF NumberedAs
  <2>7. SlotNumbered(p)' => info'[slot'[p].data] = next' - 1
    BY <1>2, <1>3, <2>2 DEF OrderInv, Numbering
  <2> QED BY <2>1, <2>4, <2>5, <2>6, <2>7 DEF Numbering, NumberedAs
<1>6. SendState(p)'
  <2>1. Head(local'[p]) = d
    BY <1>2
  <2>2. slot[p] = Nil \/ (SlotNumbered(p) /\ bulk[p] = <<>>)
    BY <1>2 DEF OrderInv, SendState, P_Calls
  <2>3. SlotNumbered(p)' = SlotNumbered(p)
    BY <1>2, <1>3, <1>4 DEF SlotNumbered
  <2>4. NoNil(bulk[p])
    BY <1>2 DEF OrderInv, SendState, P_Calls
  <2> QED BY <1>2, <1>3, <2>1, <2>2, <2>3, <2>4 DEF SendState, NoNil, AllNil
<1> QED BY <1>2, <1>3, <1>5, <1>6 DEF OrderInv

(* A call that returns drops the carrier the producer entered it with. *)
LEMMA ProducerReturns ==
  ASSUME Inv, Inv', AllRoles, NEW p, Only(p), OrderInv(p), QueueStep(p), P_Assign(p) \/ AssignNull(p)
  PROVE  OrderInv(p)' /\ lastTaken' = lastTaken
<1>1. /\ Release(p, slot[p]) /\ bulk' = bulk /\ info' = info
      /\ pc[p] \in {"P_assign", "assign_null"} /\ pc'[p] = "idle" /\ p \in Threads
  BY SenderHosts DEF P_Assign, AssignNull, Goto, Inv, TypeOK
<1>2. slot'[p].data \notin written
  <2>1. CASE P_Assign(p)
    <3>1. slot'[p] = ForConsumers(Head(local[p])) /\ Head(local[p]) \notin written
      BY <1>1, <2>1 DEF P_Assign, Inv, TypeOK, OrderInv, SendState
    <3> QED BY <3>1 DEF ForConsumers, Carrier
  <2>2. CASE AssignNull(p)
    BY <1>1, <2>2, ConstantAssumption DEF AssignNull, Inv, TypeOK, OrderInv, Nil
  <2> QED BY <2>1, <2>2
<1>3. slot[p] = Nil \/ (SlotNumbered(p) /\ bulk[p] = <<>>)
  BY <1>1 DEF OrderInv, SendState
<1>4. NoNil(bulk[p])
  BY <1>1 DEF OrderInv, SendState
<1>5. /\ pool' = pool /\ \A l \in Lanes : Len(ptoc[l]) <= Len(ptoc'[l])
      /\ \A l \in Lanes \ {p} : ptoc'[l] = ptoc[l]
  <2>1. slot[p] \in Carriers /\ slot[p].host # "pool" /\ ptoc \in [Lanes -> Seq(Particles)]
    BY <1>1, SenderHosts DEF Inv, TypeOK
  <2>2. /\ pool' = pool
        /\ slot[p] = Nil => ptoc' = ptoc
        /\ slot[p] # Nil => slot[p].data \in Particles /\ ptoc' = [ptoc EXCEPT ![p] = Append(@, slot[p].data)]
    BY <1>1, <2>1, ReleaseSends
  <2>3. ASSUME NEW l \in Lanes PROVE Len(ptoc[l]) <= Len(ptoc'[l])
    BY <2>1, <2>2, SenderHosts
  <2> QED BY <2>1, <2>2, <2>3
<1>6. UNCHANGED <<next, written, lastTaken>>
  BY <1>5, NothingTaken
<1>7. Numbering(p)'
  BY <1>1, <1>2, <1>3, <1>6, SlotSent
<1>8. SendState(p)'
  BY <1>1, <1>4 DEF SendState, NoNil
<1> QED BY <1>5, <1>6, <1>7, <1>8 DEF OrderInv

(* P_send, or the end of the carrier's scope. *)
LEMMA ProducerResets ==
  ASSUME Inv, AllRoles, NEW p, Only(p), OrderInv(p), ProducerStep(p), ReadyToSend(p), Reset(p)
  PROVE  OrderInv(p)' /\ lastTaken' = lastTaken
<1>1. /\ Release(p, slot[p]) /\ bulk' = bulk /\ info' = info /\ slot'[p] = Nil
      /\ pc[p] = "idle" /\ pc' = pc /\ UNCHANGED <<next, written, lastTaken>>
      /\ slot[p] \in Carriers /\ slot[p].host # "pool" /\ ptoc \in [Lanes -> Seq(Particles)]
  BY SenderHosts DEF Reset, ProducerStep, Inv, TypeOK
<1>2. slot'[p].data \notin written
  BY <1>1, ConstantAssumption DEF OrderInv, Nil
<1>3. Numbering(p)'
  BY <1>1, <1>2, SlotSent DEF ReadyToSend, SlotNumbered
<1>4. \A l \in Lanes \ {p} : ptoc'[l] = ptoc[l]
  BY <1>1, ReleaseSends
<1>5. SendState(p)'
  BY <1>1 DEF OrderInv, SendState, NoNil
<1> QED BY <1>1, <1>3, <1>4, <1>5 DEF OrderInv

(* The pen: the next number goes into the frame of the carrier. *)
LEMMA ProducerNumbers ==
  ASSUME Inv, AllRoles, NEW p, Only(p), OrderInv(p), Number(p)
  PROVE  OrderInv(p)' /\ lastTaken' = lastTaken
<1>1. PICK d : d = slot[p].data
  OBVIOUS
<1>2. /\ slot[p] # Nil /\ d \in Particles /\ d \notin written /\ slot[p] \in Carriers
      /\ info' = [info EXCEPT ![d] = next] /\ written' = written \cup {d}
      /\ next' = next + 1 /\ lastTaken' = lastTaken /\ pc[p] = "idle"
      /\ UNCHANGED <<ptoc, slot, bulk, local, pc>>
  BY <1>1, SenderHosts, DataType DEF Number, Write, Inv, TypeOK
<1>3. /\ info'[d] = next
      /\ \A e \in written : e \in written' /\ info'[e] = info[e]
  BY <1>2 DEF Inv, TypeOK, OrderInv
<1>4. Waits(p)' = Waits(p) /\ \A i : WaitingFrame(p, i)' = WaitingFrame(p, i)
  BY <1>2 DEF Waits, WaitingFrame, AllNil
<1>5. InSlot(p) = 0 /\ InSlot(p)' = 1 /\ SlotNumbered(p)'
  BY <1>1, <1>2 DEF InSlot, SlotNumbered
<1>6. Numbering(p)'
  <2>0. Len(ptoc[p]) \in Nat /\ Waits(p) \in Nat /\ next \in Nat /\ lastTaken \in Nat
    BY <1>2, SenderHosts DEF Waits, Inv, TypeOK, OrderInv
  <2>1. next' = 1 + lastTaken' + Len(ptoc'[p]) + Waits(p)' + InSlot(p)'
    <3>1. next = 1 + lastTaken + Len(ptoc[p]) + Waits(p) + InSlot(p)
      BY DEF OrderInv, Numbering
    <3> QED BY <1>2, <1>4, <1>5, <2>0, <3>1
  <2>2. ASSUME NEW i \in 1..Len(ptoc'[p])
        PROVE  ptoc'[p][i] \in written' /\ info'[ptoc'[p][i]] = lastTaken' + i
    BY <1>2, <1>3 DEF OrderInv, Numbering, NumberedAs
  <2>3. ASSUME NEW i \in 1..Waits(p)
        PROVE  NumberedAs(WaitingFrame(p, i), lastTaken + Len(ptoc[p]) + i)'
    <3>1. NumberedAs(WaitingFrame(p, i), lastTaken + Len(ptoc[p]) + i)
      BY DEF OrderInv, Numbering
    <3> QED BY <1>2, <1>3, <1>4, <3>1 DEF NumberedAs
  <2>4. info'[slot'[p].data] = next' - 1
    BY <1>1, <1>2, <1>3, <2>0
  <2> QED BY <1>4, <2>1, <2>2, <2>3, <2>4 DEF Numbering, NumberedAs
<1>7. SendState(p)'
  BY <1>2 DEF OrderInv, SendState, NoNil
<1> QED BY <1>2, <1>6, <1>7, <1>3 DEF OrderInv

(* The written frame joins the vector. *)
LEMMA ProducerStashes ==
  ASSUME Inv, AllRoles, NEW p, Only(p), OrderInv(p), ProducerStep(p), SlotNumbered(p), Stash(p)
  PROVE  OrderInv(p)' /\ lastTaken' = lastTaken
<1>1. PICK s, b, c : s = ptoc[p] /\ b = bulk[p] /\ c = slot[p]
  OBVIOUS
<1>2. /\ b \in Seq(Carriers) /\ c \in Carriers /\ c # Nil /\ bulk'[p] = Append(b, c) /\ slot'[p] = Nil
      /\ pc[p] = "idle" /\ UNCHANGED <<ptoc, local, info, pc, next, written, lastTaken>>
  BY <1>1, SenderHosts DEF Stash, ProducerStep, Inv, TypeOK
<1>3. /\ Len(b) \in Nat /\ Len(Append(b, c)) = Len(b) + 1 /\ Append(b, c)[Len(b) + 1] = c
      /\ \A i \in 1..Len(b) : Append(b, c)[i] = b[i]
      /\ Append(b, c) \in Seq(Carriers)
  BY <1>2, AppendProperties
<1>4. NoNil(b) /\ NoNil(bulk'[p])
  <2>1. NoNil(b)
    BY <1>1, <1>2 DEF OrderInv, SendState
  <2> QED BY <1>2, <1>3, <2>1 DEF NoNil
<1>5. Waits(p) = Len(b) /\ Waits(p)' = Len(b) + 1
  <2>1. Waits(p)' = IF AllNil(bulk'[p]) THEN 0 ELSE Len(bulk'[p])
    BY <1>2 DEF Waits, AllNil
  <2> QED BY <1>1, <1>2, <1>3, <1>4, <2>1, WaitsWhole DEF Waits
<1>6. ~SlotNumbered(p)' /\ InSlot(p)' = 0 /\ InSlot(p) = 1
  BY <1>2, ConstantAssumption DEF SlotNumbered, InSlot, OrderInv, Nil
<1>7. Len(s) \in Nat /\ Len(b) \in Nat /\ next \in Nat /\ lastTaken \in Nat
  BY <1>1, <1>3, SenderHosts DEF Inv, TypeOK, OrderInv
<1>8. next = 1 + lastTaken + Len(s) + Len(b) + 1
  BY <1>1, <1>5, <1>6 DEF OrderInv, Numbering
<1>9. Numbering(p)'
  <2>1. next' = 1 + lastTaken' + Len(ptoc'[p]) + Waits(p)' + InSlot(p)'
    <3>1. /\ next' = next /\ lastTaken' = lastTaken /\ ptoc'[p] = s
          /\ Waits(p)' = Len(b) + 1 /\ InSlot(p)' = 0
      BY <1>1, <1>2, <1>5, <1>6
    <3> QED BY <1>7, <1>8, <3>1
  <2>2. \A i \in 1..Len(ptoc'[p]) : NumberedAs(ptoc[p][i], lastTaken + i)'
    BY <1>2 DEF OrderInv, Numbering, NumberedAs
  <2>3. ASSUME NEW i \in 1..(Len(b) + 1)
        PROVE  NumberedAs(WaitingFrame(p, i), lastTaken + Len(ptoc[p]) + i)'
    <3>1. WaitingFrame(p, i)' = Append(b, c)[i].data
      BY <1>2 DEF WaitingFrame
    <3>2. CASE i \in 1..Len(b)
      <4>1. NumberedAs(b[i].data, lastTaken + Len(ptoc[p]) + i)
        BY <1>1, <1>2, <1>5, <3>2 DEF OrderInv, Numbering, WaitingFrame
      <4> QED BY <1>2, <1>3, <3>1, <3>2, <4>1 DEF NumberedAs
    <3>3. CASE i = Len(b) + 1
      <4>1. c.data \in written /\ info[c.data] = next - 1
        BY <1>1 DEF OrderInv, Numbering, SlotNumbered
      <4>2. next - 1 = lastTaken + Len(s) + i
        BY <1>7, <1>8, <3>3
      <4> QED BY <1>1, <1>2, <1>3, <3>1, <3>3, <4>1, <4>2 DEF NumberedAs
    <3> QED BY <1>3, <3>2, <3>3
  <2> QED BY <1>5, <1>6, <2>1, <2>2, <2>3 DEF Numbering, NumberedAs
<1>10. SendState(p)'
  BY <1>2, <1>4 DEF SendState, NoNil
<1> QED BY <1>2, <1>9, <1>10 DEF OrderInv

(* P_send_bulk takes the frames out of the vector's carriers, ... *)
LEMMA ProducerSendsBulk ==
  ASSUME Inv, AllRoles, NEW p, Only(p), OrderInv(p), ProducerStep(p), slot[p] = Nil, P_SendBulk(p)
  PROVE  OrderInv(p)' /\ lastTaken' = lastTaken
<1>1. PICK b : b = bulk[p]
  OBVIOUS
<1>2. /\ b \in Seq(Carriers) /\ Len(b) \in Nat /\ pc[p] = "idle" /\ pc'[p] = "send_bulk"
      /\ local'[p] = [i \in 1..Len(b) |-> b[i].data]
      /\ bulk'[p] = [i \in 1..Len(b) |-> Nil]
      /\ UNCHANGED <<ptoc, slot, info, next, written, lastTaken>>
  <2>1. p \in Threads /\ b \in Seq(Carriers) /\ Len(b) \in Nat
    BY <1>1, SenderHosts DEF Inv, TypeOK
  <2>2. pc[p] = "idle" /\ pc'[p] = "send_bulk" /\ UNCHANGED <<ptoc, slot, info, next, written, lastTaken>>
    BY <2>1 DEF P_SendBulk, ProducerStep, Goto, Inv, TypeOK
  <2>3. local'[p] = [i \in 1..Len(bulk[p]) |-> bulk[p][i].data]
    BY <2>1 DEF P_SendBulk, Inv, TypeOK
  <2>4. bulk'[p] = [i \in 1..Len(bulk[p]) |-> Nil]
    BY <2>1 DEF P_SendBulk, LeftOf, Inv, TypeOK
  <2> QED BY <1>1, <2>1, <2>2, <2>3, <2>4
<1>3. Len(local'[p]) = Len(b) /\ Len(bulk'[p]) = Len(b)
  BY <1>2
<1>4. NoNil(b) /\ AllNil(bulk'[p])
  BY <1>1, <1>2, <1>3 DEF OrderInv, SendState, AllNil
<1>5. Waits(p) = Len(b) /\ Waits(p)' = Len(b)
  BY <1>1, <1>2, <1>3, <1>4, WaitsWhole DEF Waits
<1>6. InSlot(p)' = InSlot(p) /\ SlotNumbered(p)' = SlotNumbered(p)
  BY <1>2 DEF InSlot, SlotNumbered
<1>7. ASSUME NEW i \in 1..Len(b)
      PROVE  NumberedAs(WaitingFrame(p, i), lastTaken + Len(ptoc[p]) + i)'
  <2>1. WaitingFrame(p, i) = b[i].data /\ WaitingFrame(p, i)' = b[i].data
    BY <1>1, <1>2 DEF WaitingFrame
  <2>2. NumberedAs(WaitingFrame(p, i), lastTaken + Len(ptoc[p]) + i)
    BY <1>5 DEF OrderInv, Numbering
  <2> QED BY <1>2, <2>1, <2>2 DEF NumberedAs
<1>8. Numbering(p)'
  BY <1>2, <1>5, <1>6, <1>7 DEF OrderInv, Numbering, NumberedAs
<1>9. SendState(p)'
  BY <1>2, <1>4 DEF SendState
<1> QED BY <1>2, <1>8, <1>9 DEF OrderInv

(* ... and enqueue_bulk appends them to the lane. *)
LEMMA ProducerEnqueuesBulk ==
  ASSUME Inv, Inv', AllRoles, NEW p, Only(p), OrderInv(p), QueueStep(p), EnqueueBulk(p)
  PROVE  OrderInv(p)' /\ lastTaken' = lastTaken
<1>1. PICK s, f : s = ptoc[p] /\ f = local[p]
  OBVIOUS
<1>2. /\ s \in Seq(Particles) /\ f \in Seq(Particles) /\ Len(s) \in Nat /\ Len(f) \in Nat
      /\ pc[p] = "send_bulk" /\ pc'[p] = "clear" /\ local'[p] = <<>>
      /\ ptoc'[p] = s \o f /\ \A l \in Lanes \ {p} : ptoc'[l] = ptoc[l]
      /\ UNCHANGED <<pool, slot, bulk, info>>
  <2>1. /\ p \in Threads /\ p \in Lanes /\ ptoc \in [Lanes -> Seq(Particles)]
        /\ s \in Seq(Particles) /\ f \in Seq(Particles) /\ Len(s) \in Nat /\ Len(f) \in Nat
    BY <1>1, SenderHosts DEF Inv, TypeOK
  <2>2. ptoc' = [ptoc EXCEPT ![p] = @ \o local[p]]
    BY OrderAssumption DEF EnqueueBulk, EnqueueFails
  <2>3. ptoc'[p] = s \o f /\ \A l \in Lanes \ {p} : ptoc'[l] = ptoc[l]
    BY <1>1, <2>1, <2>2
  <2>4. /\ pc[p] = "send_bulk" /\ pc'[p] = "clear" /\ local'[p] = <<>>
        /\ UNCHANGED <<pool, slot, bulk, info>>
    BY <2>1 DEF EnqueueBulk, Goto, Inv, TypeOK
  <2> QED BY <2>1, <2>3, <2>4
<1>3. /\ Len(s \o f) = Len(s) + Len(f)
      /\ \A i \in 1..Len(s) : (s \o f)[i] = s[i]
      /\ \A i \in 1..Len(f) : (s \o f)[Len(s) + i] = f[i]
  BY <1>2, ConcatProperties
<1>4. UNCHANGED <<next, written, lastTaken>>
  <2>1. ASSUME NEW l \in Lanes PROVE Len(ptoc[l]) <= Len(ptoc'[l])
    <3>1. CASE l = p
      <4>1. Len(s) <= Len(s \o f)
        BY <1>2, <1>3
      <4> QED BY <1>1, <1>2, <3>1, <4>1
    <3>2. CASE l # p
      BY <1>2, <3>2 DEF Inv, TypeOK
    <3> QED BY <3>1, <3>2
  <2> QED BY <1>2, <2>1, NothingTaken
<1>5. AllNil(bulk[p]) /\ slot[p] = Nil
  BY <1>2 DEF OrderInv, SendState
<1>6. Waits(p) = Len(f) /\ Waits(p)' = 0
  BY <1>1, <1>2, <1>5 DEF Waits, AllNil
<1>7. /\ InSlot(p)' = 0 /\ InSlot(p) = 0 /\ ~SlotNumbered(p)'
  BY <1>2, <1>4, <1>5, ConstantAssumption DEF InSlot, SlotNumbered, OrderInv, Nil
<1>8. next = 1 + lastTaken + Len(s) + Len(f) /\ next \in Nat /\ lastTaken \in Nat
  <2>1. next = 1 + lastTaken + Len(s) + Waits(p) + InSlot(p) /\ next \in Nat /\ lastTaken \in Nat
    BY <1>1 DEF OrderInv, Numbering
  <2> QED BY <1>2, <1>6, <1>7, <2>1
<1>9. ASSUME NEW i \in 1..Len(s \o f)
      PROVE  (s \o f)[i] \in written /\ info[(s \o f)[i]] = lastTaken + i
  <2>1. CASE i \in 1..Len(s)
    <3>1. s[i] \in written /\ info[s[i]] = lastTaken + i
      BY <1>1, <2>1 DEF OrderInv, Numbering, NumberedAs
    <3> QED BY <1>3, <2>1, <3>1
  <2>2. CASE i \notin 1..Len(s)
    <3>1. PICK j \in 1..Len(f) : i = Len(s) + j
      <4>1. i - Len(s) \in 1..Len(f) /\ i = Len(s) + (i - Len(s))
        BY <1>2, <1>3, <2>2
      <4> QED BY <4>1
    <3>2. f[j] \in written /\ info[f[j]] = lastTaken + Len(s) + j
      BY <1>1, <1>2, <1>6 DEF OrderInv, Numbering, NumberedAs, WaitingFrame
    <3>3. lastTaken + Len(s) + j = lastTaken + i
      BY <1>2, <1>8, <3>1
    <3> QED BY <1>3, <3>1, <3>2, <3>3
  <2> QED BY <2>1, <2>2
<1>10. next' = 1 + lastTaken' + Len(ptoc'[p]) + Waits(p)' + InSlot(p)'
  <2>1. Len(ptoc'[p]) = Len(s) + Len(f)
    BY <1>2, <1>3
  <2> QED BY <1>2, <1>4, <1>6, <1>7, <1>8, <2>1
<1>11. Numbering(p)'
  BY <1>2, <1>4, <1>6, <1>7, <1>9, <1>10 DEF Numbering, NumberedAs
<1>12. SendState(p)'
  BY <1>2, <1>5 DEF SendState, AllNil
<1> QED BY <1>2, <1>4, <1>11, <1>12 DEF OrderInv

(* A vector that is cleared sends its frames one after the other, unless    *)
(* P_send_bulk has done so.                                                *)
LEMMA ProducerClears ==
  ASSUME Inv, Inv', AllRoles, NEW p, Only(p), OrderInv(p), QueueStep(p), ClearBulk(p)
  PROVE  OrderInv(p)' /\ lastTaken' = lastTaken
<1>1. PICK s, b, c : s = ptoc[p] /\ b = bulk[p] /\ c = Head(bulk[p])
  OBVIOUS
<1>2. /\ s \in Seq(Particles) /\ b \in Seq(Carriers) /\ b # <<>> /\ ptoc \in [Lanes -> Seq(Particles)]
      /\ pc[p] = "clear" /\ bulk'[p] = Tail(b) /\ c = Head(b) /\ Release(p, c)
      /\ UNCHANGED <<slot, local, info, pc>>
  BY <1>1, SenderHosts DEF ClearBulk, Inv, TypeOK
<1>3. /\ Len(b) \in Nat \ {0} /\ Len(Tail(b)) = Len(b) - 1 /\ c = b[1] /\ c \in Carriers
      /\ \A i \in 1..Len(Tail(b)) : Tail(b)[i] = b[i + 1]
      /\ Tail(b) \in Seq(Carriers)
  BY <1>2, HeadTailProperties, EmptySeq, LenProperties
<1>4. /\ pool' = pool
      /\ c = Nil => ptoc' = ptoc
      /\ c # Nil => c.data \in Particles /\ ptoc' = [ptoc EXCEPT ![p] = Append(@, c.data)]
  <2>1. c.host # "pool"
    BY <1>1, <1>3, SenderHosts
  <2> QED BY <1>2, <1>3, <2>1, ReleaseSends
<1>5. /\ slot[p] = Nil /\ InSlot(p) = 0 /\ ~SlotNumbered(p)
  BY <1>2, ConstantAssumption DEF OrderInv, SendState, InSlot, SlotNumbered, Nil
<1>6. CASE c = Nil
  <2>1. AllNil(b) /\ AllNil(Tail(b))
    <3>1. AllNil(b)
      BY <1>1, <1>2, <1>3, <1>6 DEF OrderInv, SendState, NoNil
    <3> QED BY <1>3, <3>1 DEF AllNil
  <2>2. UNCHANGED <<next, written, lastTaken>>
    <3>1. \A l \in Lanes : Len(ptoc[l]) <= Len(ptoc'[l])
      BY <1>2, <1>4, <1>6
    <3> QED BY <1>4, <3>1, NothingTaken
  <2>3. Waits(p) = 0 /\ Waits(p)' = 0 /\ InSlot(p)' = 0 /\ ~SlotNumbered(p)'
    BY <1>1, <1>2, <1>5, <2>1, <2>2 DEF Waits, InSlot, SlotNumbered
  <2>4. Numbering(p)'
    <3>1. ptoc' = ptoc /\ info' = info /\ slot' = slot
      BY <1>2, <1>4, <1>6
    <3>2. next' = 1 + lastTaken' + Len(ptoc'[p]) + Waits(p)' + InSlot(p)'
      BY <1>5, <2>2, <2>3, <3>1 DEF OrderInv, Numbering
    <3>3. ASSUME NEW i \in 1..Len(ptoc'[p]) PROVE NumberedAs(ptoc[p][i], lastTaken + i)'
      BY <2>2, <3>1 DEF OrderInv, Numbering, NumberedAs
    <3>4. 1..Waits(p)' = {}
      BY <2>3
    <3> QED BY <2>3, <3>2, <3>3, <3>4 DEF Numbering
  <2>5. SendState(p)'
    BY <1>2, <1>5, <2>1 DEF SendState
  <2> QED BY <1>4, <1>6, <2>2, <2>4, <2>5 DEF OrderInv
<1>7. CASE c # Nil
  <2>1. NoNil(b) /\ NoNil(Tail(b))
    <3>1. NoNil(b)
      BY <1>1, <1>2, <1>3, <1>7 DEF OrderInv, SendState, AllNil
    <3> QED BY <1>3, <3>1 DEF NoNil
  <2>2. PICK d : d = c.data
    OBVIOUS
  <2>3. /\ d \in Particles /\ ptoc'[p] = Append(s, d) /\ \A l \in Lanes \ {p} : ptoc'[l] = ptoc[l]
    BY <1>1, <1>2, <1>4, <1>7, <2>2, SenderHosts
  <2>4. /\ Len(s) \in Nat /\ Len(Append(s, d)) = Len(s) + 1 /\ Append(s, d)[Len(s) + 1] = d
        /\ \A i \in 1..Len(s) : Append(s, d)[i] = s[i]
    BY <1>2, <2>3, AppendProperties
  <2>5. UNCHANGED <<next, written, lastTaken>>
    <3>1. ASSUME NEW l \in Lanes PROVE Len(ptoc[l]) <= Len(ptoc'[l])
      <4>1. CASE l = p
        BY <1>1, <2>3, <2>4, <4>1
      <4>2. CASE l # p
        BY <1>2, <2>3, <4>2
      <4> QED BY <4>1, <4>2
    <3> QED BY <1>4, <3>1, NothingTaken
  <2>6. Waits(p) = Len(b) /\ Waits(p)' = Len(b) - 1 /\ InSlot(p)' = 0 /\ ~SlotNumbered(p)'
    BY <1>1, <1>2, <1>3, <1>5, <2>1, <2>5, WaitsWhole DEF Waits, InSlot, SlotNumbered
  <2>7. ASSUME NEW i \in 1..Len(b)
        PROVE  b[i].data \in written /\ info[b[i].data] = lastTaken + Len(s) + i
    BY <1>1, <1>2, <2>6 DEF OrderInv, Numbering, NumberedAs, WaitingFrame
  <2>8. next = 1 + lastTaken + Len(s) + Len(b) /\ next \in Nat /\ lastTaken \in Nat
    <3>1. next = 1 + lastTaken + Len(s) + Waits(p) + InSlot(p) /\ next \in Nat /\ lastTaken \in Nat
      BY <1>1 DEF OrderInv, Numbering
    <3> QED BY <1>3, <1>5, <2>4, <2>6, <3>1
  <2>9. next' = 1 + lastTaken' + Len(ptoc'[p]) + Waits(p)' + InSlot(p)'
    <3>1. Len(ptoc'[p]) = Len(s) + 1
      BY <2>3, <2>4
    <3> QED BY <1>3, <2>4, <2>5, <2>6, <2>8, <3>1
  <2>10. ASSUME NEW i \in 1..Len(Append(s, d))
         PROVE  Append(s, d)[i] \in written /\ info[Append(s, d)[i]] = lastTaken + i
    <3>1. CASE i \in 1..Len(s)
      <4>1. s[i] \in written /\ info[s[i]] = lastTaken + i
        BY <1>1, <3>1 DEF OrderInv, Numbering, NumberedAs
      <4> QED BY <2>4, <3>1, <4>1
    <3>2. CASE i = Len(s) + 1
      <4>1. d \in written /\ info[d] = lastTaken + Len(s) + 1
        BY <1>3, <2>2, <2>7
      <4>2. lastTaken + Len(s) + 1 = lastTaken + i
        BY <2>4, <2>8, <3>2
      <4> QED BY <2>4, <3>2, <4>1, <4>2
    <3> QED BY <2>4, <3>1, <3>2
  <2>11. ASSUME NEW i \in 1..(Len(b) - 1)
         PROVE  NumberedAs(WaitingFrame(p, i), lastTaken + Len(ptoc[p]) + i)'
    <3>1. i + 1 \in 1..Len(b) /\ i \in 1..Len(Tail(b))
      BY <1>3
    <3>2. WaitingFrame(p, i)' = b[i + 1].data
      BY <1>2, <1>3, <3>1 DEF WaitingFrame
    <3>3. Len(ptoc'[p]) = Len(s) + 1
      BY <2>3, <2>4
    <3>4. lastTaken + Len(s) + (i + 1) = lastTaken' + Len(ptoc'[p]) + i
      BY <2>4, <2>5, <2>8, <3>3
    <3> QED BY <1>2, <2>5, <2>7, <3>1, <3>2, <3>4 DEF NumberedAs
  <2>12. Numbering(p)'
    BY <1>2, <2>3, <2>5, <2>6, <2>9, <2>10, <2>11 DEF Numbering, NumberedAs
  <2>13. SendState(p)'
    BY <1>2, <1>5, <2>1 DEF SendState
  <2> QED BY <2>3, <2>5, <2>12, <2>13 DEF OrderInv
<1> QED BY <1>6, <1>7

-----------------------------------------------------------------------------
(* The invariant. *)
OrderedInv(p) == Inv /\ Owned /\ AllRoles /\ OrderInv(p)

(* At first nothing is on its way. *)
LEMMA OrderedInit ==
  ASSUME NEW p, Only(p), OInit
  PROVE  OrderedInv(p)
<1>1. Inv /\ Owned /\ AllRoles
  BY InitInv, InitOwned, AllRolesInit DEF OInit
<1>2. /\ next = 1 /\ lastTaken = 0 /\ written = {}
      /\ slot[p] = Nil /\ bulk[p] = <<>> /\ pc[p] = "idle" /\ \A l \in Lanes : ptoc[l] = <<>>
      /\ p \in Lanes
  BY <1>1, SenderHosts DEF OInit, Init
<1>3. Len(bulk[p]) = 0 /\ Len(ptoc[p]) = 0
  BY <1>2, EmptySeq
<1>4. Waits(p) = 0 /\ InSlot(p) = 0 /\ ~SlotNumbered(p)
  BY <1>2, <1>3 DEF Waits, AllNil, InSlot, SlotNumbered
<1>5. Numbering(p) /\ SendState(p)
  BY <1>2, <1>3, <1>4 DEF Numbering, SendState, NoNil
<1> QED BY <1>1, <1>2, <1>5 DEF OrderedInv, OrderInv

(* Every step of the producer keeps the order, ... *)
LEMMA ProducerKeepsOrder ==
  ASSUME Inv, Inv', Owned, AllRoles, NEW p, Only(p), OrderInv(p),
         Number(p) \/ ProducerStep(p) \/ QueueStep(p)
  PROVE  OrderInv(p)' /\ lastTaken' = lastTaken
<1>1. CASE Number(p)
  BY <1>1, ProducerNumbers
<1>2. CASE ProducerStep(p)
  <2>1. CASE ReadyToSend(p) /\ Reset(p)
    BY <1>2, <2>1, ProducerResets
  <2>2. CASE ReadyToSend(p) /\ \E op \in P_Calls : Call(p, op)
    <3>1. PICK op \in P_Calls : Call(p, op)
      BY <2>2
    <3>2. op \in P_Calls \cup {"clear"} /\ op # "clear"
      BY DEF P_Calls
    <3> QED BY <1>2, <2>2, <3>1, <3>2, ProducerCalls
  <2>3. CASE slot[p].data \in written /\ Stash(p)
    BY <1>2, <2>3, ProducerStashes DEF SlotNumbered
  <2>4. CASE slot[p] = Nil /\ P_SendBulk(p)
    BY <1>2, <2>4, ProducerSendsBulk
  <2>5. CASE slot[p] = Nil /\ Call(p, "clear")
    BY <1>2, <2>5, ProducerCalls
  <2> QED BY <1>2, <2>1, <2>2, <2>3, <2>4, <2>5 DEF ProducerStep
<1>3. CASE QueueStep(p)
  <2>1. InCall(p)
    BY <1>3 DEF QueueStep
  <2>2. CASE \/ P_Timeout(p) \/ P_Miss(p) \/ Malloc(p) \/ MallocThrows(p) \/ Catch(p)
             \/ FillPool(p) \/ FillDone(p) \/ ClearDone(p)
    BY <1>3, <2>2, ProducerQuiet
  <2>3. CASE TakeFromPool(p)
    BY <1>3, <2>3, TakeNew, OwnedOneOwner
  <2>4. CASE P_Assign(p) \/ AssignNull(p)
    BY <1>3, <2>4, ProducerReturns
  <2>5. CASE EnqueueBulk(p)
    BY <1>3, <2>5, ProducerEnqueuesBulk
  <2>6. CASE ClearBulk(p)
    BY <1>3, <2>6, ProducerClears
  <2>7. pc[p] \notin C_Calls \cup {"C_assign", "resize", "bulk_assign"}
    BY SenderHosts
  <2>8. /\ ~FillFails(p) /\ ~TakeFromPtoC(p) /\ ~C_Miss(p) /\ ~C_Assign(p) /\ ~TakeOneOfBulk(p)
        /\ ~TakeBulkDone(p) /\ ~ShrinkBulk(p) /\ ~PadBulk(p) /\ ~AssignBulk(p)
    BY <2>7, OrderAssumption
    DEF FillFails, EnqueueFails, TakeFromPtoC, C_Miss, C_Returns, C_Calls, C_Assign, TakeOneOfBulk,
        TakeBulkDone, ShrinkBulk, PadBulk, AssignBulk
  <2> QED BY <2>1, <2>2, <2>3, <2>4, <2>5, <2>6, <2>8 DEF InCall
<1> QED BY <1>1, <1>2, <1>3

(* ... and so does every step of a consumer. *)
LEMMA OrderedNext ==
  ASSUME NEW p, Only(p), OrderedInv(p), [ONext]_ovars
  PROVE  OrderedInv(p)'
<1> USE DEF OrderedInv
<1>1. CASE UNCHANGED ovars
  <2>1. UNCHANGED vars /\ UNCHANGED <<next, written, lastTaken>>
    BY <1>1 DEF ovars
  <2>2. (Inv /\ Owned /\ AllRoles)'
    BY <2>1, NextInv, NextOwned, AllRolesNext
  <2>3. Numbering(p)' /\ SendState(p)'
    BY <2>1, StillNumbered, StillSending DEF vars, OrderInv
  <2> QED BY <2>1, <2>2, <2>3 DEF OrderInv, vars
<1>2. CASE ONext
  <2>1. PICK t \in Threads : Number(t) \/ ProducerStep(t) \/ ConsumerStep(t) \/ QueueStep(t)
    BY <1>2 DEF ONext
  <2>2. Next
    BY <2>1, OrderStepOfQueue DEF Next, OrderInv
  <2>3. (Inv /\ Owned /\ AllRoles)'
    BY <2>2, NextInv, NextOwned, AllRolesNext
  <2>4. CASE QueueStep(t) /\ (TakeFromPtoC(t) \/ TakeOneOfBulk(t))
    BY <2>3, <2>4, TakeInOrder
  <2>5. CASE t # p /\ ~(QueueStep(t) /\ (TakeFromPtoC(t) \/ TakeOneOfBulk(t)))
    <3>1. t \notin Producers
      BY <2>5, OthersConsume
    <3>2. QueueStep(t) \/ ConsumerStep(t)
      BY <2>1, <3>1 DEF Number, ProducerStep
    <3>3. ConsumerStep(t) => ~TakeFromPtoC(t) /\ ~TakeOneOfBulk(t)
      BY DEF ConsumerStep, Reset, Call, TakeFromPtoC, TakeOneOfBulk
    <3> QED BY <2>3, <2>5, <3>2, <3>3, ConsumersKeepOrder
  <2>6. CASE t = p
    <3>1. ~ConsumerStep(p)
      BY SenderHosts DEF ConsumerStep
    <3> QED BY <2>1, <2>3, <2>6, <3>1, ProducerKeepsOrder
  <2> QED BY <2>4, <2>5, <2>6
<1> QED BY <1>1, <1>2

(* What a step of the queue takes from a lane is the producer's oldest     *)
(* frame, for no other lane holds any.                                     *)
LEMMA TakesTheNext ==
  ASSUME Inv, Inv', NEW p, OrderInv(p), NEW t, QueueStep(t), TakenFrom # {}
  PROVE  lastTaken' = lastTaken + 1
<1>1. PICK l : l = CHOOSE k \in TakenFrom : TRUE
  OBVIOUS
<1>2. l \in Lanes /\ Len(ptoc'[l]) < Len(ptoc[l])
  <2>1. l \in TakenFrom
    BY <1>1
  <2> QED BY <2>1 DEF TakenFrom
<1>3. PICK s, r : s = ptoc[l] /\ r = ptoc'[l]
  OBVIOUS
<1>4. s \in Seq(Particles) /\ Len(s) \in Nat
  BY <1>2, <1>3 DEF Inv, TypeOK
<1>5. s # <<>>
  <2>1. Len(r) \in Nat /\ Len(r) < Len(s)
    BY <1>2, <1>3 DEF Inv, TypeOK
  <2> QED BY <1>4, <2>1, EmptySeq
<1>6. l = p
  BY <1>2, <1>3, <1>5 DEF OrderInv
<1>7. Head(s) = s[1] /\ 1 \in 1..Len(s)
  BY <1>4, <1>5, HeadTailProperties, EmptySeq, LenProperties
<1>8. info[s[1]] = lastTaken + 1
  BY <1>3, <1>6, <1>7 DEF OrderInv, Numbering, NumberedAs
<1> QED BY <1>1, <1>3, <1>7, <1>8 DEF QueueStep

(* The client's own steps take nothing. *)
LEMMA ClientTakesNothing ==
  ASSUME Inv, AllRoles, NEW p, Only(p), NEW t \in Threads,
         Number(t) \/ ProducerStep(t) \/ ConsumerStep(t)
  PROVE  TakenFrom = {}
<1>1. ptoc \in [Lanes -> Seq(Particles)]
  BY DEF Inv, TypeOK
<1>2. CASE ptoc' = ptoc
  <2>1. \A l \in Lanes : Len(ptoc[l]) \in Nat
    BY <1>1
  <2> QED BY <1>2, <2>1 DEF TakenFrom
<1>3. CASE Number(t) \/ Stash(t) \/ P_SendBulk(t) \/ \E op : Call(t, op)
  <2>1. ptoc' = ptoc
    BY <1>3 DEF Number, Write, Stash, P_SendBulk, Call
  <2> QED BY <1>2, <2>1
<1>4. CASE Reset(t) /\ t = p
  <2>1. Release(p, slot[p]) /\ slot[p] \in Carriers /\ slot[p].host # "pool" /\ slot[p] # Nil
    BY <1>4, SenderHosts DEF Reset, Inv, TypeOK
  <2>2. slot[p].data \in Particles /\ ptoc' = [ptoc EXCEPT ![p] = Append(@, slot[p].data)]
    BY <2>1, ReleaseSends
  <2>3. ASSUME NEW l \in Lanes PROVE l \notin TakenFrom
    <3>1. ptoc[l] \in Seq(Particles) /\ Len(ptoc[l]) \in Nat
      BY <1>1
    <3>2. ptoc'[l] = ptoc[l] \/ ptoc'[l] = Append(ptoc[l], slot[p].data)
      BY <1>1, <2>2
    <3>3. Len(ptoc'[l]) = Len(ptoc[l]) \/ Len(ptoc'[l]) = Len(ptoc[l]) + 1
      BY <2>2, <3>1, <3>2, AppendProperties
    <3> QED BY <3>1, <3>3 DEF TakenFrom
  <2> QED BY <2>3 DEF TakenFrom
<1>5. CASE Reset(t) /\ t # p
  <2>1. ptoc' = ptoc
    BY <1>5, OthersConsume, ReleaseRecycles DEF Reset
  <2> QED BY <1>2, <2>1
<1> QED BY <1>3, <1>4, <1>5 DEF ProducerStep, ConsumerStep

(* With one producer and the plain queue the consumers, however many they  *)
(* are, take the frames in the order of writing, none twice and none left  *)
(* out, whether a frame was sent by P_send, by dropping its carrier, by    *)
(* asking for the next one, or in bulk, and however often its buffer was   *)
(* recycled before.                                                        *)
THEOREM FramesArriveInOrder ==
  ASSUME NEW p, Only(p)
  PROVE  OSpec => EveryFrameInOrder
<1>1. OInit => OrderedInv(p)
  BY OrderedInit
<1>2. OrderedInv(p) /\ [ONext]_ovars => OrderedInv(p)'
  BY OrderedNext
<1>3. OrderedInv(p) /\ [ONext]_ovars => [TakenFrom # {} => lastTaken' = lastTaken + 1]_ovars
  <2>1. SUFFICES ASSUME OrderedInv(p), ONext, TakenFrom # {}
                 PROVE  lastTaken' = lastTaken + 1
    OBVIOUS
  <2>2. PICK t \in Threads : Number(t) \/ ProducerStep(t) \/ ConsumerStep(t) \/ QueueStep(t)
    BY <2>1 DEF ONext
  <2>3. QueueStep(t)
    BY <2>1, <2>2, ClientTakesNothing DEF OrderedInv
  <2>4. Inv'
    BY <2>1, OrderedNext DEF OrderedInv
  <2> QED BY <2>1, <2>3, <2>4, TakesTheNext DEF OrderedInv
<1> QED BY <1>1, <1>2, <1>3, PTL DEF OSpec, EveryFrameInOrder
===============================================================================
