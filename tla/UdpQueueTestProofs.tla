-------------------------- MODULE UdpQueueTestProofs --------------------------
(***************************************************************************)
(* Theorems about queue_test of application/test_udp.cpp, for any number   *)
(* of datagrams and particles: its two threads use the frame queue as it   *)
(* is meant to be used, the processing thread counts at most one frame     *)
(* more than arrived, and none that arrived is lost.                       *)
(***************************************************************************)
EXTENDS UdpQueueTest, ParticleQueueProofs, FiniteSetTheorems

(* The calls the two threads make, and where they make them. *)
RecverAt ==
  /\ step[recver] \in {"begin", "recv", "next", "check", "exit", "done"}
  /\ pc[recver] \in {"idle", "P_get_tryBest", "P_assign", "malloc", "fill", "thrown", "assign_null"}
  /\ pc[recver] # "idle" => step[recver] \in {"recv", "check"}
  /\ step[recver] = "begin" \/ (step[recver] = "recv" /\ pc[recver] # "idle") => slot[recver] = Nil
ProcerAt ==
  /\ step[procer] \in {"loop", "got", "exit", "done"}
  /\ pc[procer] \in {"idle", "C_recv_timeout", "C_assign", "assign_null"}
  /\ pc[procer] # "idle" => step[procer] = "got"
  /\ slot[procer].host \in {"pool", "none"}

(* Every frame counted arrived, or was the one sent at the end.            *)
Unwritten == IF step[recver] = "done" THEN 1 ELSE 0
Counted ==
  /\ recv_frame_cnt \in Nat /\ proc_frame_cnt \in Nat
  /\ proc_frame_cnt + Cardinality(OnTheWay) <= recv_frame_cnt + Unwritten

ClientState == DOMAIN step = Threads /\ RecverAt /\ ProcerAt
TestInv == Inv /\ Owned /\ ClientState /\ Counted

(* The test runs two threads. *)
LEMMA TwoThreads == recver \in Threads /\ procer \in Threads /\ Threads = {recver, procer} /\ recver # procer
BY ClientAssumption DEF Threads

-----------------------------------------------------------------------------
(* The test is a client of the queue. *)

(* A statement of the test is a step of a client of the queue, or leaves   *)
(* the queue alone.                                                        *)
LEMMA ClientStepOfQueue == TestNext => Next \/ UNCHANGED vars
<1> SUFFICES ASSUME TestNext PROVE Next \/ UNCHANGED vars
  OBVIOUS
<1>1. CASE FirstGet \/ NextGet \/ ProcCall
  BY <1>1, TwoThreads DEF FirstGet, NextGet, ProcCall, Next, ClientStep, P_Calls, C_Calls
<1>2. CASE RecvFrame
  BY <1>2, TwoThreads, ClientAssumption DEF RecvFrame, Next, ClientStep
<1>3. CASE RecvExit \/ ProcExit
  BY <1>3, TwoThreads DEF RecvExit, ProcExit, Next, ClientStep
<1>4. CASE InCall(recver) \/ InCall(procer)
  BY <1>4, TwoThreads DEF Next
<1>5. CASE RecvNothing \/ RecvCheck \/ ProcFrame \/ Signal \/ Stopped
  BY <1>5 DEF RecvNothing, RecvCheck, ProcFrame, Signal, Stopped, testVars
<1> QED BY <1>1, <1>2, <1>3, <1>4, <1>5 DEF TestNext, RecverStep, ProcerStep

(* Every execution of the test is one of the queue, so that the theorems   *)
(* about the queue hold of it.                                             *)
THEOREM TestUsesQueue == TestSpec => Spec
<1>1. TestInit => Init
  BY DEF TestInit
<1>2. [TestNext]_testVars => [Next]_vars
  BY ClientStepOfQueue DEF testVars
<1> QED BY <1>1, <1>2, PTL DEF TestSpec, Spec

(* In particular its two threads never hold one frame, and none is lost.   *)
THEOREM TestOwnsFrames == TestSpec => [](OneOwner /\ NothingLost)
<1> QED BY TestUsesQueue, NeverTwoOwners, NeverLost, PTL

-----------------------------------------------------------------------------
(* Frames on their way. *)

(* Finitely many frames are under way. *)
LEMMA OnTheWayFinite ==
  ASSUME Inv
  PROVE  /\ OnTheWay \subseteq Particles
         /\ IsFiniteSet(OnTheWay) /\ Cardinality(OnTheWay) \in Nat
<1>1. InFlight \subseteq Particles
  BY ElementOfSeq DEF Inv, TypeOK, InFlight, Elems
<1>2. \A t \in Threads : SlotData(t) \subseteq Particles
  BY DataType DEF Inv, TypeOK, SlotData, Nil
<1>3. Elems(local[procer]) \subseteq Particles
  BY TwoThreads, ElementOfSeq DEF Inv, TypeOK, Elems
<1>4. OnTheWay \subseteq Particles
  BY <1>1, <1>2, <1>3, TwoThreads DEF OnTheWay, WrittenBy, ReadBy
<1> QED BY <1>4, ConstantAssumption, FS_Subset, FS_CardinalityType

(* The same after a step. *)
LEMMA OnTheWayFiniteNext ==
  ASSUME Inv'
  PROVE  IsFiniteSet(OnTheWay')
<1>1. InFlight' \subseteq Particles
  BY ElementOfSeq DEF Inv, TypeOK, InFlight, Elems
<1>2. \A t \in Threads : SlotData(t)' \subseteq Particles
  BY DataType DEF Inv, TypeOK, SlotData, Nil
<1>3. Elems(local[procer])' \subseteq Particles
  BY TwoThreads, ElementOfSeq DEF Inv, TypeOK, Elems
<1>4. OnTheWay' \subseteq Particles
  BY <1>1, <1>2, <1>3, TwoThreads DEF OnTheWay, WrittenBy, ReadBy
<1> QED BY <1>4, ConstantAssumption, FS_Subset

(* A dying carrier adds its particle to the lanes at most, and a           *)
(* consumer's adds nothing.                                                *)
LEMMA ReleasedToLanes ==
  ASSUME Inv, NEW t \in Threads, NEW c \in Carriers, Release(t, c)
  PROVE  /\ InFlight' \subseteq InFlight \cup Held(c)
         /\ c.host \in {"pool", "none"} => InFlight' = InFlight
<1>1. InFlight' \subseteq InFlight \cup Held(c)
  <2>1. PICK o \in Lanes :
          \A l \in Lanes : LaneData(l)' \subseteq LaneData(l) \cup Held(c)
    BY Released DEF Inv
  <2> QED BY <2>1 DEF InFlight, LaneData
<1>2. c.host \in {"pool", "none"} => ptoc' = ptoc
  BY DEF Release
<1> QED BY <1>1, <1>2 DEF InFlight

(* A step that adds nothing to the frames on their way keeps the count.    *)
LEMMA FewerKeeps ==
  ASSUME Inv, Counted, OnTheWay' \subseteq OnTheWay,
         UNCHANGED <<recv_frame_cnt, proc_frame_cnt>>, Unwritten' = Unwritten
  PROVE  Counted'
<1>1. Cardinality(OnTheWay') <= Cardinality(OnTheWay) /\ Cardinality(OnTheWay') \in Nat
  BY OnTheWayFinite, FS_Subset, FS_CardinalityType
<1>2. Cardinality(OnTheWay)' = Cardinality(OnTheWay')
  OBVIOUS
<1> QED BY <1>1, <1>2, OnTheWayFinite DEF Counted, Unwritten

(* A step that adds one frame to those on their way at most. *)
LEMMA AtMostOneMore ==
  ASSUME Inv, NEW d, OnTheWay' \subseteq OnTheWay \cup {d}
  PROVE  /\ Cardinality(OnTheWay') <= Cardinality(OnTheWay) + 1
         /\ Cardinality(OnTheWay') \in Nat /\ Cardinality(OnTheWay) \in Nat
<1>1. IsFiniteSet(OnTheWay) /\ Cardinality(OnTheWay) \in Nat
  BY OnTheWayFinite
<1>2. /\ IsFiniteSet(OnTheWay \cup {d})
      /\ Cardinality(OnTheWay \cup {d}) <= Cardinality(OnTheWay) + 1
  BY <1>1, FS_AddElement
<1>3. Cardinality(OnTheWay') <= Cardinality(OnTheWay \cup {d}) /\ Cardinality(OnTheWay') \in Nat
  BY <1>2, FS_Subset, FS_CardinalityType
<1>4. Cardinality(OnTheWay \cup {d}) \in Nat
  BY <1>2, FS_CardinalityType
<1> QED BY <1>1, <1>2, <1>3, <1>4

-----------------------------------------------------------------------------
(* The steps of the two threads inside a call. *)

(* recver only gets frames, one at a time, ... *)
LEMMA RecverCalls ==
  ASSUME ClientState, InCall(recver)
  PROVE  \/ TakeFromPool(recver) \/ P_Miss(recver) \/ Malloc(recver) \/ MallocThrows(recver)
         \/ FillPool(recver) \/ FillDone(recver) \/ FillFails(recver)
         \/ Catch(recver) \/ P_Assign(recver) \/ AssignNull(recver)
<1>1. pc[recver] \in {"idle", "P_get_tryBest", "P_assign", "malloc", "fill", "thrown", "assign_null"}
  BY DEF ClientState, RecverAt
<1>2. ~P_Timeout(recver) /\ ~TakeFromPtoC(recver) /\ ~C_Miss(recver) /\ ~C_Assign(recver)
  BY <1>1 DEF P_Timeout, TakeFromPtoC, C_Miss, C_Returns, C_Assign
<1>3. /\ ~EnqueueBulk(recver) /\ ~TakeOneOfBulk(recver) /\ ~TakeBulkDone(recver) /\ ~ShrinkBulk(recver)
      /\ ~PadBulk(recver) /\ ~AssignBulk(recver) /\ ~ClearBulk(recver) /\ ~ClearDone(recver)
  BY <1>1
  DEF EnqueueBulk, TakeOneOfBulk, TakeBulkDone, ShrinkBulk, PadBulk, AssignBulk, ClearBulk, ClearDone
<1> QED BY <1>2, <1>3 DEF InCall

(* ... and procer only receives them. *)
LEMMA ProcerCalls ==
  ASSUME ClientState, InCall(procer)
  PROVE  TakeFromPtoC(procer) \/ C_Miss(procer) \/ C_Assign(procer) \/ AssignNull(procer)
<1>1. pc[procer] \in {"idle", "C_recv_timeout", "C_assign", "assign_null"}
  BY DEF ClientState, ProcerAt
<1>2. /\ ~TakeFromPool(procer) /\ ~P_Timeout(procer) /\ ~P_Miss(procer) /\ ~P_Assign(procer)
      /\ ~Malloc(procer) /\ ~MallocThrows(procer) /\ ~Catch(procer)
      /\ ~FillPool(procer) /\ ~FillDone(procer) /\ ~FillFails(procer)
  BY <1>1
  DEF TakeFromPool, P_Timeout, P_Miss, P_Calls, P_Assign, Malloc, MallocThrows, Catch, FillPool, FillDone,
      FillFails
<1>3. /\ ~EnqueueBulk(procer) /\ ~TakeOneOfBulk(procer) /\ ~TakeBulkDone(procer) /\ ~ShrinkBulk(procer)
      /\ ~PadBulk(procer) /\ ~AssignBulk(procer) /\ ~ClearBulk(procer) /\ ~ClearDone(procer)
  BY <1>1
  DEF EnqueueBulk, TakeOneOfBulk, TakeBulkDone, ShrinkBulk, PadBulk, AssignBulk, ClearBulk, ClearDone
<1> QED BY <1>2, <1>3 DEF InCall

(* What recver does leaves alone what procer has, and the other way round. *)
LEMMA ProcerStays ==
  ASSUME ClientState, pc'[procer] = pc[procer], slot'[procer] = slot[procer],
         local'[procer] = local[procer], step'[procer] = step[procer]
  PROVE  ProcerAt' /\ ReadBy' = ReadBy /\ Elems(local[procer])' = Elems(local[procer])
BY DEF ClientState, ProcerAt, ReadBy, At, SlotData, Elems

(* What procer does leaves alone what recver has. *)
LEMMA RecverStays ==
  ASSUME ClientState, pc'[recver] = pc[recver], slot'[recver] = slot[recver],
         step'[recver] = step[recver]
  PROVE  RecverAt' /\ WrittenBy' = WrittenBy
BY DEF ClientState, RecverAt, WrittenBy, SlotData

(* While recver asks for a frame, the one it wrote goes to the lanes, or   *)
(* nowhere.                                                                *)
LEMMA RecverInCall ==
  ASSUME Inv, ClientState, InCall(recver), UNCHANGED appVars
  PROVE  ClientState' /\ OnTheWay' \subseteq OnTheWay
<1> USE TwoThreads
<1>0. /\ slot \in [Threads -> Carriers] /\ local \in [Threads -> Seq(Particles)]
      /\ pc \in [Threads -> Labels] /\ step' = step
  BY DEF Inv, TypeOK, appVars
<1>1. CASE \/ TakeFromPool(recver) \/ P_Miss(recver) \/ Malloc(recver) \/ MallocThrows(recver)
           \/ FillPool(recver) \/ FillDone(recver) \/ FillFails(recver)
  <2>1. /\ UNCHANGED <<ptoc, slot>>
        /\ pc[recver] # "idle"
        /\ pc'[recver] \in {"P_get_tryBest", "P_assign", "malloc", "fill", "thrown", "assign_null"}
        /\ pc'[procer] = pc[procer] /\ local'[procer] = local[procer]
    BY <1>0, <1>1
    DEF TakeFromPool, P_Miss, Malloc, MallocThrows, FillPool, FillDone, FillFails, Goto, P_Calls
  <2>2. ProcerAt' /\ ReadBy' = ReadBy /\ Elems(local[procer])' = Elems(local[procer])
    BY <1>0, <2>1, ProcerStays
  <2>3. RecverAt'
    BY <1>0, <2>1 DEF ClientState, RecverAt
  <2>4. WrittenBy' = WrittenBy /\ InFlight' = InFlight
    BY <1>0, <2>1 DEF WrittenBy, SlotData, InFlight
  <2> QED BY <1>0, <2>2, <2>3, <2>4 DEF OnTheWay, ClientState
<1>2. CASE Catch(recver)
  <2>1. /\ UNCHANGED <<ptoc, slot, local>> /\ pc'[recver] = "idle" /\ pc[recver] # "idle"
        /\ pc'[procer] = pc[procer]
    BY <1>0, <1>2 DEF Catch, Goto
  <2>2. ProcerAt' /\ ReadBy' = ReadBy /\ Elems(local[procer])' = Elems(local[procer])
    BY <1>0, <2>1, ProcerStays
  <2>3. RecverAt'
    BY <1>0, <2>1 DEF ClientState, RecverAt
  <2>4. WrittenBy' = {} /\ InFlight' = InFlight
    BY <1>0, <2>1 DEF WrittenBy, InFlight, ClientState, RecverAt
  <2> QED BY <1>0, <2>2, <2>3, <2>4 DEF OnTheWay, ClientState
<1>3. CASE P_Assign(recver) \/ AssignNull(recver)
  <2>1. /\ Release(recver, slot[recver]) /\ pc'[recver] = "idle" /\ pc[recver] # "idle"
        /\ pc'[procer] = pc[procer] /\ slot'[procer] = slot[procer] /\ local'[procer] = local[procer]
    BY <1>0, <1>3 DEF P_Assign, AssignNull, Goto
  <2>2. ProcerAt' /\ ReadBy' = ReadBy /\ Elems(local[procer])' = Elems(local[procer])
    BY <1>0, <2>1, ProcerStays
  <2>3. RecverAt'
    BY <1>0, <2>1 DEF ClientState, RecverAt
  <2>4. WrittenBy' = {}
    BY <1>0, <2>1 DEF WrittenBy, ClientState, RecverAt
  <2>5. Held(slot[recver]) \subseteq WrittenBy
    BY <2>1 DEF ClientState, RecverAt, WrittenBy, Held, SlotData, Nil
  <2>6. InFlight' \subseteq InFlight \cup WrittenBy
    BY <1>0, <2>1, <2>5, ReleasedToLanes
  <2> QED BY <1>0, <2>2, <2>3, <2>4, <2>6 DEF OnTheWay, ClientState
<1> QED BY <1>1, <1>2, <1>3, RecverCalls

(* While procer asks for a frame, one goes from a lane to it, and the one  *)
(* it had goes back to the pool.                                           *)
LEMMA ProcerInCall ==
  ASSUME Inv, ClientState, InCall(procer), UNCHANGED appVars
  PROVE  ClientState' /\ OnTheWay' \subseteq OnTheWay
<1> USE TwoThreads
<1>0. /\ slot \in [Threads -> Carriers] /\ local \in [Threads -> Seq(Particles)]
      /\ pc \in [Threads -> Labels] /\ step' = step /\ ptoc \in [Lanes -> Seq(Particles)]
      /\ slot[procer] \in Carriers
  BY DEF Inv, TypeOK, appVars
<1>1. CASE TakeFromPtoC(procer)
  <2>1. PICK l \in Lanes :
          /\ ptoc[l] # <<>> /\ ptoc' = [ptoc EXCEPT ![l] = Tail(@)]
          /\ local' = [local EXCEPT ![procer] = <<Head(ptoc[l])>>]
    BY <1>1 DEF TakeFromPtoC
  <2>2. /\ slot' = slot /\ pc[procer] # "idle" /\ pc'[procer] = "C_assign" /\ pc'[recver] = pc[recver]
    BY <1>0, <1>1 DEF TakeFromPtoC, Goto
  <2>3. RecverAt' /\ WrittenBy' = WrittenBy
    BY <1>0, <2>2, RecverStays
  <2>4. ProcerAt' /\ ReadBy' = {}
    BY <1>0, <2>2 DEF ClientState, ProcerAt, ReadBy, At
  <2>5. Elems(ptoc[l]) = Elems(Tail(ptoc[l])) \cup {Head(ptoc[l])} /\ Head(ptoc[l]) \in InFlight
    BY <1>0, <2>1, ElemsTail DEF InFlight
  <2>6. InFlight' \subseteq InFlight
    <3>1. \A m \in Lanes : Elems(ptoc'[m]) \subseteq Elems(ptoc[m])
      BY <1>0, <2>1, <2>5
    <3> QED BY <3>1 DEF InFlight
  <2>7. Elems(local[procer])' \subseteq InFlight
    <3>1. local'[procer] = <<Head(ptoc[l])>>
      BY <1>0, <2>1
    <3>2. Elems(local'[procer]) = {Head(ptoc[l])}
      BY <3>1, ElemsOne
    <3> QED BY <2>5, <3>2
  <2> QED BY <1>0, <2>3, <2>4, <2>6, <2>7 DEF OnTheWay, ClientState
<1>2. CASE C_Miss(procer)
  <2>1. /\ UNCHANGED <<ptoc, slot, local>> /\ pc'[procer] = "assign_null" /\ pc[procer] # "idle"
        /\ pc'[recver] = pc[recver]
    BY <1>0, <1>2 DEF C_Miss, C_Returns, Goto
  <2>2. RecverAt' /\ WrittenBy' = WrittenBy
    BY <1>0, <2>1, RecverStays
  <2>3. ProcerAt' /\ ReadBy' = {}
    BY <1>0, <2>1 DEF ClientState, ProcerAt, ReadBy, At
  <2>4. InFlight' = InFlight /\ Elems(local[procer])' = Elems(local[procer])
    BY <2>1 DEF InFlight
  <2> QED BY <1>0, <2>2, <2>3, <2>4 DEF OnTheWay, ClientState
<1>3. CASE C_Assign(procer)
  <2>1. /\ Release(procer, slot[procer]) /\ pc'[procer] = "idle" /\ pc[procer] = "C_assign"
        /\ slot'[procer] = ForPool(Head(local[procer])) /\ local'[procer] = <<>>
        /\ pc'[recver] = pc[recver] /\ slot'[recver] = slot[recver]
    BY <1>0, <1>3 DEF C_Assign, Goto
  <2>2. InFlight' = InFlight
    BY <1>0, <2>1, ReleasedToLanes DEF ClientState, ProcerAt
  <2>3. RecverAt' /\ WrittenBy' = WrittenBy
    BY <1>0, <2>1, RecverStays
  <2>4. ProcerAt'
    BY <1>0, <2>1 DEF ClientState, ProcerAt, ForPool, Carrier
  <2>5. SlotData(procer)' \subseteq Elems(local[procer])
    <3>1. Len(local[procer]) = 1 /\ local[procer] \in Seq(Particles)
      BY <1>0, <2>1 DEF Inv, CallState
    <3>2. local[procer] # <<>>
      <4>1. local[procer] = <<>> <=> Len(local[procer]) = 0
        BY <3>1, EmptySeq
      <4> QED BY <3>1, <4>1
    <3>3. Head(local[procer]) \in Elems(local[procer])
      BY <3>1, <3>2, ElemsTail
    <3> QED BY <2>1, <3>3 DEF SlotData, ForPool, Carrier
  <2>6. ReadBy' \subseteq Elems(local[procer])
    BY <2>5 DEF ReadBy
  <2>7. Elems(local[procer])' = {}
    BY <2>1, ElemsEmpty
  <2> QED BY <1>0, <2>2, <2>3, <2>4, <2>6, <2>7 DEF OnTheWay, ClientState
<1>4. CASE AssignNull(procer)
  <2>1. /\ Release(procer, slot[procer]) /\ pc'[procer] = "idle" /\ pc[procer] # "idle"
        /\ slot'[procer] = Nil /\ local' = local
        /\ pc'[recver] = pc[recver] /\ slot'[recver] = slot[recver]
    BY <1>0, <1>4 DEF AssignNull, Goto
  <2>2. InFlight' = InFlight
    BY <1>0, <2>1, ReleasedToLanes DEF ClientState, ProcerAt
  <2>3. RecverAt' /\ WrittenBy' = WrittenBy
    BY <1>0, <2>1, RecverStays
  <2>4. ProcerAt' /\ ReadBy' = {}
    BY <1>0, <2>1 DEF ClientState, ProcerAt, ReadBy, SlotData, Nil
  <2> QED BY <1>0, <2>1, <2>2, <2>3, <2>4 DEF OnTheWay, ClientState
<1> QED BY <1>1, <1>2, <1>3, <1>4, ProcerCalls

-----------------------------------------------------------------------------
(* The statements of the two threads. *)

(* Outside a call nothing moves but at the two exits. *)
LEMMA NothingMoves ==
  ASSUME UNCHANGED <<ptoc, slot, local>>
  PROVE  /\ InFlight' = InFlight /\ Elems(local[procer])' = Elems(local[procer])
         /\ SlotData(recver)' = SlotData(recver) /\ SlotData(procer)' = SlotData(procer)
BY DEF InFlight, Elems, SlotData

(* A datagram fills the frame recver has: one more arrives, one more is on *)
(* its way.                                                                *)
LEMMA FrameArrives ==
  ASSUME TestInv, RecvFrame
  PROVE  ClientState' /\ Counted'
<1> USE TwoThreads
<1>1. /\ pc[recver] = "idle" /\ step[recver] = "recv" /\ slot[recver] # Nil
      /\ step' = [step EXCEPT ![recver] = "next"] /\ recv_frame_cnt' = recv_frame_cnt + 1
      /\ UNCHANGED <<ptoc, slot, local, pc, proc_frame_cnt>>
  BY DEF RecvFrame, At, Then, Write
<1>2. /\ DOMAIN step = Threads /\ step'[recver] = "next" /\ step'[procer] = step[procer]
      /\ slot \in [Threads -> Carriers]
  BY <1>1 DEF TestInv, ClientState, Inv, TypeOK
<1>3. ClientState'
  BY <1>1, <1>2 DEF TestInv, ClientState, RecverAt, ProcerAt
<1>4. /\ InFlight' = InFlight /\ Elems(local[procer])' = Elems(local[procer])
      /\ ReadBy' = ReadBy
  BY <1>1, <1>2, NothingMoves DEF ReadBy, At
<1>5. WrittenBy' = {slot[recver].data}
  <2>1. slot[recver].data # NoParticle
    BY <1>1, <1>2, NilHoldsNothing
  <2> QED BY <1>1, <1>2, <2>1 DEF WrittenBy, SlotData
<1>6. OnTheWay' \subseteq OnTheWay \cup {slot[recver].data}
  BY <1>4, <1>5 DEF OnTheWay
<1>7. /\ Cardinality(OnTheWay') <= Cardinality(OnTheWay) + 1
      /\ Cardinality(OnTheWay') \in Nat /\ Cardinality(OnTheWay) \in Nat
  BY <1>6, AtMostOneMore DEF TestInv
<1>8. Unwritten = 0 /\ Unwritten' = 0
  BY <1>1, <1>2 DEF Unwritten
<1>9. Counted'
  <2>1. /\ recv_frame_cnt \in Nat /\ proc_frame_cnt \in Nat
        /\ proc_frame_cnt + Cardinality(OnTheWay) <= recv_frame_cnt
    BY <1>8 DEF TestInv, Counted
  <2>2. proc_frame_cnt' + Cardinality(OnTheWay') <= recv_frame_cnt'
    BY <1>1, <1>7, <2>1
  <2> QED BY <1>1, <1>8, <2>1, <2>2 DEF Counted
<1> QED BY <1>3, <1>9

(* procer counts the frame it has, if it counts it at all, and is done     *)
(* with it: it is in no lane, and recver does not have it.                 *)
LEMMA FrameCounts ==
  ASSUME TestInv, ProcFrame
  PROVE  ClientState' /\ Counted'
<1> USE TwoThreads
<1>1. /\ pc[procer] = "idle" /\ step[procer] = "got"
      /\ \E label \in {"loop", "exit"} : step' = [step EXCEPT ![procer] = label]
      /\ UNCHANGED <<ptoc, slot, local, pc, recv_frame_cnt>>
      /\ \/ proc_frame_cnt' = proc_frame_cnt
         \/ slot[procer] # Nil /\ proc_frame_cnt' = proc_frame_cnt + 1
  BY DEF ProcFrame, At, Then, UnlessSigint, vars
<1>2. /\ DOMAIN step = Threads /\ step'[procer] \in {"loop", "exit"} /\ step'[recver] = step[recver]
      /\ slot \in [Threads -> Carriers] /\ local[procer] = <<>>
  BY <1>1 DEF TestInv, ClientState, Inv, TypeOK, CallState
<1>3. ClientState'
  BY <1>1, <1>2 DEF TestInv, ClientState, RecverAt, ProcerAt
<1>4. /\ InFlight' = InFlight /\ Elems(local[procer])' = Elems(local[procer])
      /\ WrittenBy' = WrittenBy /\ ReadBy' = {} /\ ReadBy = SlotData(procer)
  BY <1>1, <1>2, NothingMoves DEF ReadBy, At, WrittenBy
<1>5. OnTheWay' \subseteq OnTheWay
  BY <1>4 DEF OnTheWay
<1>6. CASE proc_frame_cnt' = proc_frame_cnt
  <2>1. Unwritten' = Unwritten
    BY <1>2 DEF Unwritten
  <2> QED BY <1>1, <1>3, <1>5, <1>6, <2>1, FewerKeeps DEF TestInv
<1>7. CASE slot[procer] # Nil /\ proc_frame_cnt' = proc_frame_cnt + 1
  <2> DEFINE d == slot[procer].data
  <2>1. d \in Particles /\ d \in SlotData(procer) /\ IsAt(d, "slot", procer)
    <3>1. d # NoParticle
      BY <1>2, <1>7, NilHoldsNothing
    <3>2. d \in Particles
      BY <1>2, <3>1, DataType DEF Nil
    <3> QED BY <3>1, <3>2 DEF SlotData, IsAt
  <2>2. \A k \in Kinds, o \in Lanes : IsAt(d, k, o) => k = "slot" /\ o = procer
    BY <2>1, PlaceTypes DEF TestInv, Owned, OnePlace, Kinds
  <2>3. d \notin InFlight
    BY <2>2 DEF IsAt, Kinds, InFlight, LaneData
  <2>4. d \notin WrittenBy
    BY <2>2, PlaceTypes DEF IsAt, Kinds, WrittenBy
  <2>5. OnTheWay' \subseteq OnTheWay \ {d} /\ d \in OnTheWay
    BY <1>2, <1>4, <2>1, <2>3, <2>4, ElemsEmpty DEF OnTheWay
  <2> HIDE DEF d
  <2>6. IsFiniteSet(OnTheWay) /\ Cardinality(OnTheWay) \in Nat
    BY OnTheWayFinite DEF TestInv
  <2>7. IsFiniteSet(OnTheWay \ {d}) /\ Cardinality(OnTheWay \ {d}) = Cardinality(OnTheWay) - 1
    BY <2>5, <2>6, FS_RemoveElement
  <2>8. Cardinality(OnTheWay') <= Cardinality(OnTheWay \ {d}) /\ Cardinality(OnTheWay') \in Nat
    BY <2>5, <2>7, FS_Subset, FS_CardinalityType
  <2>9. Unwritten' = Unwritten /\ Unwritten \in Nat
    BY <1>2 DEF Unwritten
  <2>10. /\ recv_frame_cnt \in Nat /\ proc_frame_cnt \in Nat
         /\ proc_frame_cnt + Cardinality(OnTheWay) <= recv_frame_cnt + Unwritten
    BY DEF TestInv, Counted
  <2>11. proc_frame_cnt' + Cardinality(OnTheWay') <= recv_frame_cnt' + Unwritten'
    BY <1>1, <1>7, <2>6, <2>7, <2>8, <2>9, <2>10
  <2>12. Counted'
    BY <1>1, <1>7, <2>10, <2>11 DEF Counted
  <2> QED BY <1>3, <2>12
<1> QED BY <1>1, <1>6, <1>7

(* recver ends: its last frame is sent although nothing was written to it. *)
LEMMA UnwrittenIsSent ==
  ASSUME TestInv, RecvExit
  PROVE  ClientState' /\ Counted'
<1> USE TwoThreads
<1>1. /\ pc[recver] = "idle" /\ step[recver] = "exit" /\ step' = [step EXCEPT ![recver] = "done"]
      /\ Release(recver, slot[recver]) /\ slot' = [slot EXCEPT ![recver] = Nil]
      /\ UNCHANGED <<local, pc, recv_frame_cnt, proc_frame_cnt>>
  BY DEF RecvExit, At, Then, Reset
<1>2. /\ DOMAIN step = Threads /\ step'[recver] = "done" /\ step'[procer] = step[procer]
      /\ slot \in [Threads -> Carriers] /\ slot'[procer] = slot[procer] /\ slot'[recver] = Nil
  BY <1>1 DEF TestInv, ClientState, Inv, TypeOK
<1>3. ClientState'
  BY <1>1, <1>2 DEF TestInv, ClientState, RecverAt, ProcerAt
<1>4. InFlight' \subseteq InFlight \cup {slot[recver].data}
  <2>1. Inv /\ slot[recver] \in Carriers
    BY <1>2 DEF TestInv
  <2> QED BY <1>1, <2>1, ReleasedToLanes DEF Held
<1>5. /\ Elems(local[procer])' = Elems(local[procer]) /\ WrittenBy' = {} /\ ReadBy' = ReadBy
  BY <1>1, <1>2 DEF WrittenBy, ReadBy, At, SlotData, Elems
<1>6. OnTheWay' \subseteq OnTheWay \cup {slot[recver].data}
  BY <1>4, <1>5 DEF OnTheWay
<1>7. /\ Cardinality(OnTheWay') <= Cardinality(OnTheWay) + 1
      /\ Cardinality(OnTheWay') \in Nat /\ Cardinality(OnTheWay) \in Nat
  BY <1>6, AtMostOneMore DEF TestInv
<1>8. Unwritten = 0 /\ Unwritten' = 1
  BY <1>1, <1>2 DEF Unwritten
<1>9. Counted'
  <2>1. /\ recv_frame_cnt \in Nat /\ proc_frame_cnt \in Nat
        /\ proc_frame_cnt + Cardinality(OnTheWay) <= recv_frame_cnt
    BY <1>8 DEF TestInv, Counted
  <2>2. proc_frame_cnt' + Cardinality(OnTheWay') <= recv_frame_cnt' + 1
    BY <1>1, <1>7, <2>1
  <2> QED BY <1>1, <1>8, <2>1, <2>2 DEF Counted
<1> QED BY <1>3, <1>9

(* procer ends: the frame it has goes to the pool. *)
LEMMA ProcerEnds ==
  ASSUME TestInv, ProcExit
  PROVE  ClientState' /\ OnTheWay' \subseteq OnTheWay
<1> USE TwoThreads
<1>1. /\ pc[procer] = "idle" /\ step[procer] = "exit" /\ step' = [step EXCEPT ![procer] = "done"]
      /\ UNCHANGED <<local, pc>>
  BY DEF ProcExit, At, Then, Reset, vars
<1>2. /\ DOMAIN step = Threads /\ step'[procer] = "done" /\ step'[recver] = step[recver]
      /\ slot \in [Threads -> Carriers] /\ slot[procer] \in Carriers /\ Inv
  BY <1>1 DEF TestInv, ClientState, Inv, TypeOK
<1>3. /\ slot'[recver] = slot[recver] /\ (slot'[procer] = Nil \/ slot'[procer] = slot[procer])
      /\ InFlight' = InFlight
  <2>1. CASE slot[procer] = Nil
    BY <2>1 DEF ProcExit, vars, InFlight
  <2>2. CASE slot[procer] # Nil
    <3>1. Release(procer, slot[procer]) /\ slot' = [slot EXCEPT ![procer] = Nil]
      BY <2>2 DEF ProcExit, Reset
    <3>2. slot[procer].host \in {"pool", "none"}
      BY DEF TestInv, ClientState, ProcerAt
    <3> QED BY <1>2, <3>1, <3>2, ReleasedToLanes
  <2> QED BY <2>1, <2>2
<1>4. RecverAt' /\ WrittenBy' = WrittenBy
  BY <1>1, <1>2, <1>3, RecverStays DEF TestInv
<1>5. ProcerAt' /\ ReadBy' = {} /\ Elems(local[procer])' = Elems(local[procer])
  BY <1>1, <1>2, <1>3 DEF TestInv, ClientState, ProcerAt, ReadBy, At, Elems, Nil
<1> QED BY <1>1, <1>2, <1>3, <1>4, <1>5 DEF OnTheWay, ClientState

(* The other statements move nothing. *)
LEMMA StatementKeeps ==
  ASSUME TestInv, FirstGet \/ NextGet \/ ProcCall \/ RecvNothing \/ RecvCheck \/ Signal \/ Stopped
  PROVE  ClientState' /\ OnTheWay' \subseteq OnTheWay /\ Unwritten' = Unwritten
<1> USE TwoThreads
<1>1. UNCHANGED <<ptoc, slot, local>>
  BY DEF FirstGet, NextGet, ProcCall, RecvNothing, RecvCheck, Signal, Stopped, Call, vars, testVars
<1>2. /\ InFlight' = InFlight /\ Elems(local[procer])' = Elems(local[procer])
      /\ SlotData(recver)' = SlotData(recver) /\ SlotData(procer)' = SlotData(procer)
  BY <1>1, NothingMoves
<1>3. DOMAIN step = Threads /\ pc \in [Threads -> Labels] /\ RecverAt /\ ProcerAt
  BY DEF TestInv, ClientState, Inv, TypeOK
<1>4. CASE FirstGet \/ NextGet
  <2>1. /\ pc[recver] = "idle" /\ pc' = [pc EXCEPT ![recver] = "P_get_tryBest"]
        /\ \/ step[recver] = "begin" /\ step' = [step EXCEPT ![recver] = "recv"]
           \/ step[recver] = "next" /\ step' = [step EXCEPT ![recver] = "check"]
    BY <1>4 DEF FirstGet, NextGet, At, Then, Call, Goto
  <2>2. RecverAt' /\ WrittenBy' \subseteq WrittenBy /\ Unwritten' = Unwritten
    BY <1>1, <1>2, <1>3, <2>1 DEF RecverAt, WrittenBy, Unwritten
  <2>3. ProcerAt' /\ ReadBy' = ReadBy
    BY <1>1, <1>2, <1>3, <2>1 DEF ProcerAt, ReadBy, At
  <2> QED BY <1>2, <1>3, <2>1, <2>2, <2>3 DEF OnTheWay, ClientState
<1>5. CASE ProcCall
  <2>1. /\ pc[procer] = "idle" /\ pc' = [pc EXCEPT ![procer] = "C_recv_timeout"]
        /\ step[procer] = "loop" /\ step' = [step EXCEPT ![procer] = "got"]
    BY <1>5 DEF ProcCall, At, Then, Call, Goto
  <2>2. RecverAt' /\ WrittenBy' = WrittenBy /\ Unwritten' = Unwritten
    BY <1>1, <1>2, <1>3, <2>1 DEF RecverAt, WrittenBy, Unwritten
  <2>3. ProcerAt' /\ ReadBy' = {}
    BY <1>1, <1>2, <1>3, <2>1 DEF ProcerAt, ReadBy, At
  <2> QED BY <1>2, <1>3, <2>1, <2>2, <2>3 DEF OnTheWay, ClientState
<1>6. CASE RecvNothing \/ RecvCheck
  <2>1. /\ pc[recver] = "idle" /\ pc' = pc /\ step[recver] \in {"recv", "check"}
        /\ \E label \in {"recv", "check", "exit"} : step' = [step EXCEPT ![recver] = label]
    BY <1>6 DEF RecvNothing, RecvCheck, At, Then, UnlessSigint, vars
  <2>2. RecverAt' /\ WrittenBy' = {} /\ Unwritten' = Unwritten
    BY <1>1, <1>2, <1>3, <2>1 DEF RecverAt, WrittenBy, Unwritten
  <2>3. ProcerAt' /\ ReadBy' = ReadBy
    BY <1>1, <1>2, <1>3, <2>1 DEF ProcerAt, ReadBy, At
  <2> QED BY <1>2, <1>3, <2>1, <2>2, <2>3 DEF OnTheWay, ClientState
<1>7. CASE Signal \/ Stopped
  <2>1. UNCHANGED <<pc, step>>
    BY <1>7 DEF Signal, Stopped, vars, testVars, appVars
  <2> QED BY <1>1, <1>2, <1>3, <2>1 DEF OnTheWay, ClientState, RecverAt, ProcerAt, WrittenBy, ReadBy, At,
                                        Unwritten
<1> QED BY <1>4, <1>5, <1>6, <1>7

-----------------------------------------------------------------------------
(* The invariant. *)

(* The invariant holds at first. *)
LEMMA TestInvInit == TestInit => TestInv
<1> SUFFICES ASSUME TestInit PROVE TestInv
  OBVIOUS
<1> USE TwoThreads
<1>1. Init /\ Inv /\ Owned
  BY InitInv, InitOwned DEF TestInit
<1>2. ClientState
  BY <1>1 DEF TestInit, Init, ClientState, RecverAt, ProcerAt, Nil
<1>3. OnTheWay = {}
  <2>1. InFlight = {} /\ Elems(local[procer]) = {}
    BY <1>1, ElemsEmpty DEF Init, InFlight
  <2> QED BY <1>1, <2>1 DEF TestInit, OnTheWay, WrittenBy, ReadBy, At
<1>4. Counted
  <2>1. Cardinality(OnTheWay) = 0
    BY <1>3, FS_EmptySet
  <2> QED BY <2>1 DEF TestInit, Counted, Unwritten
<1> QED BY <1>1, <1>2, <1>4 DEF TestInv

(* Every step of the test keeps the invariant. *)
LEMMA TestInvNext == TestInv /\ [TestNext]_testVars => TestInv'
<1> SUFFICES ASSUME TestInv, [TestNext]_testVars PROVE TestInv'
  OBVIOUS
<1>1. Inv' /\ Owned'
  <2>1. [Next]_vars
    BY ClientStepOfQueue DEF testVars
  <2> QED BY <2>1, NextInv, NextOwned DEF TestInv
<1>2. Inv /\ ClientState /\ Counted
  BY DEF TestInv
<1>3. CASE InCall(recver) /\ UNCHANGED appVars
  <2>1. Unwritten' = Unwritten /\ UNCHANGED <<recv_frame_cnt, proc_frame_cnt>>
    BY <1>3 DEF appVars, Unwritten
  <2> QED BY <1>1, <1>2, <1>3, <2>1, RecverInCall, FewerKeeps DEF TestInv
<1>4. CASE InCall(procer) /\ UNCHANGED appVars
  <2>1. Unwritten' = Unwritten /\ UNCHANGED <<recv_frame_cnt, proc_frame_cnt>>
    BY <1>4 DEF appVars, Unwritten
  <2> QED BY <1>1, <1>2, <1>4, <2>1, ProcerInCall, FewerKeeps DEF TestInv
<1>5. CASE RecvFrame
  BY <1>1, <1>5, FrameArrives DEF TestInv
<1>6. CASE ProcFrame
  BY <1>1, <1>6, FrameCounts DEF TestInv
<1>7. CASE RecvExit
  BY <1>1, <1>7, UnwrittenIsSent DEF TestInv
<1>8. CASE ProcExit
  <2>1. Unwritten' = Unwritten /\ UNCHANGED <<recv_frame_cnt, proc_frame_cnt>>
    BY <1>2, <1>8, TwoThreads DEF ProcExit, Then, ClientState, Unwritten
  <2> QED BY <1>1, <1>2, <1>8, <2>1, ProcerEnds, FewerKeeps DEF TestInv
<1>9. CASE FirstGet \/ NextGet \/ ProcCall \/ RecvNothing \/ RecvCheck \/ Signal \/ Stopped
  <2>1. UNCHANGED <<recv_frame_cnt, proc_frame_cnt>>
    BY <1>9 DEF FirstGet, NextGet, ProcCall, RecvNothing, RecvCheck, Signal, Stopped, testVars, appVars
  <2> QED BY <1>1, <1>2, <1>9, <2>1, StatementKeeps, FewerKeeps DEF TestInv
<1>10. CASE UNCHANGED testVars
  <2>1. ClientState' /\ Counted'
    BY <1>2, <1>10
    DEF testVars, vars, appVars, ClientState, RecverAt, ProcerAt, Counted, Unwritten, OnTheWay, InFlight,
        WrittenBy, ReadBy, At, SlotData, Elems
  <2> QED BY <1>1, <2>1 DEF TestInv
<1> QED BY <1>3, <1>4, <1>5, <1>6, <1>7, <1>8, <1>9, <1>10 DEF TestNext, RecverStep, ProcerStep

(* The frame sent when the receiving thread ends is the only one that can  *)
(* be counted although nothing was received into it, however often frames  *)
(* are recycled with the info of an earlier datagram in them.              *)
THEOREM OneStaleFrame == TestSpec => []AtMostOneStaleFrame
<1>1. TestInv => AtMostOneStaleFrame
  <2> SUFFICES ASSUME TestInv PROVE AtMostOneStaleFrame
    OBVIOUS
  <2>1. Cardinality(OnTheWay) \in Nat /\ Unwritten \in {0, 1}
    BY OnTheWayFinite DEF TestInv, Unwritten
  <2> QED BY <2>1 DEF TestInv, Counted, AtMostOneStaleFrame
<1> QED BY <1>1, TestInvInit, TestInvNext, PTL DEF TestSpec

-----------------------------------------------------------------------------
(* No datagram is lost. *)

(* With memory for enqueues, what a dying carrier of recver's holds goes   *)
(* to the lanes.                                                           *)
LEMMA ReleasedAllToLanes ==
  ASSUME Inv, AllRoles, ~EnqueueMayFail, NEW c, c = slot[recver], Release(recver, c)
  PROVE  InFlight \cup Held(c) \subseteq InFlight'
<1> USE TwoThreads
<1>1. c \in Carriers /\ c.host # "pool" /\ ptoc \in [Lanes -> Seq(Particles)]
  BY ClientAssumption DEF Inv, TypeOK, AllRoles, Roles
<1>2. CASE c = Nil
  <2>1. ptoc' = ptoc /\ Held(c) = {}
    BY <1>2 DEF Release, EnqueueFails, Held, Nil
  <2> QED BY <2>1 DEF InFlight
<1>3. CASE c # Nil
  <2>1. c.data \in Particles /\ c.host # "none"
    BY <1>1, <1>3, DataType, NilHoldsNothing
  <2>2. PICK o \in Lanes : ptoc' = [ptoc EXCEPT ![o] = Append(@, c.data)]
    <3>1. LaneOf(recver, c) \in Lanes
      BY PlaceTypes DEF LaneOf
    <3> QED BY <1>1, <2>1, <3>1 DEF Release, EnqueueFails
  <2>3. Elems(ptoc'[o]) = Elems(ptoc[o]) \cup {c.data}
    BY <1>1, <2>1, <2>2, ElemsAppend
  <2>4. \A l \in Lanes \ {o} : ptoc'[l] = ptoc[l]
    BY <1>1, <2>2
  <2> QED BY <2>2, <2>3, <2>4 DEF InFlight, Held
<1> QED BY <1>2, <1>3

(* Finitely many frames are under way after a step as well, and of those   *)
(* some are uncounted.                                                     *)
LEMMA UncountedFinite ==
  ASSUME Inv, Inv'
  PROVE  /\ IsFiniteSet(Uncounted) /\ Cardinality(Uncounted) \in Nat
         /\ IsFiniteSet(Uncounted') /\ Cardinality(Uncounted') \in Nat
<1>1. IsFiniteSet(OnTheWay) /\ IsFiniteSet(OnTheWay')
  BY OnTheWayFinite, OnTheWayFiniteNext
<1>2. Uncounted \subseteq OnTheWay /\ Uncounted' \subseteq OnTheWay'
  BY DEF Uncounted
<1> QED BY <1>1, <1>2, FS_Subset, FS_CardinalityType

(* What stays on its way stays uncounted. *)
LEMMA StaysUncounted ==
  ASSUME TestInv, Inv', NoFrameLost, OnTheWay \subseteq OnTheWay', info' = info,
         UNCHANGED <<recv_frame_cnt, proc_frame_cnt>>
  PROVE  NoFrameLost'
<1>1. Uncounted \subseteq Uncounted'
  BY DEF Uncounted
<1>2. /\ Cardinality(Uncounted) <= Cardinality(Uncounted')
      /\ Cardinality(Uncounted) \in Nat /\ Cardinality(Uncounted') \in Nat
  BY <1>1, UncountedFinite, FS_Subset DEF TestInv
<1> QED BY <1>2 DEF NoFrameLost, TestInv, Counted

(* While recver asks for a frame, the one it wrote stays with it or goes   *)
(* to the lanes.                                                           *)
LEMMA RecverKeepsAll ==
  ASSUME Inv, AllRoles, ClientState, ~EnqueueMayFail, ~Aborted, InCall(recver), UNCHANGED appVars
  PROVE  OnTheWay \subseteq OnTheWay' /\ info' = info
<1> USE TwoThreads
<1>0. /\ slot \in [Threads -> Carriers] /\ local \in [Threads -> Seq(Particles)]
      /\ pc \in [Threads -> Labels] /\ step' = step
  BY DEF Inv, TypeOK, appVars
<1>1. CASE \/ TakeFromPool(recver) \/ P_Miss(recver) \/ Malloc(recver) \/ MallocThrows(recver)
           \/ FillPool(recver) \/ FillDone(recver) \/ FillFails(recver)
  <2>1. /\ UNCHANGED <<ptoc, slot, info>>
        /\ pc[recver] # "idle"
        /\ pc'[recver] \in {"P_get_tryBest", "P_assign", "malloc", "fill", "thrown", "assign_null"}
        /\ pc'[procer] = pc[procer] /\ local'[procer] = local[procer]
    BY <1>0, <1>1
    DEF TakeFromPool, P_Miss, Malloc, MallocThrows, FillPool, FillDone, FillFails, Goto, P_Calls
  <2>2. ReadBy' = ReadBy /\ Elems(local[procer])' = Elems(local[procer])
    BY <1>0, <2>1, ProcerStays
  <2>3. WrittenBy' = WrittenBy /\ InFlight' = InFlight
    BY <1>0, <2>1 DEF WrittenBy, SlotData, InFlight
  <2> QED BY <2>1, <2>2, <2>3 DEF OnTheWay
<1>2. CASE P_Assign(recver) \/ AssignNull(recver)
  <2>1. /\ Release(recver, slot[recver]) /\ info' = info
        /\ pc'[procer] = pc[procer] /\ slot'[procer] = slot[procer] /\ local'[procer] = local[procer]
    BY <1>0, <1>2 DEF P_Assign, AssignNull, Goto
  <2>2. ReadBy' = ReadBy /\ Elems(local[procer])' = Elems(local[procer])
    BY <1>0, <2>1, ProcerStays
  <2>3. WrittenBy \subseteq Held(slot[recver])
    BY DEF WrittenBy, Held, SlotData
  <2>4. InFlight \cup Held(slot[recver]) \subseteq InFlight'
    BY <2>1, ReleasedAllToLanes
  <2> QED BY <2>1, <2>2, <2>3, <2>4 DEF OnTheWay
<1>3. ~Catch(recver)
  BY DEF Catch, Aborted
<1> QED BY <1>1, <1>2, <1>3, RecverCalls

(* While procer asks for a frame, one goes from a lane to it. *)
LEMMA ProcerKeepsAll ==
  ASSUME Inv, ClientState, InCall(procer), UNCHANGED appVars
  PROVE  OnTheWay \subseteq OnTheWay' /\ info' = info
<1> USE TwoThreads
<1>0. /\ slot \in [Threads -> Carriers] /\ local \in [Threads -> Seq(Particles)]
      /\ pc \in [Threads -> Labels] /\ step' = step /\ ptoc \in [Lanes -> Seq(Particles)]
      /\ slot[procer] \in Carriers
  BY DEF Inv, TypeOK, appVars
<1>1. CASE TakeFromPtoC(procer)
  <2>1. PICK l \in Lanes :
          /\ ptoc[l] # <<>> /\ ptoc' = [ptoc EXCEPT ![l] = Tail(@)]
          /\ local' = [local EXCEPT ![procer] = <<Head(ptoc[l])>>]
    BY <1>1 DEF TakeFromPtoC
  <2>2. /\ slot' = slot /\ info' = info /\ pc[procer] # "idle" /\ pc'[recver] = pc[recver]
        /\ pc[procer] = "C_recv_timeout"
    BY <1>0, <1>1 DEF TakeFromPtoC, Goto, C_Calls, ClientState, ProcerAt
  <2>3. WrittenBy' = WrittenBy
    BY <1>0, <2>2, RecverStays
  <2>4. ReadBy = {} /\ Elems(local[procer]) = {}
    <3>1. local[procer] = <<>>
      BY <2>2 DEF Inv, CallState
    <3> QED BY <2>2, <3>1, ElemsEmpty DEF ReadBy, At
  <2>5. Elems(ptoc[l]) = Elems(Tail(ptoc[l])) \cup {Head(ptoc[l])}
    BY <1>0, <2>1, ElemsTail
  <2>6. Elems(local'[procer]) = {Head(ptoc[l])}
    <3>1. local'[procer] = <<Head(ptoc[l])>>
      BY <1>0, <2>1
    <3> QED BY <3>1, ElemsOne
  <2>7. InFlight \subseteq InFlight' \cup Elems(local'[procer])
    <3>1. \A m \in Lanes : Elems(ptoc[m]) \subseteq Elems(ptoc'[m]) \cup {Head(ptoc[l])}
      BY <1>0, <2>1, <2>5
    <3> QED BY <2>6, <3>1 DEF InFlight
  <2> QED BY <2>2, <2>3, <2>4, <2>7 DEF OnTheWay
<1>2. CASE C_Miss(procer)
  <2>1. /\ UNCHANGED <<ptoc, slot, local, info>> /\ pc[procer] # "idle" /\ pc'[recver] = pc[recver]
    BY <1>0, <1>2 DEF C_Miss, C_Returns, Goto
  <2>2. WrittenBy' = WrittenBy
    BY <1>0, <2>1, RecverStays
  <2>3. ReadBy = {}
    BY <2>1 DEF ReadBy, At
  <2>4. InFlight' = InFlight /\ Elems(local[procer])' = Elems(local[procer])
    BY <2>1 DEF InFlight
  <2> QED BY <2>1, <2>2, <2>3, <2>4 DEF OnTheWay
<1>3. CASE C_Assign(procer)
  <2>1. /\ Release(procer, slot[procer]) /\ pc'[procer] = "idle" /\ pc[procer] = "C_assign"
        /\ slot'[procer] = ForPool(Head(local[procer])) /\ info' = info
        /\ pc'[recver] = pc[recver] /\ slot'[recver] = slot[recver]
    BY <1>0, <1>3 DEF C_Assign, Goto
  <2>2. InFlight' = InFlight
    BY <1>0, <2>1, ReleasedToLanes DEF ClientState, ProcerAt
  <2>3. WrittenBy' = WrittenBy
    BY <1>0, <2>1, RecverStays
  <2>4. PICK s : s = local[procer]
    OBVIOUS
  <2>5. s \in Seq(Particles) /\ Len(s) = 1
    BY <1>0, <2>1, <2>4 DEF Inv, CallState
  <2>6. Elems(s) = {Head(s)} /\ Head(s) \in Particles
    BY <2>5 DEF Elems
  <2>7. SlotData(procer)' = {Head(s)}
    BY <2>1, <2>4, <2>6, ConstantAssumption DEF SlotData, ForPool, Carrier
  <2>8. At(procer, "got")' /\ ReadBy = {}
    BY <1>0, <2>1 DEF ClientState, ProcerAt, At, ReadBy
  <2>9. Elems(local[procer]) = ReadBy'
    BY <2>4, <2>6, <2>7, <2>8 DEF ReadBy
  <2> QED BY <2>1, <2>2, <2>3, <2>8, <2>9 DEF OnTheWay
<1>4. CASE AssignNull(procer)
  <2>1. /\ Release(procer, slot[procer]) /\ pc[procer] # "idle" /\ local' = local /\ info' = info
        /\ pc'[recver] = pc[recver] /\ slot'[recver] = slot[recver]
    BY <1>0, <1>4 DEF AssignNull, Goto
  <2>2. InFlight' = InFlight
    BY <1>0, <2>1, ReleasedToLanes DEF ClientState, ProcerAt
  <2>3. WrittenBy' = WrittenBy
    BY <1>0, <2>1, RecverStays
  <2>4. ReadBy = {}
    BY <2>1 DEF ReadBy, At
  <2> QED BY <2>1, <2>2, <2>3, <2>4 DEF OnTheWay
<1> QED BY <1>1, <1>2, <1>3, <1>4, ProcerCalls

(* The statements of recver that receive nothing keep what is under way;   *)
(* its end adds the last frame.                                            *)
LEMMA StatementKeepsAll ==
  ASSUME Inv, AllRoles, ClientState, ~EnqueueMayFail,
         \/ FirstGet \/ NextGet \/ ProcCall \/ RecvNothing \/ RecvCheck \/ RecvExit
         \/ ProcExit \/ Signal \/ UNCHANGED testVars
  PROVE  OnTheWay \subseteq OnTheWay' /\ info' = info
<1> USE TwoThreads
<1>0. DOMAIN step = Threads /\ pc \in [Threads -> Labels] /\ slot \in [Threads -> Carriers]
  BY DEF ClientState, Inv, TypeOK
<1>1. CASE RecvExit
  <2>1. /\ pc[recver] = "idle" /\ step[recver] = "exit" /\ Release(recver, slot[recver])
        /\ slot'[procer] = slot[procer] /\ step'[procer] = step[procer]
        /\ UNCHANGED <<local, pc, info>>
    BY <1>0, <1>1 DEF RecvExit, At, Then, Reset
  <2>2. WrittenBy = {} /\ ReadBy' = ReadBy /\ Elems(local[procer])' = Elems(local[procer])
    BY <2>1 DEF WrittenBy, ReadBy, At, SlotData
  <2>3. InFlight \subseteq InFlight'
    BY <2>1, ReleasedAllToLanes
  <2> QED BY <2>1, <2>2, <2>3 DEF OnTheWay
<1>2. CASE ProcExit
  <2>1. /\ pc[procer] = "idle" /\ step[procer] = "exit" /\ step'[recver] = step[recver]
        /\ slot'[recver] = slot[recver] /\ UNCHANGED <<local, pc, info>>
    BY <1>0, <1>2 DEF ProcExit, At, Then, Reset, vars
  <2>2. WrittenBy' = WrittenBy /\ ReadBy = {} /\ Elems(local[procer])' = Elems(local[procer])
    BY <2>1 DEF WrittenBy, ReadBy, At, SlotData
  <2>3. InFlight' = InFlight
    <3>1. CASE slot[procer] = Nil
      BY <1>2, <3>1 DEF ProcExit, vars, InFlight
    <3>2. CASE slot[procer] # Nil
      <4>1. Release(procer, slot[procer]) /\ slot[procer] \in Carriers
        BY <1>0, <1>2, <3>2 DEF ProcExit, Reset
      <4> QED BY <4>1, ReleasedToLanes DEF ClientState, ProcerAt
    <3> QED BY <3>1, <3>2
  <2> QED BY <2>1, <2>2, <2>3 DEF OnTheWay
<1>3. CASE FirstGet \/ NextGet \/ ProcCall \/ RecvNothing \/ RecvCheck \/ Signal \/ UNCHANGED testVars
  <2>1. UNCHANGED <<ptoc, slot, local, info>>
    BY <1>3 DEF FirstGet, NextGet, ProcCall, RecvNothing, RecvCheck, Signal, Call, vars, testVars
  <2>2. /\ InFlight' = InFlight /\ Elems(local[procer])' = Elems(local[procer])
        /\ SlotData(recver)' = SlotData(recver) /\ SlotData(procer)' = SlotData(procer)
    BY <2>1, NothingMoves
  <2>3. CASE FirstGet \/ NextGet
    <3>1. /\ pc[recver] = "idle" /\ pc' = [pc EXCEPT ![recver] = "P_get_tryBest"]
          /\ \/ step[recver] = "begin" /\ step' = [step EXCEPT ![recver] = "recv"]
             \/ step[recver] = "next" /\ step' = [step EXCEPT ![recver] = "check"]
      BY <2>3 DEF FirstGet, NextGet, At, Then, Call, Goto
    <3>2. WrittenBy \subseteq WrittenBy' /\ ReadBy' = ReadBy
      BY <1>0, <2>2, <3>1 DEF WrittenBy, ReadBy, At
    <3> QED BY <2>1, <2>2, <3>2 DEF OnTheWay
  <2>4. CASE ProcCall
    <3>1. /\ pc[procer] = "idle" /\ pc' = [pc EXCEPT ![procer] = "C_recv_timeout"]
          /\ step[procer] = "loop" /\ step' = [step EXCEPT ![procer] = "got"]
      BY <2>4 DEF ProcCall, At, Then, Call, Goto
    <3>2. WrittenBy' = WrittenBy /\ ReadBy = {}
      BY <1>0, <2>2, <3>1 DEF WrittenBy, ReadBy, At
    <3> QED BY <2>1, <2>2, <3>2 DEF OnTheWay
  <2>5. CASE RecvNothing \/ RecvCheck
    <3>1. /\ pc[recver] = "idle" /\ pc' = pc /\ step[recver] \in {"recv", "check"}
          /\ \E label \in {"recv", "check", "exit"} : step' = [step EXCEPT ![recver] = label]
      BY <2>5 DEF RecvNothing, RecvCheck, At, Then, UnlessSigint, vars
    <3>2. WrittenBy = {} /\ ReadBy' = ReadBy
      BY <1>0, <2>2, <3>1 DEF WrittenBy, ReadBy, At
    <3> QED BY <2>1, <2>2, <3>2 DEF OnTheWay
  <2>6. CASE Signal \/ UNCHANGED testVars
    <3>1. UNCHANGED <<pc, step>>
      BY <2>6 DEF Signal, vars, testVars, appVars
    <3> QED BY <2>1, <2>2, <3>1 DEF OnTheWay, WrittenBy, ReadBy, At
  <2> QED BY <1>3, <2>3, <2>4, <2>5, <2>6
<1> QED BY <1>1, <1>2, <1>3

(* A datagram fills the frame recver has, which was not under way. *)
LEMMA OneMoreUncounted ==
  ASSUME TestInv, Inv', NoFrameLost, RecvFrame
  PROVE  NoFrameLost'
<1> USE TwoThreads
<1>1. /\ pc[recver] = "idle" /\ step[recver] = "recv" /\ slot[recver] # Nil
      /\ step' = [step EXCEPT ![recver] = "next"] /\ recv_frame_cnt' = recv_frame_cnt + 1
      /\ info' = [info EXCEPT ![slot[recver].data] = "valid"]
      /\ UNCHANGED <<ptoc, slot, local, pc, proc_frame_cnt>>
  BY DEF RecvFrame, At, Then, Write
<1>2. PICK d : d = slot[recver].data
  OBVIOUS
<1>3. /\ d \in Particles /\ d # NoParticle /\ info \in [Particles -> Infos]
      /\ DOMAIN step = Threads /\ step'[recver] = "next" /\ step'[procer] = step[procer]
  BY <1>1, <1>2, DataType, NilHoldsNothing DEF TestInv, ClientState, Inv, TypeOK
<1>4. d \notin Uncounted
  <2>1. IsAt(d, "slot", recver)
    BY <1>2, <1>3 DEF IsAt, SlotData
  <2>2. \A k \in Kinds, o \in Lanes : IsAt(d, k, o) => k = "slot" /\ o = recver
    BY <1>3, <2>1, PlaceTypes DEF TestInv, Owned, OnePlace, Kinds
  <2>3. d \notin InFlight
    BY <2>2 DEF IsAt, Kinds, InFlight, LaneData
  <2>4. d \notin ReadBy
    BY <2>2, PlaceTypes DEF IsAt, Kinds, ReadBy
  <2>5. d \notin Elems(local[procer])
    BY <2>2, PlaceTypes DEF IsAt, Kinds, LocalData
  <2>6. WrittenBy = {}
    BY <1>1 DEF WrittenBy
  <2> QED BY <2>3, <2>4, <2>5, <2>6 DEF Uncounted, OnTheWay
<1>5. Uncounted \cup {d} \subseteq Uncounted'
  <2>1. InFlight' = InFlight /\ Elems(local[procer])' = Elems(local[procer]) /\ ReadBy' = ReadBy
    BY <1>1, <1>3, NothingMoves DEF ReadBy, At
  <2>2. WrittenBy = {} /\ WrittenBy' = {d}
    BY <1>1, <1>2, <1>3 DEF WrittenBy, SlotData
  <2>3. OnTheWay \cup {d} \subseteq OnTheWay'
    BY <2>1, <2>2 DEF OnTheWay
  <2>4. info'[d] = "valid" /\ \A e : e # d => info'[e] = info[e]
    BY <1>1, <1>2, <1>3
  <2> QED BY <2>3, <2>4 DEF Uncounted
<1>6. /\ IsFiniteSet(Uncounted) /\ Cardinality(Uncounted) \in Nat
      /\ IsFiniteSet(Uncounted') /\ Cardinality(Uncounted') \in Nat
  BY UncountedFinite DEF TestInv
<1>7. Cardinality(Uncounted \cup {d}) = Cardinality(Uncounted) + 1
  BY <1>4, <1>6, FS_AddElement
<1>8. Cardinality(Uncounted \cup {d}) <= Cardinality(Uncounted')
  BY <1>5, <1>6, FS_Subset
<1> QED BY <1>1, <1>6, <1>7, <1>8 DEF NoFrameLost, TestInv, Counted

(* procer counts the frame it has exactly if its info says that it was     *)
(* received, and keeps the rest.                                           *)
LEMMA OneCounted ==
  ASSUME TestInv, Inv', NoFrameLost, ProcFrame
  PROVE  NoFrameLost'
<1> USE TwoThreads
<1>1. PICK d : d = slot[procer].data
  OBVIOUS
<1>2. /\ pc[procer] = "idle" /\ step[procer] = "got"
      /\ UNCHANGED <<ptoc, slot, local, pc, info, recv_frame_cnt>>
      /\ proc_frame_cnt' = IF slot[procer] # Nil /\ info[d] # "none"
                           THEN proc_frame_cnt + 1 ELSE proc_frame_cnt
      /\ \E label \in {"loop", "exit"} : step' = [step EXCEPT ![procer] = label]
  BY <1>1 DEF ProcFrame, At, Then, UnlessSigint, vars
<1>3. DOMAIN step = Threads /\ step'[recver] = step[recver] /\ slot[procer] \in Carriers
  BY <1>2 DEF TestInv, ClientState, Inv, TypeOK
<1>4. slot[procer] = Nil <=> d = NoParticle
  BY <1>1, <1>3, NilHoldsNothing
<1>5. OnTheWay \ ({d} \ {NoParticle}) \subseteq OnTheWay'
  <2>1. InFlight' = InFlight /\ Elems(local[procer])' = Elems(local[procer]) /\ WrittenBy' = WrittenBy
    BY <1>2, <1>3, NothingMoves DEF WrittenBy
  <2>2. ReadBy = {d} \ {NoParticle}
    BY <1>1, <1>2 DEF ReadBy, At, SlotData
  <2> QED BY <2>1, <2>2 DEF OnTheWay
<1>6. /\ IsFiniteSet(Uncounted) /\ Cardinality(Uncounted) \in Nat
      /\ IsFiniteSet(Uncounted') /\ Cardinality(Uncounted') \in Nat
  BY UncountedFinite DEF TestInv
<1>7. /\ recv_frame_cnt \in Nat /\ proc_frame_cnt \in Nat
      /\ EnqueueMayFail \/ recv_frame_cnt <= proc_frame_cnt + Cardinality(Uncounted)
  BY DEF TestInv, Counted, NoFrameLost
<1>8. CASE slot[procer] # Nil /\ info[d] # "none"
  <2>1. Uncounted \ {d} \subseteq Uncounted'
    BY <1>2, <1>5 DEF Uncounted
  <2>2. /\ IsFiniteSet(Uncounted \ {d}) /\ Cardinality(Uncounted \ {d}) \in Nat
        /\ Cardinality(Uncounted) <= Cardinality(Uncounted \ {d}) + 1
    <3>1. IsFiniteSet(Uncounted \ {d}) /\ Cardinality(Uncounted \ {d}) \in Nat
      BY <1>6, FS_Subset, FS_CardinalityType
    <3>2. CASE d \in Uncounted
      BY <1>6, <3>1, <3>2, FS_RemoveElement
    <3>3. CASE d \notin Uncounted
      <4>1. Uncounted \ {d} = Uncounted
        BY <3>3
      <4> QED BY <1>6, <3>1, <4>1
    <3> QED BY <3>2, <3>3
  <2>3. Cardinality(Uncounted \ {d}) <= Cardinality(Uncounted')
    BY <1>6, <2>1, FS_Subset
  <2>4. proc_frame_cnt' = proc_frame_cnt + 1
    BY <1>2, <1>8
  <2> QED BY <1>2, <1>6, <1>7, <2>2, <2>3, <2>4 DEF NoFrameLost
<1>9. CASE ~(slot[procer] # Nil /\ info[d] # "none")
  <2>1. Uncounted \subseteq Uncounted'
    BY <1>2, <1>4, <1>5, <1>9 DEF Uncounted
  <2>2. Cardinality(Uncounted) <= Cardinality(Uncounted')
    BY <1>6, <2>1, FS_Subset
  <2>3. proc_frame_cnt' = proc_frame_cnt
    BY <1>2, <1>9
  <2> QED BY <1>2, <1>6, <1>7, <2>2, <2>3 DEF NoFrameLost
<1> QED BY <1>8, <1>9

(* While enqueues find memory, every datagram that was received is counted *)
(* or its frame is on its way to be, whatever the two threads do, however  *)
(* often the queue grows and also when a growth throws.                    *)
THEOREM FramesAreNotLost == TestSpec => []NoFrameLost
<1> DEFINE ArrivalInv == TestInv /\ AllRoles /\ NoFrameLost
<1>1. TestInit => ArrivalInv
  <2> SUFFICES ASSUME TestInit PROVE ArrivalInv
    OBVIOUS
  <2>1. TestInv /\ AllRoles
    BY TestInvInit, AllRolesInit DEF TestInit
  <2>2. Cardinality(Uncounted) \in Nat /\ recv_frame_cnt = 0 /\ proc_frame_cnt = 0
    <3>1. IsFiniteSet(OnTheWay) /\ Uncounted \subseteq OnTheWay
      BY <2>1, OnTheWayFinite DEF TestInv, Uncounted
    <3> QED BY <3>1, FS_Subset, FS_CardinalityType DEF TestInit
  <2> QED BY <2>1, <2>2 DEF NoFrameLost
<1>2. ArrivalInv /\ [TestNext]_testVars => ArrivalInv'
  <2> SUFFICES ASSUME TestInv, AllRoles, NoFrameLost, [TestNext]_testVars PROVE ArrivalInv'
    OBVIOUS
  <2>1. TestInv' /\ AllRoles' /\ Inv /\ Inv' /\ ClientState
    <3>1. [Next]_vars
      BY ClientStepOfQueue DEF testVars
    <3> QED BY <3>1, TestInvNext, AllRolesNext DEF TestInv
  <2>2. CASE EnqueueMayFail
    BY <2>1, <2>2 DEF NoFrameLost
  <2>3. CASE ~EnqueueMayFail
    <3>1. CASE ~Aborted /\ InCall(recver) /\ UNCHANGED appVars
      BY <2>1, <2>3, <3>1, RecverKeepsAll, StaysUncounted DEF appVars
    <3>2. CASE InCall(procer) /\ UNCHANGED appVars
      BY <2>1, <2>3, <3>2, ProcerKeepsAll, StaysUncounted DEF appVars
    <3>3. CASE RecvFrame
      BY <2>1, <3>3, OneMoreUncounted
    <3>4. CASE ProcFrame
      BY <2>1, <3>4, OneCounted
    <3>5. CASE \/ FirstGet \/ NextGet \/ ProcCall \/ RecvNothing \/ RecvCheck \/ RecvExit
               \/ ProcExit \/ Signal \/ UNCHANGED testVars
      <4>1. UNCHANGED <<recv_frame_cnt, proc_frame_cnt>>
        BY <3>5 DEF FirstGet, NextGet, ProcCall, RecvNothing, RecvCheck, RecvExit, ProcExit, Signal,
                    testVars, appVars
      <4> QED BY <2>1, <2>3, <3>5, <4>1, StatementKeepsAll, StaysUncounted
    <3> QED BY <2>1, <3>1, <3>2, <3>3, <3>4, <3>5 DEF TestNext, RecverStep, ProcerStep, Stopped
  <2> QED BY <2>2, <2>3
<1>3. ArrivalInv => NoFrameLost
  OBVIOUS
<1> HIDE DEF ArrivalInv
<1> QED BY <1>1, <1>2, <1>3, PTL DEF TestSpec
===============================================================================
