-------------------------- MODULE ParticleQueueProofs --------------------------
(***************************************************************************)
(* Theorems about ParticleQueue, for every set of threads and particles,   *)
(* every growth and bulk size and both variants of the queue: its types,   *)
(* that every particle is in one place, and that frames are handed over as *)
(* FrameHandoff says.                                                      *)
(***************************************************************************)
EXTENDS ParticleQueue, SequenceTheorems, TLAPS

(* What a call keeps on its stack between two steps, as its pc tells: the  *)
(* type invariant is not inductive without it.                             *)
CallState(t) ==
  /\ pc[t] \in {"P_assign", "C_assign", "send_bulk", "C_getBulk", "resize", "bulk_assign"}
     \/ local[t] = <<>>
  /\ pc[t] \in {"P_assign", "C_assign"} => Len(local[t]) = 1
  /\ pc[t] = "bulk_assign" => local[t] # <<>> /\ Len(local[t]) <= Len(bulk[t])
  /\ pc[t] = "fill" \/ fresh[t] = {}

Inv == TypeOK /\ \A t \in Threads : CallState(t)

(* A producer's carrier names one of the two lanes' hosts. *)
LEMMA HostType == ToConsumers \in {"ptoc", "token"}
BY DEF ToConsumers

(* The null carrier is a carrier. *)
LEMMA NilType == Nil \in Carriers
BY DEF Carriers

(* Wrapping a particle yields a carrier, for either queue. *)
LEMMA CarrierType ==
  ASSUME NEW d \in Particles
  PROVE  ForPool(d) \in Carriers /\ ForConsumers(d) \in Carriers
BY DEF ForPool, ForConsumers, Carrier, Carriers

(* A carrier either releases nothing or refers to a particle. *)
LEMMA DataType ==
  ASSUME NEW c \in Carriers
  PROVE  /\ c.host # "none" => c.data \in Particles
         /\ c # Nil => c.data \in Particles
BY HostType DEF Carriers, Nil

(* Whatever carrier dies, the queues stay queues of particles. *)
LEMMA ReleaseType ==
  ASSUME TypeOK, NEW t \in Threads, NEW c \in Carriers, Release(t, c)
  PROVE  /\ pool' \subseteq Particles
         /\ ptoc' \in [Lanes -> Seq(Particles)]
         /\ leaked' \subseteq Particles
<1>1. CASE c.host = "none" /\ UNCHANGED <<pool, ptoc, leaked>>
  BY <1>1 DEF TypeOK
<1>2. CASE c.host = "pool" /\ pool' = pool \cup {c.data} /\ UNCHANGED <<ptoc, leaked>>
  BY <1>2, DataType DEF TypeOK
<1>3. CASE /\ c.host \in {"ptoc", "token"}
           /\ ptoc' = [ptoc EXCEPT ![LaneOf(t, c)] = Append(@, c.data)]
           /\ UNCHANGED <<pool, leaked>>
  <2>1. LaneOf(t, c) \in Lanes
    BY DEF LaneOf, Lanes
  <2>2. Append(ptoc[LaneOf(t, c)], c.data) \in Seq(Particles)
    BY <1>3, <2>1, DataType, AppendProperties DEF TypeOK
  <2> QED
    BY <1>3, <2>1, <2>2 DEF TypeOK
<1>4. CASE c.host # "none" /\ leaked' = leaked \cup {c.data} /\ UNCHANGED <<pool, ptoc>>
  BY <1>4, DataType DEF TypeOK
<1> QED
  BY <1>1, <1>2, <1>3, <1>4 DEF Release

(* The constructor establishes the inductive invariant. *)
LEMMA InitInv == Init => Inv
<1> SUFFICES ASSUME Init PROVE Inv
  OBVIOUS
<1>1. TypeOK
  BY ConstantAssumption, NilType, EmptySeq DEF Init, TypeOK, Labels
<1>2. \A t \in Threads : CallState(t)
  BY DEF Init, CallState
<1> QED
  BY <1>1, <1>2 DEF Inv

(* A sequence with one element is one whose tail is empty. *)
LEMMA LengthOne ==
  ASSUME NEW S, NEW s \in Seq(S), s # <<>>
  PROVE  Len(s) = 1 <=> Tail(s) = <<>>
<1>1. Tail(s) \in Seq(S) /\ Len(Tail(s)) = Len(s) - 1
  BY HeadTailProperties
<1>2. Len(s) \in Nat
  BY LenProperties
<1>3. Tail(s) = <<>> <=> Len(Tail(s)) = 0
  BY <1>1, EmptySeq
<1> QED
  BY <1>1, <1>2, <1>3

(* Every step of a call or a client preserves the inductive invariant. *)
LEMMA NextInv == Inv /\ [Next]_vars => Inv'
<1> SUFFICES ASSUME Inv, [Next]_vars PROVE Inv'
  OBVIOUS
<1>0. CASE UNCHANGED vars
  BY <1>0 DEF vars, Inv, TypeOK, CallState
<1> SUFFICES ASSUME NEW t \in Threads, InCall(t) \/ ClientStep(t) PROVE Inv'
  BY <1>0 DEF Next
<1>1. ASSUME NEW op \in P_Calls \cup C_Calls \cup {"clear"}, Call(t, op) PROVE Inv'
  BY <1>1 DEF Call, TypeOK, CallState, Inv, Labels, P_Calls, C_Calls, Goto
<1>2. ASSUME TakeFromPool(t) PROVE Inv'
  <2>1. PICK d \in pool : pool' = pool \ {d} /\ local' = [local EXCEPT ![t] = <<d>>]
    BY <1>2 DEF TakeFromPool
  <2>2. <<d>> \in Seq(Particles) /\ Len(<<d>>) = 1
    BY DEF Inv, TypeOK
  <2> QED
    BY <1>2, <2>1, <2>2 DEF TakeFromPool, TypeOK, CallState, Inv, Labels, P_Calls, C_Calls, Goto
<1>3. ASSUME P_Timeout(t) PROVE Inv'
  BY <1>3 DEF P_Timeout, TypeOK, CallState, Inv, Labels, P_Calls, C_Calls, Goto
<1>4. ASSUME P_Miss(t) PROVE Inv'
  BY <1>4 DEF P_Miss, TypeOK, CallState, Inv, Labels, P_Calls, C_Calls, Goto
<1>5. ASSUME P_Assign(t) PROVE Inv'
  BY <1>5, ReleaseType, CarrierType, NilType
  DEF P_Assign, TypeOK, CallState, Inv, Labels, P_Calls, C_Calls, Goto
<1>6. ASSUME AssignNull(t) PROVE Inv'
  BY <1>6, ReleaseType, CarrierType, NilType
  DEF AssignNull, TypeOK, CallState, Inv, Labels, P_Calls, C_Calls, Goto
<1>7. ASSUME Malloc(t) PROVE Inv'
  BY <1>7 DEF Malloc, TypeOK, CallState, Inv, Labels, P_Calls, C_Calls, Goto
<1>8. ASSUME MallocThrows(t) PROVE Inv'
  BY <1>8 DEF MallocThrows, TypeOK, CallState, Inv, Labels, P_Calls, C_Calls, Goto
<1>9. ASSUME Catch(t) PROVE Inv'
  BY <1>9 DEF Catch, TypeOK, CallState, Inv, Labels, P_Calls, C_Calls, Goto
<1>10. ASSUME FillPool(t) PROVE Inv'
  BY <1>10 DEF FillPool, TypeOK, CallState, Inv, Labels, P_Calls, C_Calls, Goto
<1>11. ASSUME FillDone(t) PROVE Inv'
  BY <1>11 DEF FillDone, TypeOK, CallState, Inv, Labels, P_Calls, C_Calls, Goto
<1>12. ASSUME FillFails(t) PROVE Inv'
  BY <1>12 DEF FillFails, TypeOK, CallState, Inv, Labels, P_Calls, C_Calls, Goto
<1>13. ASSUME TakeFromPtoC(t) PROVE Inv'
  BY <1>13 DEF TakeFromPtoC, TypeOK, CallState, Inv, Labels, P_Calls, C_Calls, Goto
<1>14. ASSUME C_Miss(t) PROVE Inv'
  BY <1>14 DEF C_Miss, C_Returns, TypeOK, CallState, Inv, Labels, P_Calls, C_Calls, Goto
<1>15. ASSUME C_Assign(t) PROVE Inv'
  BY <1>15, ReleaseType, CarrierType, NilType
  DEF C_Assign, TypeOK, CallState, Inv, Labels, P_Calls, C_Calls, Goto
<1>16. ASSUME EnqueueBulk(t) PROVE Inv'
  <2>1. ptoc' \in [Lanes -> Seq(Particles)]
    <3>1. ptoc[t] \o local[t] \in Seq(Particles)
      BY ConcatProperties DEF Inv, TypeOK, Lanes
    <3> QED
      BY <1>16, <3>1 DEF EnqueueBulk, Inv, TypeOK
  <2>2. leaked' \subseteq Particles
    <3>1. \A i \in 1..Len(local[t]) : local[t][i] \in Particles
      BY ElementOfSeq DEF Inv, TypeOK
    <3>2. {local[t][i] : i \in 1..Len(local[t])} \subseteq Particles
      BY <3>1
    <3>3. leaked' \subseteq leaked \cup {local[t][i] : i \in 1..Len(local[t])}
      BY <1>16 DEF EnqueueBulk
    <3> QED
      BY <3>2, <3>3 DEF Inv, TypeOK
  <2> QED
    BY <1>16, <2>1, <2>2 DEF EnqueueBulk, TypeOK, CallState, Inv, Labels, P_Calls, C_Calls, Goto
<1>17. ASSUME TakeOneOfBulk(t) PROVE Inv'
  BY <1>17 DEF TakeOneOfBulk, TypeOK, CallState, Inv, Labels, P_Calls, C_Calls, Goto
<1>18. ASSUME TakeBulkDone(t) PROVE Inv'
  BY <1>18 DEF TakeBulkDone, TypeOK, CallState, Inv, Labels, P_Calls, C_Calls, Goto
<1>19. ASSUME ShrinkBulk(t) PROVE Inv'
  <2> DEFINE m == Len(local[t])
             b == SubSeq(bulk[t], 1, m) \o SubSeq(bulk[t], m + 2, Len(bulk[t]))
  <2>1. m \in Nat /\ Len(bulk[t]) \in Nat /\ m < Len(bulk[t])
    BY <1>19, LenProperties DEF ShrinkBulk, Inv, TypeOK
  <2>2. bulk[t][m + 1] \in Carriers
    BY <2>1, ElementOfSeq DEF Inv, TypeOK
  <2>3. b \in Seq(Carriers)
    <3>1. \A i \in 1..Len(bulk[t]) : bulk[t][i] \in Carriers
      BY ElementOfSeq DEF Inv, TypeOK
    <3>2. SubSeq(bulk[t], 1, m) \in Seq(Carriers)
      BY <2>1, <3>1, SubSeqProperties
    <3>3. SubSeq(bulk[t], m + 2, Len(bulk[t])) \in Seq(Carriers)
      BY <2>1, <3>1, SubSeqProperties
    <3> QED
      BY <3>2, <3>3, ConcatProperties
  <2>4. bulk' = [bulk EXCEPT ![t] = b] /\ Release(t, bulk[t][m + 1])
    BY <1>19 DEF ShrinkBulk
  <2> HIDE DEF m, b
  <2>5. pc[t] = "resize" /\ UNCHANGED <<slot, local, fresh, created, info, pc>>
    BY <1>19 DEF ShrinkBulk
  <2>6. TypeOK'
    BY <2>2, <2>3, <2>4, <2>5, ReleaseType DEF Inv, TypeOK
  <2>7. ASSUME NEW u \in Threads PROVE CallState(u)'
    BY <2>4, <2>5 DEF Inv, TypeOK, CallState
  <2> QED
    BY <2>6, <2>7 DEF Inv
<1>20. ASSUME PadBulk(t) PROVE Inv'
  <2> DEFINE m == Len(local[t])
             b == [i \in 1..m |-> IF i <= Len(bulk[t]) THEN bulk[t][i] ELSE Nil]
  <2>1. m \in Nat /\ Len(bulk[t]) \in Nat
    BY LenProperties DEF Inv, TypeOK
  <2>2. b \in Seq(Carriers) /\ Len(b) = m
    BY <2>1, ElementOfSeq, NilType DEF Inv, TypeOK
  <2>3. bulk' = [bulk EXCEPT ![t] = b] /\ (m = 0 <=> local[t] = <<>>)
    BY <1>20, EmptySeq DEF PadBulk, Inv, TypeOK
  <2>4. pc' = [pc EXCEPT ![t] = IF m = 0 THEN "idle" ELSE "bulk_assign"]
    BY <1>20 DEF PadBulk, Goto
  <2>5. m <= Len(b)
    BY <2>1, <2>2
  <2>6. m = Len(local[t])
    OBVIOUS
  <2> HIDE DEF m, b
  <2> QED
    BY <1>20, <2>1, <2>2, <2>3, <2>4, <2>5, <2>6
    DEF PadBulk, TypeOK, CallState, Inv, Labels, P_Calls, C_Calls, Goto
<1>21. ASSUME AssignBulk(t) PROVE Inv'
  <2> DEFINE n == Len(bulk[t]) - Len(local[t]) + 1
             b == [bulk[t] EXCEPT ![n] = ForPool(Head(local[t]))]
  <2>1. local[t] # <<>> /\ local[t] \in Seq(Particles) /\ bulk[t] \in Seq(Carriers)
    BY <1>21 DEF AssignBulk, Inv, TypeOK, CallState
  <2>2. n \in 1..Len(bulk[t]) /\ Len(local[t]) \in Nat \ {0} /\ Len(bulk[t]) \in Nat
    BY <1>21, <2>1, EmptySeq, LenProperties DEF AssignBulk, Inv, TypeOK, CallState
  <2>3. Head(local[t]) \in Particles /\ Tail(local[t]) \in Seq(Particles)
        /\ Len(Tail(local[t])) = Len(local[t]) - 1
    BY <2>1, HeadTailProperties
  <2>4. b \in Seq(Carriers) /\ Len(b) = Len(bulk[t])
    <3>1. ForPool(Head(local[t])) \in Carriers
      BY <2>3, CarrierType
    <3> HIDE DEF n
    <3> QED
      BY <2>1, <2>2, <3>1, ExceptSeq
  <2>5. bulk[t][n] \in Carriers /\ Release(t, bulk[t][n])
    BY <1>21, <2>1, <2>2, ElementOfSeq DEF AssignBulk
  <2>6. bulk' = [bulk EXCEPT ![t] = b]
    BY <1>21 DEF AssignBulk, Inv, TypeOK
  <2>7. pc' = [pc EXCEPT ![t] = IF Len(local[t]) = 1 THEN "idle" ELSE "bulk_assign"]
    BY <1>21 DEF AssignBulk, Goto
  <2>8. Len(local[t]) = 1 <=> Tail(local[t]) = <<>>
    BY <2>1, LengthOne
  <2>9. Len(Tail(local[t])) <= Len(b)
    BY <2>2, <2>3, <2>4
  <2> HIDE DEF n, b
  <2> QED
    BY <1>21, <2>3, <2>4, <2>5, <2>6, <2>7, <2>8, <2>9, ReleaseType
    DEF AssignBulk, TypeOK, CallState, Inv, Labels, P_Calls, C_Calls, Goto
<1>22. ASSUME ClearBulk(t) PROVE Inv'
  BY <1>22, ReleaseType, CarrierType, NilType
  DEF ClearBulk, TypeOK, CallState, Inv, Labels, P_Calls, C_Calls, Goto
<1>23. ASSUME ClearDone(t) PROVE Inv'
  BY <1>23 DEF ClearDone, TypeOK, CallState, Inv, Labels, P_Calls, C_Calls, Goto
<1>24. ASSUME Reset(t) PROVE Inv'
  BY <1>24, ReleaseType, CarrierType, NilType
  DEF Reset, TypeOK, CallState, Inv, Labels, P_Calls, C_Calls, Goto
<1>25. ASSUME Stash(t) PROVE Inv'
  <2>1. Append(bulk[t], slot[t]) \in Seq(Carriers)
    BY AppendProperties DEF Inv, TypeOK
  <2> QED
    BY <1>25, <2>1, NilType DEF Stash, TypeOK, CallState, Inv, Labels, P_Calls, C_Calls, Goto
<1>26. ASSUME P_SendBulk(t) PROVE Inv'
  <2> DEFINE k == Len(bulk[t])
             datas == [i \in 1..k |-> bulk[t][i].data]
             left == [i \in 1..k |-> LeftOf(bulk[t][i])]
  <2>1. k \in Nat
    BY LenProperties DEF Inv, TypeOK
  <2>2. datas \in Seq(Particles)
    <3>1. \A i \in 1..k : bulk[t][i].data \in Particles
      BY <1>26, ElementOfSeq, DataType DEF P_SendBulk, Inv, TypeOK
    <3> QED
      BY <2>1, <3>1
  <2>3. left \in Seq(Carriers)
    BY <2>1, NilType DEF LeftOf
  <2>4. local' = [local EXCEPT ![t] = datas] /\ bulk' = [bulk EXCEPT ![t] = left]
    BY <1>26 DEF P_SendBulk
  <2> HIDE DEF k, datas, left
  <2> QED
    BY <1>26, <2>2, <2>3, <2>4 DEF P_SendBulk, TypeOK, CallState, Inv, Labels, P_Calls, C_Calls, Goto
<1>30. ASSUME NEW x \in Infos, Write(t, x) PROVE Inv'
  BY <1>30, DataType DEF Write, TypeOK, CallState, Inv, Labels, P_Calls, C_Calls, Goto
<1> QED
  BY <1>1, <1>2, <1>3, <1>4, <1>5, <1>6, <1>7, <1>8, <1>9, <1>10, <1>11, <1>12, <1>13, <1>14, <1>15,
     <1>16, <1>17, <1>18, <1>19, <1>20, <1>21, <1>22, <1>23, <1>24, <1>25, <1>26, <1>30
  DEF InCall, ClientStep

(* Every variable keeps its type, in every execution: no call leaves a     *)
(* carrier without particle but with a queue, wraps an empty hand, or      *)
(* writes past the end of a vector it has resized.                         *)
THEOREM TypeCorrect == Spec => []TypeOK
<1>1. Inv => TypeOK
  BY DEF Inv
<1> QED
  BY InitInv, NextInv, <1>1, PTL DEF Spec

-----------------------------------------------------------------------------
(* Ownership: the queue never has two owners of a particle and never loses *)
(* one.                                                                    *)


(* The particles in a lane, and those a running call has taken. *)
LaneData(l) == Elems(ptoc[l])
LocalData(t) == Elems(local[t])

(* The kinds of places a created particle can be at. *)
Kinds == {"pool", "leaked", "lane", "slot", "bulk", "local", "fresh"}

(* Particle d is at place <<k, o>>: the pool and the leaked ones have no   *)
(* owner, the other places belong to a lane or a thread.                   *)
IsAt(d, k, o) ==
  \/ k = "pool" /\ o = TokenLane /\ d \in pool
  \/ k = "leaked" /\ o = TokenLane /\ d \in leaked
  \/ k = "lane" /\ o \in Lanes /\ d \in LaneData(o)
  \/ k = "slot" /\ o \in Threads /\ d \in SlotData(o)
  \/ k = "bulk" /\ o \in Threads /\ d \in BulkData(o)
  \/ k = "local" /\ o \in Threads /\ d \in LocalData(o)
  \/ k = "fresh" /\ o \in Threads /\ d \in fresh[o]

(* No particle is at two places, ... *)
OnePlace ==
  \A d \in Particles : \A k1, k2 \in Kinds : \A o1, o2 \in Lanes :
    IsAt(d, k1, o1) /\ IsAt(d, k2, o2) => k1 = k2 /\ o1 = o2

(* ... every created one is at some place, and no other is at any, ... *)
Accounted ==
  \A d \in Particles : d \in created <=> \E k \in Kinds, o \in Lanes : IsAt(d, k, o)

(* No carrier of a vector holds the particle of another one. *)
Once(b) == \A i, j \in 1..Len(b) : b[i].data = b[j].data => i = j \/ b[i] = Nil

(* ... and none is twice at the same place. *)
NoneTwice ==
  /\ \A l \in Lanes : Distinct(ptoc[l])
  /\ \A t \in Threads : Distinct(local[t]) /\ Once(bulk[t])

(* Together with Inv this is inductive.  OneOwner and NothingLost are not: *)
(* they follow from it, but a step needs to know which of the places a     *)
(* particle is at, and that what is not created is nowhere.                *)
Owned == OnePlace /\ Accounted /\ NoneTwice

-----------------------------------------------------------------------------
(* Sequences. *)

(* The empty sequence has no elements. *)
LEMMA ElemsEmpty == Elems(<<>>) = {} /\ Distinct(<<>>)
BY DEF Elems, Distinct

(* A sequence of one element. *)
LEMMA ElemsOne ==
  ASSUME NEW d PROVE Elems(<<d>>) = {d} /\ Distinct(<<d>>)
BY DEF Elems, Distinct

(* An enqueue adds one element, and no duplicate if the element is new. *)
LEMMA ElemsAppend ==
  ASSUME NEW S, NEW s \in Seq(S), NEW d \in S
  PROVE  /\ Elems(Append(s, d)) = Elems(s) \cup {d}
         /\ Distinct(s) /\ d \notin Elems(s) => Distinct(Append(s, d))
<1>1. /\ Len(Append(s, d)) = Len(s) + 1 /\ Len(s) \in Nat
      /\ \A i \in 1..Len(s) : Append(s, d)[i] = s[i]
      /\ Append(s, d)[Len(s) + 1] = d
  BY AppendProperties, LenProperties
<1> DEFINE a == Append(s, d)
<1> HIDE DEF a
<1>2. /\ Len(a) = Len(s) + 1 /\ Len(s) \in Nat
      /\ \A i \in 1..Len(s) : a[i] = s[i]
      /\ a[Len(s) + 1] = d
  BY <1>1 DEF a
<1>3. Elems(a) = Elems(s) \cup {d}
  BY <1>2 DEF Elems
<1>4. Distinct(s) /\ d \notin Elems(s) => Distinct(a)
  BY <1>2 DEF Elems, Distinct
<1> QED
  BY <1>3, <1>4 DEF a

(* A dequeue removes the head, which is gone if there were no duplicates. *)
LEMMA ElemsTail ==
  ASSUME NEW S, NEW s \in Seq(S), s # <<>>
  PROVE  /\ Elems(s) = Elems(Tail(s)) \cup {Head(s)}
         /\ Distinct(s) => Distinct(Tail(s)) /\ Head(s) \notin Elems(Tail(s))
<1> DEFINE r == Tail(s)
<1>1. /\ Len(s) \in Nat \ {0} /\ Len(r) = Len(s) - 1 /\ Head(s) = s[1]
      /\ \A i \in 1..Len(r) : r[i] = s[i + 1]
  BY HeadTailProperties, LenProperties, EmptySeq
<1> HIDE DEF r
<1>2. Elems(s) = Elems(r) \cup {s[1]}
  <2>1. \A i \in 1..Len(s) : i = 1 \/ (i - 1 \in 1..Len(r) /\ r[i - 1] = s[i])
    BY <1>1
  <2>2. \A i \in 1..Len(r) : i + 1 \in 1..Len(s)
    BY <1>1
  <2> QED
    BY <1>1, <2>1, <2>2 DEF Elems
<1>3. Distinct(s) => Distinct(r) /\ s[1] \notin Elems(r)
  BY <1>1 DEF Elems, Distinct
<1> QED
  BY <1>1, <1>2, <1>3 DEF r

(* enqueue_bulk adds all elements of the second sequence. *)
LEMMA ElemsConcat ==
  ASSUME NEW S, NEW s \in Seq(S), NEW r \in Seq(S)
  PROVE  /\ Elems(s \o r) = Elems(s) \cup Elems(r)
         /\ Distinct(s) /\ Distinct(r) /\ Elems(s) \cap Elems(r) = {} => Distinct(s \o r)
<1> DEFINE a == s \o r
<1>1. /\ Len(a) = Len(s) + Len(r) /\ Len(s) \in Nat /\ Len(r) \in Nat
      /\ \A i \in 1..Len(a) : a[i] = IF i <= Len(s) THEN s[i] ELSE r[i - Len(s)]
  BY ConcatProperties, LenProperties
<1> HIDE DEF a
<1>2. \A i \in 1..Len(s) : i \in 1..Len(a) /\ a[i] = s[i]
  BY <1>1
<1>3. \A i \in 1..Len(r) : i + Len(s) \in 1..Len(a) /\ a[i + Len(s)] = r[i]
  BY <1>1
<1>4. \A i \in 1..Len(a) : (i \in 1..Len(s)) \/ (i - Len(s) \in 1..Len(r) /\ i > Len(s))
  BY <1>1
<1>5. Elems(a) = Elems(s) \cup Elems(r)
  <2>1. ASSUME NEW i \in 1..Len(a) PROVE a[i] \in Elems(s) \cup Elems(r)
    BY <1>1, <1>4 DEF Elems
  <2>2. Elems(s) \subseteq Elems(a)
    BY <1>2 DEF Elems
  <2>3. Elems(r) \subseteq Elems(a)
    BY <1>3 DEF Elems
  <2> QED
    BY <2>1, <2>2, <2>3 DEF Elems
<1>6. ASSUME Distinct(s), Distinct(r), Elems(s) \cap Elems(r) = {} PROVE Distinct(a)
  <2> SUFFICES ASSUME NEW i \in 1..Len(a), NEW j \in 1..Len(a), a[i] = a[j] PROVE i = j
    BY DEF Distinct
  <2>1. CASE i \in 1..Len(s) /\ j \in 1..Len(s)
    BY <2>1, <1>2, <1>6 DEF Distinct
  <2>2. CASE i > Len(s) /\ j > Len(s)
    <3>1. i - Len(s) \in 1..Len(r) /\ j - Len(s) \in 1..Len(r) /\ r[i - Len(s)] = r[j - Len(s)]
      BY <2>2, <1>1
    <3>2. i - Len(s) = j - Len(s)
      BY <3>1, <1>6 DEF Distinct
    <3> QED
      BY <3>2, <1>1
  <2>3. CASE i \in 1..Len(s) /\ j > Len(s)
    <3>1. a[i] \in Elems(s) /\ a[j] \in Elems(r)
      BY <2>3, <1>1 DEF Elems
    <3> QED
      BY <3>1, <1>6
  <2>4. CASE i > Len(s) /\ j \in 1..Len(s)
    <3>1. a[j] \in Elems(s) /\ a[i] \in Elems(r)
      BY <2>4, <1>1 DEF Elems
    <3> QED
      BY <3>1, <1>6
  <2> QED
    BY <1>1, <2>1, <2>2, <2>3, <2>4
<1> QED
  BY <1>5, <1>6 DEF a

-----------------------------------------------------------------------------
(* Vectors of carriers. *)

Datas(b) == {b[i].data : i \in 1..Len(b)} \ {NoParticle}

(* Only the null carrier holds nothing. *)
LEMMA NilHoldsNothing ==
  ASSUME NEW c \in Carriers
  PROVE  (c = Nil <=> c.data = NoParticle) /\ (c = Nil <=> c.host = "none")
BY ConstantAssumption, HostType DEF Carriers, Nil

(* push_back adds the particle of one carrier. *)
LEMMA DatasAppend ==
  ASSUME NEW b \in Seq(Carriers), NEW c \in Carriers, c # Nil
  PROVE  /\ Datas(Append(b, c)) = Datas(b) \cup {c.data}
         /\ Once(b) /\ c.data \notin Datas(b) => Once(Append(b, c))
<1> DEFINE a == Append(b, c)
<1>1. /\ Len(a) = Len(b) + 1 /\ Len(b) \in Nat
      /\ \A i \in 1..Len(b) : a[i] = b[i]
      /\ a[Len(b) + 1] = c
  BY AppendProperties, LenProperties
<1> HIDE DEF a
<1>2. c.data # NoParticle
  BY NilHoldsNothing
<1>3. Datas(a) = Datas(b) \cup {c.data}
  <2>1. \A i \in 1..Len(a) : i \in 1..Len(b) \/ i = Len(b) + 1
    BY <1>1
  <2>2. \A i \in 1..Len(b) : i \in 1..Len(a)
    BY <1>1
  <2>3. Len(b) + 1 \in 1..Len(a)
    BY <1>1
  <2> QED
    BY <1>1, <1>2, <2>1, <2>2, <2>3 DEF Datas
<1>4. ASSUME Once(b), c.data \notin Datas(b) PROVE Once(a)
  <2> SUFFICES ASSUME NEW i \in 1..Len(a), NEW j \in 1..Len(a), a[i].data = a[j].data
               PROVE  i = j \/ a[i] = Nil
    BY DEF Once
  <2>1. CASE i \in 1..Len(b) /\ j \in 1..Len(b)
    BY <2>1, <1>1, <1>4 DEF Once
  <2>2. CASE i = Len(b) + 1 \/ j = Len(b) + 1
    <3>1. \A n \in 1..Len(b) : b[n].data # c.data
      BY <1>2, <1>4 DEF Datas
    <3> QED
      BY <2>2, <3>1, <1>1
  <2> QED
    BY <1>1, <2>1, <2>2
<1> QED
  BY <1>3, <1>4 DEF a

(* Sequence r is b without its position m. *)
LeavesOut(r, b, m) ==
  /\ Len(r) = Len(b) - 1
  /\ \A i \in 1..Len(r) : r[i] = IF i < m THEN b[i] ELSE b[i + 1]

(* A vector loses one carrier. *)
LEMMA DatasWithout ==
  ASSUME NEW b \in Seq(Carriers), NEW m \in 1..Len(b), NEW r, LeavesOut(r, b, m)
  PROVE  /\ Datas(b) = Datas(r) \cup ({b[m].data} \ {NoParticle})
         /\ Once(b) => Once(r) /\ (b[m] = Nil \/ b[m].data \notin Datas(r))
<1>1. /\ Len(b) \in Nat /\ \A i \in 1..Len(b) : b[i] \in Carriers
      /\ Len(r) = Len(b) - 1
      /\ \A i \in 1..Len(r) : r[i] = IF i < m THEN b[i] ELSE b[i + 1]
  BY LenProperties, ElementOfSeq DEF LeavesOut
<1>2. \A i \in 1..Len(r) : r[i] = (IF i < m THEN b[i] ELSE b[i + 1]) /\ i \in 1..Len(b) /\ i + 1 \in 1..Len(b)
  BY <1>1
<1>3. \A i \in 1..Len(b) :
        \/ i = m
        \/ i < m /\ i \in 1..Len(r) /\ r[i] = b[i]
        \/ i > m /\ i - 1 \in 1..Len(r) /\ r[i - 1] = b[i]
  BY <1>1
<1>4. Datas(b) = Datas(r) \cup ({b[m].data} \ {NoParticle})
  <2>1. Datas(b) \subseteq Datas(r) \cup ({b[m].data} \ {NoParticle})
    BY <1>3 DEF Datas
  <2>2. Datas(r) \subseteq Datas(b)
    BY <1>2 DEF Datas
  <2>3. b[m].data \in Datas(b) \/ b[m].data = NoParticle
    BY DEF Datas
  <2> QED
    BY <2>1, <2>2, <2>3
<1>5. ASSUME Once(b) PROVE Once(r)
  <2> SUFFICES ASSUME NEW i \in 1..Len(r), NEW j \in 1..Len(r), r[i].data = r[j].data
               PROVE  i = j \/ r[i] = Nil
    BY DEF Once
  <2> DEFINE p(n) == IF n < m THEN n ELSE n + 1
  <2>1. p(i) \in 1..Len(b) /\ p(j) \in 1..Len(b) /\ r[i] = b[p(i)] /\ r[j] = b[p(j)]
    BY <1>1, <1>2
  <2>2. p(i) = p(j) => i = j
    BY <1>1
  <2> HIDE DEF p
  <2> QED
    BY <1>5, <2>1, <2>2 DEF Once
<1>6. ASSUME Once(b), b[m] # Nil PROVE b[m].data \notin Datas(r)
  <2> SUFFICES ASSUME NEW i \in 1..Len(r), b[m].data = r[i].data PROVE FALSE
    BY DEF Datas
  <2> DEFINE p == IF i < m THEN i ELSE i + 1
  <2>1. p \in 1..Len(b) /\ r[i] = b[p] /\ p # m
    BY <1>1, <1>2
  <2> HIDE DEF p
  <2> QED
    BY <1>6, <2>1 DEF Once
<1> QED
  BY <1>4, <1>5, <1>6

(* Padding with null carriers changes nothing. *)
LEMMA DatasPad ==
  ASSUME NEW b \in Seq(Carriers), NEW m \in Nat, Len(b) <= m
  PROVE  LET r == [i \in 1..m |-> IF i <= Len(b) THEN b[i] ELSE Nil] IN
         Datas(r) = Datas(b) /\ (Once(b) => Once(r))
<1> DEFINE r == [i \in 1..m |-> IF i <= Len(b) THEN b[i] ELSE Nil]
<1>1. Len(b) \in Nat /\ Len(r) = m /\ \A i \in 1..m : r[i] = IF i <= Len(b) THEN b[i] ELSE Nil
  BY LenProperties
<1> HIDE DEF r
<1>2. \A i \in 1..Len(b) : i \in 1..Len(r) /\ r[i] = b[i]
  BY <1>1
<1>3. \A i \in 1..Len(r) : (i \in 1..Len(b) /\ r[i] = b[i]) \/ r[i] = Nil
  BY <1>1
<1>4. Nil.data = NoParticle
  BY DEF Nil
<1>5. Datas(r) = Datas(b)
  BY <1>2, <1>3, <1>4 DEF Datas
<1>6. ASSUME Once(b) PROVE Once(r)
  <2>1. \A i \in 1..Len(b) : b[i].data = NoParticle => b[i] = Nil
    BY NilHoldsNothing, ElementOfSeq
  <2> QED
    BY <1>2, <1>3, <1>4, <1>6, <2>1 DEF Once
<1> QED
  BY <1>5, <1>6 DEF r

(* One carrier of a vector is replaced by one with another particle. *)
LEMMA DatasReplace ==
  ASSUME NEW b \in Seq(Carriers), NEW n \in 1..Len(b), NEW c \in Carriers, c # Nil,
         Once(b), c.data \notin Datas(b)
  PROVE  LET r == [b EXCEPT ![n] = c] IN
         /\ Datas(r) = (Datas(b) \ {b[n].data}) \cup {c.data}
         /\ Once(r)
<1> DEFINE r == [b EXCEPT ![n] = c]
<1>1. /\ Len(r) = Len(b) /\ Len(b) \in Nat /\ r[n] = c
      /\ \A i \in 1..Len(b) : i # n => r[i] = b[i]
  BY ExceptSeq, LenProperties
<1> HIDE DEF r
<1>2. c.data # NoParticle /\ \A i \in 1..Len(b) : b[i].data # c.data
  BY NilHoldsNothing DEF Datas
<1>3. \A i \in 1..Len(b) : i # n /\ b[i].data = b[n].data => b[i].data = NoParticle
  BY DEF Once, Nil
<1>4. Datas(r) = (Datas(b) \ {b[n].data}) \cup {c.data}
  BY <1>1, <1>2, <1>3 DEF Datas
<1>5. Once(r)
  BY <1>1, <1>2 DEF Once
<1> QED
  BY <1>4, <1>5 DEF r

(* A vector without null carriers, taken apart by P_send_bulk. *)
LEMMA DatasSent ==
  ASSUME NEW b \in Seq(Carriers), Once(b), \A i \in 1..Len(b) : b[i] # Nil
  PROVE  LET s == [i \in 1..Len(b) |-> b[i].data]
             r == [i \in 1..Len(b) |-> LeftOf(b[i])]
         IN  /\ Elems(s) = Datas(b) /\ Distinct(s)
             /\ Datas(r) = {} /\ Once(r)
<1> DEFINE s == [i \in 1..Len(b) |-> b[i].data]
           r == [i \in 1..Len(b) |-> LeftOf(b[i])]
<1>1. /\ Len(b) \in Nat /\ Len(s) = Len(b) /\ Len(r) = Len(b)
      /\ \A i \in 1..Len(b) : s[i] = b[i].data /\ r[i] = Nil
  BY LenProperties DEF LeftOf
<1> HIDE DEF s, r
<1>2. \A i \in 1..Len(b) : b[i].data # NoParticle
  BY NilHoldsNothing, ElementOfSeq
<1>3. Elems(s) = Datas(b)
  BY <1>1, <1>2 DEF Elems, Datas
<1>4. Distinct(s)
  BY <1>1 DEF Distinct, Once
<1>5. Datas(r) = {} /\ Once(r)
  BY <1>1 DEF Datas, Once, Nil
<1> QED
  BY <1>3, <1>4, <1>5 DEF s, r

-----------------------------------------------------------------------------
(* Moves. *)

(* A particle that is at one place is at no other, and it is created. *)
LEMMA Housed ==
  ASSUME OnePlace, Accounted, NEW d \in Particles, NEW k1 \in Kinds, NEW o1 \in Lanes, IsAt(d, k1, o1)
  PROVE  /\ \A k \in Kinds, o \in Lanes : IsAt(d, k, o) <=> k = k1 /\ o = o1
         /\ d \in created
BY DEF OnePlace, Accounted

(* The particles of D go to <<k1, o1>>, those of E to <<k2, o2>>, from     *)
(* wherever they were, and the others stay.                                *)
Moved(D, k1, o1, E, k2, o2) ==
  \A d \in Particles, k \in Kinds, o \in Lanes :
    IsAt(d, k, o)' <=> IF d \in D THEN k = k1 /\ o = o1
                     ELSE IF d \in E THEN k = k2 /\ o = o2 ELSE IsAt(d, k, o)

(* A move leaves every created particle at exactly one place. *)
LEMMA MoveKeeps ==
  ASSUME OnePlace, Accounted, NEW D, NEW E,
         NEW k1 \in Kinds, NEW o1 \in Lanes, NEW k2 \in Kinds, NEW o2 \in Lanes,
         Moved(D, k1, o1, E, k2, o2), created' = created \cup D \cup E
  PROVE  OnePlace' /\ Accounted'
<1>1. OnePlace'
  BY DEF OnePlace, Moved
<1>2. Accounted'
  <2> SUFFICES ASSUME NEW d \in Particles
               PROVE  d \in created' <=> \E k \in Kinds, o \in Lanes : IsAt(d, k, o)'
    BY DEF Accounted
  <2>1. CASE d \in D
    BY <2>1 DEF Moved
  <2>2. CASE d \notin D /\ d \in E
    BY <2>2 DEF Moved
  <2>3. CASE d \notin D /\ d \notin E
    BY <2>3 DEF Moved, Accounted
  <2> QED
    BY <2>1, <2>2, <2>3
<1> QED
  BY <1>1, <1>2

Held(c) == {c.data} \ {NoParticle}

(* A dying carrier's particle goes to the pool, to a lane, or is leaked. *)
LEMMA Released ==
  ASSUME TypeOK, NEW t \in Threads, NEW c \in Carriers, Release(t, c)
  PROVE  \E k \in {"pool", "leaked", "lane"}, o \in Lanes :
           /\ k = "lane" \/ o = TokenLane
           /\ pool' = IF k = "pool" THEN pool \cup Held(c) ELSE pool
           /\ leaked' = IF k = "leaked" THEN leaked \cup Held(c) ELSE leaked
           /\ \A l \in Lanes :
                LaneData(l)' = IF k = "lane" /\ l = o THEN LaneData(l) \cup Held(c) ELSE LaneData(l)
           /\ (\A l \in Lanes : Distinct(ptoc[l]) /\ c.data \notin Elems(ptoc[l]))
              => \A l \in Lanes : Distinct(ptoc'[l])
<1>0. TokenLane \in Lanes
  BY DEF Lanes
<1>1. CASE c.host = "none" /\ UNCHANGED <<pool, ptoc, leaked>>
  <2>1. Held(c) = {}
    BY <1>1, NilHoldsNothing DEF Held
  <2> QED
    BY <1>0, <1>1, <2>1 DEF LaneData
<1>2. CASE c.host = "pool" /\ pool' = pool \cup {c.data} /\ UNCHANGED <<ptoc, leaked>>
  <2>1. Held(c) = {c.data}
    BY <1>2, NilHoldsNothing DEF Held
  <2> QED
    BY <1>0, <1>2, <2>1 DEF LaneData
<1>3. CASE /\ c.host \in {"ptoc", "token"}
           /\ ptoc' = [ptoc EXCEPT ![LaneOf(t, c)] = Append(@, c.data)]
           /\ UNCHANGED <<pool, leaked>>
  <2> DEFINE o == LaneOf(t, c)
  <2>1. o \in Lanes
    BY DEF LaneOf, Lanes
  <2>2. Held(c) = {c.data} /\ c.data \in Particles
    BY <1>3, NilHoldsNothing, DataType DEF Held
  <2>3. ptoc[o] \in Seq(Particles)
    BY <2>1 DEF TypeOK
  <2>4. /\ Elems(Append(ptoc[o], c.data)) = Elems(ptoc[o]) \cup {c.data}
        /\ Distinct(ptoc[o]) /\ c.data \notin Elems(ptoc[o]) => Distinct(Append(ptoc[o], c.data))
    BY <2>2, <2>3, ElemsAppend
  <2>5. \A l \in Lanes : ptoc'[l] = IF l = o THEN Append(ptoc[o], c.data) ELSE ptoc[l]
    BY <1>3, <2>1 DEF TypeOK
  <2> HIDE DEF o
  <2>6. pool' = pool /\ leaked' = leaked
    BY <1>3
  <2>7. \A l \in Lanes : LaneData(l)' = IF l = o THEN LaneData(l) \cup Held(c) ELSE LaneData(l)
    BY <2>2, <2>4, <2>5 DEF LaneData
  <2>8. (\A l \in Lanes : Distinct(ptoc[l]) /\ c.data \notin Elems(ptoc[l]))
        => \A l \in Lanes : Distinct(ptoc'[l])
    BY <2>1, <2>4, <2>5
  <2> QED
    BY <2>1, <2>6, <2>7, <2>8
<1>4. CASE c.host # "none" /\ leaked' = leaked \cup {c.data} /\ UNCHANGED <<pool, ptoc>>
  <2>1. Held(c) = {c.data}
    BY <1>4, NilHoldsNothing DEF Held
  <2> QED
    BY <1>0, <1>4, <2>1 DEF LaneData
<1> QED
  BY <1>1, <1>2, <1>3, <1>4 DEF Release

(* A step that leaves all places alone keeps their contents apart. *)
LEMMA Still ==
  ASSUME Owned, UNCHANGED <<pool, ptoc, slot, bulk, local, fresh, created, leaked>>
  PROVE  Owned'
BY DEF Owned, OnePlace, Accounted, NoneTwice, IsAt, SlotData, BulkData, LaneData, LocalData

(* The token lane and the lanes of the threads are lanes. *)
LEMMA PlaceTypes == TokenLane \in Lanes /\ Threads \subseteq Lanes
BY DEF Lanes

(* Whatever is at a place is a particle. *)
LEMMA PlacesHoldParticles ==
  ASSUME Inv, NEW d, NEW k \in Kinds, NEW o \in Lanes, IsAt(d, k, o)
  PROVE  d \in Particles
<1>1. \A l \in Lanes : LaneData(l) \subseteq Particles
  BY ElementOfSeq DEF Inv, TypeOK, LaneData, Elems
<1>2. \A u \in Threads : LocalData(u) \subseteq Particles
  BY ElementOfSeq DEF Inv, TypeOK, LocalData, Elems
<1>3. \A u \in Threads : SlotData(u) \subseteq Particles
  BY DataType DEF Inv, TypeOK, SlotData, Nil
<1>4. \A u \in Threads : BulkData(u) \subseteq Particles
  BY DataType, ElementOfSeq DEF Inv, TypeOK, BulkData, Nil
<1> QED
  BY <1>1, <1>2, <1>3, <1>4 DEF IsAt, Kinds, Inv, TypeOK

(* A particle held elsewhere is in no lane. *)
LEMMA NotQueued ==
  ASSUME Inv, Owned, NEW c \in Carriers, NEW k \in Kinds, k # "lane", NEW o \in Lanes,
         c # Nil => IsAt(c.data, k, o)
  PROVE  \A l \in Lanes : Distinct(ptoc[l]) /\ c.data \notin Elems(ptoc[l])
<1> SUFFICES ASSUME NEW l \in Lanes, c.data \in Elems(ptoc[l]) PROVE FALSE
  BY DEF Owned, NoneTwice
<1>1. IsAt(c.data, "lane", l) /\ "lane" \in Kinds
  BY DEF IsAt, LaneData, Kinds
<1>2. c.data \in Particles
  BY <1>1, PlacesHoldParticles
<1>3. c # Nil
  BY <1>2, ConstantAssumption DEF Nil
<1> QED
  BY <1>1, <1>2, <1>3 DEF Owned, OnePlace

(* The particle a call has taken is wrapped, and the old carrier dies. *)
LEMMA Wrap ==
  ASSUME Inv, Owned, NEW t \in Threads, NEW c \in Carriers, c # Nil,
         Len(local[t]) = 1, c.data = Head(local[t]),
         Release(t, slot[t]), slot' = [slot EXCEPT ![t] = c], local' = [local EXCEPT ![t] = <<>>],
         UNCHANGED <<bulk, fresh, created>>
  PROVE  Owned'
<1> DEFINE x == c.data
           old == Held(slot[t])
<1>1. slot[t] \in Carriers /\ local[t] \in Seq(Particles) /\ TypeOK
  BY DEF Inv, TypeOK
<1>2. Elems(local[t]) = {x} /\ x \in Particles /\ x # NoParticle
  <2>1. local[t][1] = x
    BY <1>1, HeadTailProperties
  <2>2. x \in Particles /\ x # NoParticle
    BY NilHoldsNothing, DataType
  <2> QED
    BY <2>1, <2>2 DEF Elems
<1>3. old \subseteq Particles /\ old = SlotData(t) /\ {x} \subseteq Particles
  BY <1>1, <1>2, DataType DEF Held, SlotData, Nil
<1>4. PICK k \in {"pool", "leaked", "lane"}, o \in Lanes :
        /\ k = "lane" \/ o = TokenLane
        /\ pool' = IF k = "pool" THEN pool \cup old ELSE pool
        /\ leaked' = IF k = "leaked" THEN leaked \cup old ELSE leaked
        /\ \A l \in Lanes :
             LaneData(l)' = IF k = "lane" /\ l = o THEN LaneData(l) \cup old ELSE LaneData(l)
        /\ (\A l \in Lanes : Distinct(ptoc[l]) /\ slot[t].data \notin Elems(ptoc[l]))
           => \A l \in Lanes : Distinct(ptoc'[l])
  BY <1>1, Released
<1>5. \A u \in Threads : SlotData(u)' = IF u = t THEN {x} ELSE SlotData(u)
  BY <1>2 DEF SlotData, Inv, TypeOK
<1>6. \A u \in Threads : LocalData(u)' = IF u = t THEN {} ELSE LocalData(u)
  BY ElemsEmpty DEF Inv, TypeOK, LocalData
<1>7. \A u \in Threads : BulkData(u)' = BulkData(u) /\ fresh'[u] = fresh[u]
  BY DEF BulkData
<1>8. /\ \A d \in old, kk \in Kinds, oo \in Lanes : IsAt(d, kk, oo) <=> kk = "slot" /\ oo = t
      /\ \A kk \in Kinds, oo \in Lanes : IsAt(x, kk, oo) <=> kk = "local" /\ oo = t
      /\ old \cup {x} \subseteq created
  <2>1. \A d \in old : IsAt(d, "slot", t)
    BY <1>3 DEF IsAt
  <2>2. IsAt(x, "local", t)
    BY <1>2 DEF IsAt, LocalData
  <2> QED
    BY <1>3, <2>1, <2>2, Housed, PlaceTypes DEF Owned, Kinds
<1> HIDE DEF x, old
<1>9. Moved(old, k, o, {x}, "slot", t)
  <2> SUFFICES ASSUME NEW d \in Particles, NEW kk \in Kinds, NEW oo \in Lanes
               PROVE  IsAt(d, kk, oo)' <=> IF d \in old THEN kk = k /\ oo = o
                                         ELSE IF d \in {x} THEN kk = "slot" /\ oo = t ELSE IsAt(d, kk, oo)
    BY DEF Moved
  <2>0. d \in old => d # x
    BY <1>8, PlaceTypes DEF Kinds
  <2>1. \A u \in Threads : LocalData(u) = IF u = t THEN {x} ELSE LocalData(u)
    BY <1>2 DEF LocalData
  <2> QED
    BY <2>0, <2>1, <1>3, <1>4, <1>5, <1>6, <1>7, <1>8, PlaceTypes DEF IsAt, Kinds
<1>10. OnePlace' /\ Accounted'
  <2>1. created' = created \cup old \cup {x}
    BY <1>8
  <2>2. k \in Kinds /\ "slot" \in Kinds /\ t \in Lanes
    BY PlaceTypes DEF Kinds
  <2>3. OnePlace /\ Accounted
    BY DEF Owned
  <2> QED
    BY <1>9, <2>1, <2>2, <2>3, MoveKeeps
<1>11. NoneTwice'
  <2>1. slot[t] # Nil => IsAt(slot[t].data, "slot", t)
    BY <1>1, NilHoldsNothing DEF IsAt, SlotData
  <2>2. \A l \in Lanes : Distinct(ptoc'[l])
    BY <1>1, <1>4, <2>1, NotQueued, PlaceTypes DEF Kinds
  <2> QED
    BY <2>2, ElemsEmpty DEF NoneTwice, Owned, Inv, TypeOK
<1> QED
  BY <1>10, <1>11 DEF Owned

(* One move, of particles that were at one place or are new. *)
Goes(D, k, o) == Moved(D, k, o, {}, k, o)

(* A single move leaves every created particle at exactly one place. *)
LEMMA GoKeeps ==
  ASSUME Owned, NEW D, NEW k \in Kinds, NEW o \in Lanes, Goes(D, k, o), created' = created \cup D
  PROVE  OnePlace' /\ Accounted'
BY MoveKeeps DEF Owned, Goes

(* A producer's call takes a particle out of the pool. *)
LEMMA TakeFromPoolKeeps ==
  ASSUME Inv, Owned, NEW t \in Threads, TakeFromPool(t) PROVE Owned'
<1>1. PICK d \in pool : pool' = pool \ {d} /\ local' = [local EXCEPT ![t] = <<d>>]
  BY DEF TakeFromPool
<1>2. d \in Particles /\ IsAt(d, "pool", TokenLane) /\ LocalData(t) = {}
  BY ElemsEmpty DEF Inv, TypeOK, IsAt, TakeFromPool, CallState, P_Calls, LocalData
<1>3. /\ \A kk \in Kinds, oo \in Lanes : IsAt(d, kk, oo) <=> kk = "pool" /\ oo = TokenLane
      /\ d \in created
  BY <1>2, Housed, PlaceTypes DEF Owned, Kinds
<1>4. \A u \in Threads : LocalData(u)' = IF u = t THEN {d} ELSE LocalData(u)
  BY <1>1, ElemsOne DEF Inv, TypeOK, LocalData
<1>5. /\ \A u \in Threads : SlotData(u)' = SlotData(u) /\ BulkData(u)' = BulkData(u) /\ fresh'[u] = fresh[u]
      /\ \A l \in Lanes : LaneData(l)' = LaneData(l)
      /\ leaked' = leaked /\ created' = created /\ bulk' = bulk /\ ptoc' = ptoc
  BY DEF TakeFromPool, SlotData, BulkData, LaneData
<1>6. Goes({d}, "local", t)
  BY <1>1, <1>2, <1>3, <1>4, <1>5, PlaceTypes DEF Goes, Moved, IsAt, Kinds
<1>7. OnePlace' /\ Accounted'
  BY <1>3, <1>5, <1>6, GoKeeps, PlaceTypes DEF Kinds
<1>8. NoneTwice'
  BY <1>1, <1>5, ElemsOne DEF Owned, NoneTwice, Inv, TypeOK
<1> QED
  BY <1>7, <1>8 DEF Owned

(* init_dataPool enqueues one new particle. *)
LEMMA FillPoolKeeps ==
  ASSUME Inv, Owned, NEW t \in Threads, FillPool(t) PROVE Owned'
<1>1. PICK d \in fresh[t] : pool' = pool \cup {d} /\ fresh' = [fresh EXCEPT ![t] = @ \ {d}]
  BY DEF FillPool
<1>2. d \in Particles /\ IsAt(d, "fresh", t)
  BY DEF Inv, TypeOK, IsAt
<1>3. /\ \A kk \in Kinds, oo \in Lanes : IsAt(d, kk, oo) <=> kk = "fresh" /\ oo = t
      /\ d \in created
  BY <1>2, Housed, PlaceTypes DEF Owned, Kinds
<1>4. \A u \in Threads : fresh'[u] = IF u = t THEN fresh[u] \ {d} ELSE fresh[u]
  BY <1>1 DEF Inv, TypeOK
<1>5. /\ \A u \in Threads :
        SlotData(u)' = SlotData(u) /\ BulkData(u)' = BulkData(u) /\ LocalData(u)' = LocalData(u)
      /\ \A l \in Lanes : LaneData(l)' = LaneData(l)
      /\ leaked' = leaked /\ created' = created /\ bulk' = bulk /\ ptoc' = ptoc /\ local' = local
  BY DEF FillPool, SlotData, BulkData, LaneData, LocalData
<1>6. Goes({d}, "pool", TokenLane)
  BY <1>1, <1>2, <1>3, <1>4, <1>5, PlaceTypes DEF Goes, Moved, IsAt, Kinds
<1>7. OnePlace' /\ Accounted'
  BY <1>3, <1>5, <1>6, GoKeeps, PlaceTypes DEF Kinds
<1> QED
  BY <1>5, <1>7 DEF Owned, NoneTwice

(* init_dataPool gives up and drops the particles it still has. *)
LEMMA FillFailsKeeps ==
  ASSUME Inv, Owned, NEW t \in Threads, FillFails(t) PROVE Owned'
<1> DEFINE D == fresh[t]
<1>1. leaked' = leaked \cup D /\ fresh' = [fresh EXCEPT ![t] = {}]
  BY DEF FillFails
<1>2. D \subseteq Particles /\ \A d \in D : IsAt(d, "fresh", t)
  BY DEF Inv, TypeOK, IsAt
<1>3. /\ \A d \in D, kk \in Kinds, oo \in Lanes : IsAt(d, kk, oo) <=> kk = "fresh" /\ oo = t
      /\ D \subseteq created
  BY <1>2, Housed, PlaceTypes DEF Owned, Kinds
<1>4. \A u \in Threads : fresh'[u] = IF u = t THEN {} ELSE fresh[u]
  BY <1>1 DEF Inv, TypeOK
<1>5. /\ \A u \in Threads :
        SlotData(u)' = SlotData(u) /\ BulkData(u)' = BulkData(u) /\ LocalData(u)' = LocalData(u)
      /\ \A l \in Lanes : LaneData(l)' = LaneData(l)
      /\ pool' = pool /\ created' = created /\ bulk' = bulk /\ ptoc' = ptoc /\ local' = local
  BY DEF FillFails, SlotData, BulkData, LaneData, LocalData
<1>6. Goes(D, "leaked", TokenLane)
  BY <1>1, <1>2, <1>3, <1>4, <1>5, PlaceTypes DEF Goes, Moved, IsAt, Kinds
<1>7. OnePlace' /\ Accounted'
  <2>1. created' = created \cup D
    BY <1>3, <1>5
  <2> HIDE DEF D
  <2> QED
    BY <2>1, <1>6, GoKeeps, PlaceTypes DEF Kinds
<1> QED
  BY <1>5, <1>7 DEF Owned, NoneTwice

(* New particles are nowhere. *)
LEMMA NotHoused ==
  ASSUME Owned, NEW d \in Particles \ created, NEW k \in Kinds, NEW o \in Lanes
  PROVE  ~IsAt(d, k, o)
BY DEF Owned, Accounted

(* malloc_particle makes new particles. *)
LEMMA MallocKeeps ==
  ASSUME Inv, Owned, NEW t \in Threads, Malloc(t) PROVE Owned'
<1>1. PICK S \in SUBSET (Particles \ created) :
        created' = created \cup S /\ fresh' = [fresh EXCEPT ![t] = S]
  BY DEF Malloc
<1>2. \A d \in S, kk \in Kinds, oo \in Lanes : ~IsAt(d, kk, oo)
  BY NotHoused
<1>3. fresh[t] = {}
  BY DEF Malloc, Inv, CallState
<1>4. \A u \in Threads : fresh'[u] = IF u = t THEN S ELSE fresh[u]
  BY <1>1 DEF Inv, TypeOK
<1>5. /\ \A u \in Threads :
        SlotData(u)' = SlotData(u) /\ BulkData(u)' = BulkData(u) /\ LocalData(u)' = LocalData(u)
      /\ \A l \in Lanes : LaneData(l)' = LaneData(l)
      /\ pool' = pool /\ leaked' = leaked /\ bulk' = bulk /\ ptoc' = ptoc /\ local' = local
  BY DEF Malloc, SlotData, BulkData, LaneData, LocalData
<1>6. Goes(S, "fresh", t)
  BY <1>1, <1>2, <1>3, <1>4, <1>5, PlaceTypes DEF Goes, Moved, IsAt, Kinds
<1>7. OnePlace' /\ Accounted'
  BY <1>1, <1>6, GoKeeps, PlaceTypes DEF Kinds
<1> QED
  BY <1>5, <1>7 DEF Owned, NoneTwice

(* malloc_particle throws and abandons what it made. *)
LEMMA MallocThrowsKeeps ==
  ASSUME Inv, Owned, NEW t \in Threads, MallocThrows(t) PROVE Owned'
<1> DEFINE S == Particles \ created
<1>1. CASE UNCHANGED <<created, leaked>>
  BY <1>1, Still DEF MallocThrows
<1>2. CASE created' = Particles /\ leaked' = leaked \cup S
  <2>1. \A d \in S, kk \in Kinds, oo \in Lanes : ~IsAt(d, kk, oo)
    BY NotHoused
  <2>2. created' = created \cup S
    BY <1>2 DEF Inv, TypeOK
  <2>3. /\ \A u \in Threads : /\ SlotData(u)' = SlotData(u) /\ BulkData(u)' = BulkData(u)
                             /\ LocalData(u)' = LocalData(u) /\ fresh'[u] = fresh[u]
        /\ \A l \in Lanes : LaneData(l)' = LaneData(l)
        /\ pool' = pool /\ bulk' = bulk /\ ptoc' = ptoc /\ local' = local
    BY DEF MallocThrows, SlotData, BulkData, LaneData, LocalData
  <2>4. Goes(S, "leaked", TokenLane)
    BY <1>2, <2>1, <2>3, PlaceTypes DEF Goes, Moved, IsAt, Kinds
  <2>5. OnePlace' /\ Accounted'
    <3> HIDE DEF S
    <3> QED
      BY <2>2, <2>4, GoKeeps, PlaceTypes DEF Kinds
  <2> QED
    BY <2>3, <2>5 DEF Owned, NoneTwice
<1> QED
  BY <1>1, <1>2 DEF MallocThrows

(* A carrier dies and nothing takes its place. *)
LEMMA DropKeeps ==
  ASSUME Inv, Owned, NEW t \in Threads, Release(t, slot[t]), slot' = [slot EXCEPT ![t] = Nil],
         UNCHANGED <<bulk, local, fresh, created>>
  PROVE  Owned'
<1> DEFINE old == Held(slot[t])
<1>1. slot[t] \in Carriers /\ TypeOK
  BY DEF Inv, TypeOK
<1>2. old \subseteq Particles /\ old = SlotData(t) /\ \A d \in old : IsAt(d, "slot", t)
  BY <1>1, DataType, PlaceTypes DEF Held, SlotData, Nil, IsAt
<1>3. PICK k \in {"pool", "leaked", "lane"}, o \in Lanes :
        /\ k = "lane" \/ o = TokenLane
        /\ pool' = IF k = "pool" THEN pool \cup old ELSE pool
        /\ leaked' = IF k = "leaked" THEN leaked \cup old ELSE leaked
        /\ \A l \in Lanes :
             LaneData(l)' = IF k = "lane" /\ l = o THEN LaneData(l) \cup old ELSE LaneData(l)
        /\ (\A l \in Lanes : Distinct(ptoc[l]) /\ slot[t].data \notin Elems(ptoc[l]))
           => \A l \in Lanes : Distinct(ptoc'[l])
  BY <1>1, Released
<1>4. \A u \in Threads : SlotData(u)' = IF u = t THEN {} ELSE SlotData(u)
  BY DEF SlotData, Inv, TypeOK, Nil
<1>5. \A u \in Threads : LocalData(u)' = LocalData(u) /\ BulkData(u)' = BulkData(u) /\ fresh'[u] = fresh[u]
  BY DEF BulkData, LocalData
<1>6. /\ \A d \in old, kk \in Kinds, oo \in Lanes : IsAt(d, kk, oo) <=> kk = "slot" /\ oo = t
      /\ old \subseteq created
  BY <1>2, Housed, PlaceTypes DEF Owned, Kinds
<1> HIDE DEF old
<1>7. Goes(old, k, o)
  BY <1>2, <1>3, <1>4, <1>5, <1>6, PlaceTypes DEF Goes, Moved, IsAt, Kinds
<1>8. OnePlace' /\ Accounted'
  <2>1. k \in Kinds /\ created' = created \cup old
    BY <1>6 DEF Kinds
  <2> QED
    BY <1>7, <2>1, GoKeeps
<1>9. NoneTwice'
  <2>1. slot[t] # Nil => IsAt(slot[t].data, "slot", t)
    BY <1>1, NilHoldsNothing DEF IsAt, SlotData
  <2>2. \A l \in Lanes : Distinct(ptoc'[l])
    BY <1>1, <1>3, <2>1, NotQueued, PlaceTypes DEF Kinds
  <2> QED
    BY <2>2 DEF NoneTwice, Owned
<1> QED
  BY <1>8, <1>9 DEF Owned

(* P_get and C_recv wrap the particle they took. *)
LEMMA AssignKeeps ==
  ASSUME Inv, Owned, NEW t \in Threads, P_Assign(t) \/ C_Assign(t) PROVE Owned'
<1> DEFINE x == Head(local[t])
<1>1. local[t] \in Seq(Particles) /\ Len(local[t]) = 1
  BY DEF Inv, TypeOK, CallState, P_Assign, C_Assign
<1>2. x \in Particles
  BY <1>1, HeadTailProperties, EmptySeq
<1>3. PICK c \in {ForConsumers(x), ForPool(x)} :
        Release(t, slot[t]) /\ slot' = [slot EXCEPT ![t] = c]
  BY DEF P_Assign, C_Assign
<1> HIDE DEF x
<1>4. c \in Carriers /\ c # Nil /\ c.data = x
  <2>0. ForPool(x) \in Carriers /\ ForConsumers(x) \in Carriers
    BY <1>2, CarrierType
  <2>1. c \in Carriers /\ c.data = x
    BY <2>0, <1>3 DEF ForConsumers, ForPool, Carrier
  <2> QED
    BY <1>2, <2>1, ConstantAssumption DEF Nil
<1>5. local' = [local EXCEPT ![t] = <<>>] /\ UNCHANGED <<bulk, fresh, created>>
  BY DEF P_Assign, C_Assign
<1> QED
  BY <1>1, <1>3, <1>4, <1>5, Wrap DEF x

(* A consumer's call takes the oldest particle of a lane. *)
LEMMA TakeKeeps ==
  ASSUME Inv, Owned, NEW t \in Threads, TakeFromPtoC(t) \/ TakeOneOfBulk(t) PROVE Owned'
<1>0. local[t] \in Seq(Particles)
  BY DEF Inv, TypeOK
<1>1. PICK l \in Lanes :
        /\ ptoc[l] # <<>>
        /\ local' = [local EXCEPT ![t] = Append(@, Head(ptoc[l]))]
        /\ ptoc' = [ptoc EXCEPT ![l] = Tail(@)]
  <2>1. CASE TakeOneOfBulk(t)
    BY <2>1 DEF TakeOneOfBulk
  <2>2. CASE TakeFromPtoC(t)
    <3>1. local[t] = <<>>
      BY <2>2 DEF TakeFromPtoC, Inv, CallState
    <3>2. \A h : Append(<<>>, h) = <<h>>
      OBVIOUS
    <3>3. PICK l \in Lanes :
            /\ ptoc[l] # <<>>
            /\ local' = [local EXCEPT ![t] = <<Head(ptoc[l])>>]
            /\ ptoc' = [ptoc EXCEPT ![l] = Tail(@)]
      BY <2>2 DEF TakeFromPtoC
    <3>4. local' = [local EXCEPT ![t] = Append(@, Head(ptoc[l]))]
      BY <3>1, <3>2, <3>3 DEF Inv, TypeOK
    <3> QED
      BY <3>3, <3>4
  <2> QED
    BY <2>1, <2>2
<1> DEFINE d == Head(ptoc[l])
<1>2. /\ d \in Particles
      /\ Elems(ptoc[l]) = Elems(Tail(ptoc[l])) \cup {d}
      /\ Distinct(Tail(ptoc[l])) /\ d \notin Elems(Tail(ptoc[l]))
  BY <1>1, ElemsTail, HeadTailProperties DEF Inv, TypeOK, Owned, NoneTwice
<1>3. /\ \A kk \in Kinds, oo \in Lanes : IsAt(d, kk, oo) <=> kk = "lane" /\ oo = l
      /\ d \in created
  <2>1. IsAt(d, "lane", l)
    BY <1>2 DEF IsAt, LaneData
  <2> QED
    BY <1>2, <2>1, Housed DEF Owned, Kinds
<1> HIDE DEF d
<1>4. \A m \in Lanes : LaneData(m)' = IF m = l THEN LaneData(m) \ {d} ELSE LaneData(m)
  BY <1>1, <1>2 DEF LaneData, Inv, TypeOK
<1>5. /\ Elems(Append(local[t], d)) = Elems(local[t]) \cup {d}
      /\ Distinct(local[t]) /\ d \notin Elems(local[t]) => Distinct(Append(local[t], d))
  BY <1>0, <1>2, ElemsAppend
<1>6. \A u \in Threads : local'[u] = IF u = t THEN Append(local[t], d) ELSE local[u]
  BY <1>1 DEF Inv, TypeOK, d
<1>7. \A u \in Threads : LocalData(u)' = IF u = t THEN LocalData(u) \cup {d} ELSE LocalData(u)
  BY <1>5, <1>6 DEF LocalData
<1>8. /\ \A u \in Threads : SlotData(u)' = SlotData(u) /\ BulkData(u)' = BulkData(u) /\ fresh'[u] = fresh[u]
      /\ pool' = pool /\ leaked' = leaked /\ created' = created /\ bulk' = bulk
  BY DEF TakeFromPtoC, TakeOneOfBulk, SlotData, BulkData
<1>9. Goes({d}, "local", t)
  BY <1>2, <1>3, <1>4, <1>7, <1>8, PlaceTypes DEF Goes, Moved, IsAt, Kinds
<1>10. OnePlace' /\ Accounted'
  BY <1>3, <1>8, <1>9, GoKeeps, PlaceTypes DEF Kinds
<1>11. NoneTwice'
  <2>1. \A m \in Lanes : ptoc'[m] = IF m = l THEN Tail(ptoc[l]) ELSE ptoc[m]
    BY <1>1 DEF Inv, TypeOK
  <2>2. d \notin Elems(local[t])
    BY <1>3, PlaceTypes DEF IsAt, LocalData, Kinds
  <2> QED
    BY <1>2, <1>5, <1>6, <1>8, <2>1, <2>2 DEF Owned, NoneTwice
<1> QED
  BY <1>10, <1>11 DEF Owned

-----------------------------------------------------------------------------
(* Steps on vectors of carriers. *)

(* The client moves p's carrier into its vector. *)
LEMMA StashKeeps ==
  ASSUME Inv, Owned, NEW t \in Threads, Stash(t) PROVE Owned'
<1> DEFINE x == slot[t].data
<1>1. slot[t] \in Carriers /\ slot[t] # Nil /\ bulk[t] \in Seq(Carriers)
  BY DEF Inv, TypeOK, Stash
<1>2. x \in Particles /\ x # NoParticle /\ SlotData(t) = {x} /\ IsAt(x, "slot", t)
  BY <1>1, DataType, NilHoldsNothing, PlaceTypes DEF SlotData, IsAt
<1>3. /\ \A kk \in Kinds, oo \in Lanes : IsAt(x, kk, oo) <=> kk = "slot" /\ oo = t
      /\ x \in created
  BY <1>2, Housed, PlaceTypes DEF Owned, Kinds
<1> DEFINE b == Append(bulk[t], slot[t])
<1>4. Datas(b) = Datas(bulk[t]) \cup {x} /\ (Once(bulk[t]) /\ x \notin Datas(bulk[t]) => Once(b))
  BY <1>1, DatasAppend
<1> HIDE DEF b, x
<1>5. \A u \in Threads : bulk'[u] = IF u = t THEN b ELSE bulk[u]
  BY DEF Stash, Inv, TypeOK, b
<1>6. \A u \in Threads : BulkData(u)' = IF u = t THEN BulkData(u) \cup {x} ELSE BulkData(u)
  BY <1>4, <1>5 DEF BulkData, Datas
<1>7. \A u \in Threads : SlotData(u)' = IF u = t THEN {} ELSE SlotData(u)
  BY DEF SlotData, Inv, TypeOK, Nil, Stash
<1>8. /\ \A u \in Threads : LocalData(u)' = LocalData(u) /\ fresh'[u] = fresh[u]
      /\ \A l \in Lanes : LaneData(l)' = LaneData(l)
      /\ pool' = pool /\ leaked' = leaked /\ created' = created /\ ptoc' = ptoc /\ local' = local
  BY DEF Stash, LocalData, LaneData
<1>9. Goes({x}, "bulk", t)
  BY <1>2, <1>3, <1>6, <1>7, <1>8, PlaceTypes DEF Goes, Moved, IsAt, Kinds
<1>10. OnePlace' /\ Accounted'
  BY <1>3, <1>8, <1>9, GoKeeps, PlaceTypes DEF Kinds
<1>11. NoneTwice'
  <2>1. x \notin Datas(bulk[t])
    BY <1>3, PlaceTypes DEF IsAt, BulkData, Datas, Kinds
  <2> QED
    BY <1>4, <1>5, <1>8, <2>1 DEF Owned, NoneTwice
<1> QED
  BY <1>10, <1>11 DEF Owned

(* P_send_bulk takes the particles out of their carriers. *)
LEMMA SendBulkKeeps ==
  ASSUME Inv, Owned, NEW t \in Threads, P_SendBulk(t) PROVE Owned'
<1> DEFINE s == [i \in 1..Len(bulk[t]) |-> bulk[t][i].data]
           r == [i \in 1..Len(bulk[t]) |-> LeftOf(bulk[t][i])]
           D == BulkData(t)
<1>1. bulk[t] \in Seq(Carriers) /\ Once(bulk[t]) /\ \A i \in 1..Len(bulk[t]) : bulk[t][i] # Nil
  BY DEF Inv, TypeOK, Owned, NoneTwice, P_SendBulk
<1>2. Elems(s) = Datas(bulk[t]) /\ Distinct(s) /\ Datas(r) = {} /\ Once(r)
  BY <1>1, DatasSent
<1>3. local' = [local EXCEPT ![t] = s] /\ bulk' = [bulk EXCEPT ![t] = r]
  BY DEF P_SendBulk
<1> HIDE DEF s, r
<1>4. D = Datas(bulk[t])
  BY DEF BulkData, Datas
<1>5. D \subseteq Particles /\ \A d \in D : IsAt(d, "bulk", t)
  BY PlacesHoldParticles, PlaceTypes DEF IsAt, Kinds
<1>6. /\ \A d \in D, kk \in Kinds, oo \in Lanes : IsAt(d, kk, oo) <=> kk = "bulk" /\ oo = t
      /\ D \subseteq created
  BY <1>5, Housed, PlaceTypes DEF Owned, Kinds
<1>7. LocalData(t) = {}
  BY ElemsEmpty DEF P_SendBulk, Inv, CallState, LocalData
<1>8. \A u \in Threads : /\ local'[u] = IF u = t THEN s ELSE local[u]
                         /\ bulk'[u] = IF u = t THEN r ELSE bulk[u]
  BY <1>3 DEF Inv, TypeOK
<1>9. \A u \in Threads : LocalData(u)' = IF u = t THEN D ELSE LocalData(u)
  BY <1>2, <1>4, <1>8 DEF LocalData
<1>10. \A u \in Threads : BulkData(u)' = IF u = t THEN {} ELSE BulkData(u)
  BY <1>2, <1>8 DEF BulkData, Datas
<1>11. /\ \A u \in Threads : SlotData(u)' = SlotData(u) /\ fresh'[u] = fresh[u]
       /\ \A l \in Lanes : LaneData(l)' = LaneData(l)
       /\ pool' = pool /\ leaked' = leaked /\ created' = created /\ ptoc' = ptoc
  BY DEF P_SendBulk, SlotData, LaneData
<1> HIDE DEF D
<1>12. Goes(D, "local", t)
  <2>1. D = BulkData(t)
    BY DEF D
  <2> QED
    BY <2>1, <1>5, <1>6, <1>7, <1>9, <1>10, <1>11, PlaceTypes DEF Goes, Moved, IsAt, Kinds
<1>13. OnePlace' /\ Accounted'
  <2>1. created' = created \cup D
    BY <1>6, <1>11
  <2> QED
    BY <2>1, <1>12, GoKeeps, PlaceTypes DEF Kinds
<1>14. NoneTwice'
  BY <1>2, <1>8, <1>11 DEF Owned, NoneTwice
<1> QED
  BY <1>13, <1>14 DEF Owned

(* P_send_bulk enqueues them, or loses them all. *)
LEMMA EnqueueBulkKeeps ==
  ASSUME Inv, Owned, NEW t \in Threads, EnqueueBulk(t) PROVE Owned'
<1> DEFINE D == LocalData(t)
<1>1. D \subseteq Particles /\ (\A d \in D : IsAt(d, "local", t)) /\ D = Elems(local[t])
  BY PlacesHoldParticles, PlaceTypes DEF IsAt, Kinds, LocalData
<1>2. /\ \A d \in D, kk \in Kinds, oo \in Lanes : IsAt(d, kk, oo) <=> kk = "local" /\ oo = t
      /\ D \subseteq created
  BY <1>1, Housed, PlaceTypes DEF Owned, Kinds
<1>3. \A u \in Threads : local'[u] = IF u = t THEN <<>> ELSE local[u]
  BY DEF EnqueueBulk, Inv, TypeOK
<1>4. \A u \in Threads : LocalData(u)' = IF u = t THEN {} ELSE LocalData(u)
  BY <1>3, ElemsEmpty DEF LocalData
<1>5. /\ \A u \in Threads : SlotData(u)' = SlotData(u) /\ BulkData(u)' = BulkData(u) /\ fresh'[u] = fresh[u]
      /\ pool' = pool /\ created' = created /\ bulk' = bulk
  BY DEF EnqueueBulk, SlotData, BulkData
<1>6. \A d \in Particles : d \in LocalData(t) <=> d \in D
  OBVIOUS
<1>7. CASE ptoc' = [ptoc EXCEPT ![t] = @ \o local[t]] /\ UNCHANGED leaked
  <2>1. ptoc[t] \in Seq(Particles) /\ local[t] \in Seq(Particles)
    BY PlaceTypes DEF Inv, TypeOK
  <2>2. Elems(ptoc[t]) \cap Elems(local[t]) = {}
    <3>1. \A d \in D : ~IsAt(d, "lane", t)
      BY <1>2, PlaceTypes DEF Kinds
    <3> QED
      BY <1>1, <3>1, PlaceTypes DEF IsAt, LaneData
  <2>3. /\ Elems(ptoc[t] \o local[t]) = Elems(ptoc[t]) \cup Elems(local[t])
        /\ Distinct(ptoc[t] \o local[t])
    BY <2>1, <2>2, ElemsConcat, PlaceTypes DEF Owned, NoneTwice
  <2>4. \A l \in Lanes : ptoc'[l] = IF l = t THEN ptoc[t] \o local[t] ELSE ptoc[l]
    BY <1>7 DEF Inv, TypeOK
  <2>5. \A l \in Lanes : LaneData(l)' = IF l = t THEN LaneData(l) \cup D ELSE LaneData(l)
    BY <1>1, <2>3, <2>4 DEF LaneData
  <2>6. NoneTwice'
    BY <1>3, <1>5, <2>3, <2>4, ElemsEmpty DEF Owned, NoneTwice
  <2> HIDE DEF D
  <2>7. Goes(D, "lane", t)
    BY <1>1, <1>2, <1>4, <1>5, <1>6, <1>7, <2>5, PlaceTypes DEF Goes, Moved, IsAt, Kinds
  <2>8. created' = created \cup D
    BY <1>2, <1>5
  <2> QED
    BY <2>6, <2>7, <2>8, GoKeeps, PlaceTypes DEF Owned, Kinds
<1>8. CASE leaked' = leaked \cup D /\ UNCHANGED ptoc
  <2>1. \A l \in Lanes : LaneData(l)' = LaneData(l)
    BY <1>8 DEF LaneData
  <2>2. NoneTwice'
    BY <1>3, <1>5, <1>8, ElemsEmpty DEF Owned, NoneTwice
  <2> HIDE DEF D
  <2>3. Goes(D, "leaked", TokenLane)
    BY <1>1, <1>2, <1>4, <1>5, <1>6, <1>8, <2>1, PlaceTypes DEF Goes, Moved, IsAt, Kinds
  <2>4. created' = created \cup D
    BY <1>2, <1>5
  <2> QED
    BY <2>2, <2>3, <2>4, GoKeeps, PlaceTypes DEF Owned, Kinds
<1> QED
  BY <1>7, <1>8 DEF EnqueueBulk, LocalData, Elems

(* resize adds null pointers. *)
LEMMA PadBulkKeeps ==
  ASSUME Inv, Owned, NEW t \in Threads, PadBulk(t) PROVE Owned'
<1> DEFINE m == Len(local[t])
           r == [i \in 1..m |-> IF i <= Len(bulk[t]) THEN bulk[t][i] ELSE Nil]
<1>1. bulk[t] \in Seq(Carriers) /\ m \in Nat /\ Len(bulk[t]) <= m /\ bulk' = [bulk EXCEPT ![t] = r]
  BY LenProperties DEF PadBulk, Inv, TypeOK
<1>2. Datas(r) = Datas(bulk[t]) /\ (Once(bulk[t]) => Once(r))
  BY <1>1, DatasPad
<1> HIDE DEF r
<1>3. \A u \in Threads : bulk'[u] = IF u = t THEN r ELSE bulk[u]
  BY <1>1 DEF Inv, TypeOK
<1>4. \A u \in Threads : BulkData(u)' = BulkData(u)
  BY <1>2, <1>3 DEF BulkData, Datas
<1>5. /\ \A u \in Threads : SlotData(u)' = SlotData(u) /\ LocalData(u)' = LocalData(u) /\ fresh'[u] = fresh[u]
      /\ \A l \in Lanes : LaneData(l)' = LaneData(l)
      /\ pool' = pool /\ leaked' = leaked /\ created' = created /\ ptoc' = ptoc /\ local' = local
  BY DEF PadBulk, SlotData, LaneData, LocalData
<1>6. OnePlace' /\ Accounted'
  BY <1>4, <1>5 DEF Owned, OnePlace, Accounted, IsAt
<1>7. NoneTwice'
  BY <1>2, <1>3, <1>5 DEF Owned, NoneTwice
<1> QED
  BY <1>6, <1>7 DEF Owned

(* Carrier m of the vector dies and leaves it. *)
LEMMA DropFromBulkKeeps ==
  ASSUME Inv, Owned, NEW t \in Threads, NEW m \in 1..Len(bulk[t]), NEW r,
         LeavesOut(r, bulk[t], m),
         Release(t, bulk[t][m]), bulk' = [bulk EXCEPT ![t] = r],
         UNCHANGED <<slot, local, fresh, created>>
  PROVE  Owned'
<1> DEFINE c == bulk[t][m]
           old == Held(c)
<1>1. bulk[t] \in Seq(Carriers) /\ c \in Carriers /\ TypeOK /\ Once(bulk[t])
  BY ElementOfSeq DEF Inv, TypeOK, Owned, NoneTwice
<1>2. /\ Datas(bulk[t]) = Datas(r) \cup old
      /\ Once(r) /\ (c = Nil \/ c.data \notin Datas(r))
  BY <1>1, DatasWithout DEF Held
<1> HIDE DEF c
<1>3. old \subseteq Particles /\ old \cap Datas(r) = {}
  BY <1>1, <1>2, DataType DEF Held, Nil
<1>4. BulkData(t) = Datas(r) \cup old /\ \A d \in old : IsAt(d, "bulk", t)
  BY <1>2, PlaceTypes DEF BulkData, Datas, IsAt
<1>5. PICK k \in {"pool", "leaked", "lane"}, o \in Lanes :
        /\ k = "lane" \/ o = TokenLane
        /\ pool' = IF k = "pool" THEN pool \cup old ELSE pool
        /\ leaked' = IF k = "leaked" THEN leaked \cup old ELSE leaked
        /\ \A l \in Lanes :
             LaneData(l)' = IF k = "lane" /\ l = o THEN LaneData(l) \cup old ELSE LaneData(l)
        /\ (\A l \in Lanes : Distinct(ptoc[l]) /\ c.data \notin Elems(ptoc[l]))
           => \A l \in Lanes : Distinct(ptoc'[l])
  BY <1>1, Released DEF c
<1>6. \A u \in Threads : bulk'[u] = IF u = t THEN r ELSE bulk[u]
  BY DEF Inv, TypeOK
<1>7. \A u \in Threads : BulkData(u)' = IF u = t THEN BulkData(u) \ old ELSE BulkData(u)
  BY <1>3, <1>4, <1>6 DEF BulkData, Datas
<1>8. \A u \in Threads : SlotData(u)' = SlotData(u) /\ LocalData(u)' = LocalData(u) /\ fresh'[u] = fresh[u]
  BY DEF SlotData, LocalData
<1>9. /\ \A d \in old, kk \in Kinds, oo \in Lanes : IsAt(d, kk, oo) <=> kk = "bulk" /\ oo = t
      /\ old \subseteq created
  BY <1>3, <1>4, Housed, PlaceTypes DEF Owned, Kinds
<1>10. c # Nil => IsAt(c.data, "bulk", t)
  BY <1>1, <1>4, NilHoldsNothing DEF Held
<1> HIDE DEF old
<1>11. Goes(old, k, o)
  BY <1>3, <1>5, <1>7, <1>8, <1>9, PlaceTypes DEF Goes, Moved, IsAt, Kinds
<1>12. OnePlace' /\ Accounted'
  <2>1. k \in Kinds /\ created' = created \cup old
    BY <1>9 DEF Kinds
  <2> QED
    BY <1>11, <2>1, GoKeeps
<1>13. NoneTwice'
  <2>1. \A l \in Lanes : Distinct(ptoc'[l])
    BY <1>1, <1>5, <1>10, NotQueued, PlaceTypes DEF Kinds
  <2> QED
    BY <1>2, <1>6, <2>1 DEF NoneTwice, Owned
<1> QED
  BY <1>12, <1>13 DEF Owned

(* pv.clear and pv.resize take one carrier out of the vector: the first    *)
(* one, or the first of those beyond the new size.                         *)
LEMMA BulkLosesOne ==
  ASSUME Inv, NEW t \in Threads, ShrinkBulk(t) \/ ClearBulk(t)
  PROVE  \E m \in 1..Len(bulk[t]) : \E r :
           /\ LeavesOut(r, bulk[t], m) /\ bulk' = [bulk EXCEPT ![t] = r]
           /\ Release(t, bulk[t][m])
           /\ UNCHANGED <<slot, local, fresh, created, info, pc>>
<1>1. CASE ClearBulk(t)
  <2> DEFINE r == Tail(bulk[t])
  <2>1. bulk[t] \in Seq(Carriers) /\ bulk[t] # <<>>
    BY <1>1 DEF Inv, TypeOK, ClearBulk
  <2>2. /\ Len(bulk[t]) \in Nat \ {0} /\ Len(r) = Len(bulk[t]) - 1 /\ Head(bulk[t]) = bulk[t][1]
        /\ \A i \in 1..Len(r) : r[i] = bulk[t][i + 1]
    BY <2>1, HeadTailProperties, LenProperties, EmptySeq
  <2>3. /\ Release(t, bulk[t][1]) /\ bulk' = [bulk EXCEPT ![t] = r]
        /\ UNCHANGED <<slot, local, fresh, created, info, pc>>
    BY <1>1, <2>2 DEF ClearBulk
  <2> HIDE DEF r
  <2>4. 1 \in 1..Len(bulk[t]) /\ LeavesOut(r, bulk[t], 1)
    BY <2>2 DEF LeavesOut
  <2> QED
    BY <2>3, <2>4
<1>2. CASE ShrinkBulk(t)
  <2> DEFINE b == bulk[t]
             n == Len(b)
             m == Len(local[t])
             r == SubSeq(b, 1, m) \o SubSeq(b, m + 2, n)
  <2>1. b \in Seq(Carriers) /\ m \in Nat /\ n \in Nat /\ n > m
    BY <1>2, LenProperties DEF Inv, TypeOK, ShrinkBulk
  <2>2. /\ Release(t, b[m + 1]) /\ bulk' = [bulk EXCEPT ![t] = r]
        /\ UNCHANGED <<slot, local, fresh, created, info, pc>>
    BY <1>2 DEF ShrinkBulk
  <2>3. /\ SubSeq(b, 1, m) \in Seq(Carriers) /\ Len(SubSeq(b, 1, m)) = m
        /\ \A i \in 1..m : SubSeq(b, 1, m)[i] = b[i]
    BY <2>1, SubSeqProperties
  <2>4. /\ SubSeq(b, m + 2, n) \in Seq(Carriers) /\ Len(SubSeq(b, m + 2, n)) = n - m - 1
        /\ \A i \in 1..(n - m - 1) : SubSeq(b, m + 2, n)[i] = b[i + m + 1]
    <3> HIDE DEF b, n, m
    <3>1. m + 2 \in Int /\ n \in Int /\ \A i \in (m + 2)..n : b[i] \in Carriers
      BY <2>1, ElementOfSeq DEF n
    <3>2. /\ SubSeq(b, m + 2, n) \in Seq(Carriers)
          /\ Len(SubSeq(b, m + 2, n)) = IF m + 2 <= n THEN n - (m + 2) + 1 ELSE 0
          /\ \A i \in 1..(n - (m + 2) + 1) : SubSeq(b, m + 2, n)[i] = b[m + 2 + i - 1]
      BY <3>1, SubSeqProperties
    <3>3. n - (m + 2) + 1 = n - m - 1 /\ (~(m + 2 <= n) => n - m - 1 = 0)
      BY <2>1
    <3>4. \A i \in 1..(n - m - 1) : m + 2 + i - 1 = i + m + 1
      BY <2>1
    <3> QED
      BY <3>2, <3>3, <3>4
  <2>5. LeavesOut(r, b, m + 1)
    <3> DEFINE p == SubSeq(b, 1, m)
               q == SubSeq(b, m + 2, n)
    <3> HIDE DEF p, q
    <3>1. p \in Seq(Carriers) /\ q \in Seq(Carriers) /\ Len(p) = m /\ Len(q) = n - m - 1
      BY <2>3, <2>4 DEF p, q
    <3>2. /\ Len(p \o q) = Len(p) + Len(q)
          /\ \A i \in 1..(Len(p) + Len(q)) : (p \o q)[i] = IF i <= Len(p) THEN p[i] ELSE q[i - Len(p)]
      <4> HIDE DEF n, m, b
      <4> QED
        BY <3>1, ConcatProperties
    <3>3. r = p \o q
      BY DEF p, q
    <3> HIDE DEF r, b, n, m
    <3>4. Len(r) = n - 1
      BY <2>1, <3>1, <3>2, <3>3
    <3>5. ASSUME NEW i \in 1..Len(r) PROVE r[i] = IF i < m + 1 THEN b[i] ELSE b[i + 1]
      <4>1. CASE i <= m
        BY <4>1, <2>1, <2>3, <3>1, <3>2, <3>3, <3>4 DEF p
      <4>2. CASE i > m
        <5>1. r[i] = q[i - m] /\ i - m \in 1..(n - m - 1)
          BY <4>2, <2>1, <3>1, <3>2, <3>3, <3>4
        <5>2. q[i - m] = b[i - m + m + 1] /\ i - m + m + 1 = i + 1
          BY <2>1, <2>4, <5>1 DEF q
        <5> QED
          BY <4>2, <2>1, <5>1, <5>2
      <4> QED
        BY <2>1, <4>1, <4>2
    <3> QED
      BY <3>4, <3>5 DEF LeavesOut, n
  <2>6. m + 1 \in 1..n
    BY <2>1
  <2> HIDE DEF r
  <2> QED
    BY <2>2, <2>5, <2>6
<1> QED
  BY <1>1, <1>2

(* The particle of that carrier moves. *)
LEMMA DropOneKeeps ==
  ASSUME Inv, Owned, NEW t \in Threads, ShrinkBulk(t) \/ ClearBulk(t) PROVE Owned'
BY BulkLosesOne, DropFromBulkKeeps

(* C_getBulk takes the next particle of its array to the next place of the *)
(* vector.                                                                 *)
LEMMA BulkGetsOne ==
  ASSUME Inv, NEW t \in Threads, AssignBulk(t)
  PROVE  \E n \in 1..Len(bulk[t]) :
           /\ bulk' = [bulk EXCEPT ![t] = [bulk[t] EXCEPT ![n] = ForPool(Head(local[t]))]]
           /\ Release(t, bulk[t][n])
           /\ local[t] # <<>> /\ local' = [local EXCEPT ![t] = Tail(@)]
           /\ UNCHANGED <<slot, fresh, created, info>>
           /\ pc[t] = "bulk_assign" /\ pc'[t] \in {"idle", "bulk_assign"}
           /\ \A u \in Threads \ {t} : pc'[u] = pc[u]
<1> DEFINE n == Len(bulk[t]) - Len(local[t]) + 1
<1>1. /\ bulk \in [Threads -> Seq(Carriers)] /\ local[t] \in Seq(Particles)
      /\ pc \in [Threads -> Labels]
      /\ pc[t] = "bulk_assign" /\ local[t] # <<>> /\ Len(local[t]) <= Len(bulk[t])
  BY DEF Inv, TypeOK, CallState, AssignBulk
<1>2. n \in 1..Len(bulk[t])
  <2>1. /\ Len(bulk[t]) \in Nat /\ Len(local[t]) \in Nat
        /\ Len(local[t]) # 0 /\ Len(local[t]) <= Len(bulk[t])
    BY <1>1, LenProperties, EmptySeq
  <2> DEFINE p == Len(bulk[t])
             q == Len(local[t])
  <2>2. p \in Nat /\ q \in Nat /\ q # 0 /\ q <= p
    BY <2>1
  <2> HIDE DEF p, q
  <2>3. p - q + 1 \in 1..p
    BY <2>2
  <2> QED
    BY <2>3 DEF p, q
<1>3. bulk' = [bulk EXCEPT ![t] = [bulk[t] EXCEPT ![n] = ForPool(Head(local[t]))]]
  BY <1>1 DEF AssignBulk
<1>4. /\ Release(t, bulk[t][n]) /\ local' = [local EXCEPT ![t] = Tail(@)]
      /\ UNCHANGED <<slot, fresh, created, info>>
      /\ pc'[t] \in {"idle", "bulk_assign"} /\ \A u \in Threads \ {t} : pc'[u] = pc[u]
  BY <1>1 DEF AssignBulk, Goto
<1> HIDE DEF n
<1> QED
  BY <1>1, <1>2, <1>3, <1>4

(* C_getBulk wraps one particle into the next place of the vector. *)
LEMMA AssignBulkKeeps ==
  ASSUME Inv, Owned, NEW t \in Threads, AssignBulk(t) PROVE Owned'
<1> DEFINE b == bulk[t]
           x == Head(local[t])
           c == ForPool(x)
<1>1. /\ b \in Seq(Carriers) /\ local[t] \in Seq(Particles) /\ TypeOK /\ Once(b) /\ Distinct(local[t])
      /\ local[t] # <<>>
  BY DEF Inv, TypeOK, Owned, NoneTwice, CallState, AssignBulk
<1>2. /\ x \in Particles /\ Elems(local[t]) = Elems(Tail(local[t])) \cup {x}
      /\ Distinct(Tail(local[t])) /\ x \notin Elems(Tail(local[t]))
  BY <1>1, ElemsTail, HeadTailProperties
<1>3. PICK n \in 1..Len(b) :
        /\ Release(t, b[n]) /\ bulk' = [bulk EXCEPT ![t] = [b EXCEPT ![n] = c]]
        /\ local' = [local EXCEPT ![t] = Tail(@)] /\ UNCHANGED <<slot, fresh, created>>
  BY BulkGetsOne
<1> DEFINE old == Held(b[n])
           r == [b EXCEPT ![n] = c]
<1>4. /\ Release(t, b[n]) /\ bulk' = [bulk EXCEPT ![t] = r] /\ local' = [local EXCEPT ![t] = Tail(@)]
      /\ UNCHANGED <<slot, fresh, created>> /\ b[n] \in Carriers
  BY <1>1, <1>3, ElementOfSeq
<1> HIDE DEF x, c
<1>5. c \in Carriers /\ c # Nil /\ c.data = x
  <2>1. c \in Carriers /\ c.data = x
    BY <1>2, CarrierType DEF c, ForPool, Carrier
  <2> QED
    BY <1>2, <2>1, ConstantAssumption DEF Nil
<1>6. IsAt(x, "local", t) /\ \A d \in old : IsAt(d, "bulk", t)
  BY <1>2, <1>3, <1>4, PlaceTypes DEF IsAt, LocalData, BulkData, Held
<1>7. old \subseteq Particles
  BY <1>3, <1>4, DataType DEF Held, Nil
<1>8. /\ \A d \in old, kk \in Kinds, oo \in Lanes : IsAt(d, kk, oo) <=> kk = "bulk" /\ oo = t
      /\ \A kk \in Kinds, oo \in Lanes : IsAt(x, kk, oo) <=> kk = "local" /\ oo = t
      /\ old \cup {x} \subseteq created
  BY <1>2, <1>6, <1>7, Housed, PlaceTypes DEF Owned, Kinds
<1>9. x \notin Datas(b)
  BY <1>8, PlaceTypes DEF IsAt, BulkData, Datas, Kinds
<1>10. Datas(r) = (Datas(b) \ {b[n].data}) \cup {x} /\ Once(r)
  BY <1>1, <1>3, <1>4, <1>5, <1>9, DatasReplace
<1>11. PICK k \in {"pool", "leaked", "lane"}, o \in Lanes :
        /\ k = "lane" \/ o = TokenLane
        /\ pool' = IF k = "pool" THEN pool \cup old ELSE pool
        /\ leaked' = IF k = "leaked" THEN leaked \cup old ELSE leaked
        /\ \A l \in Lanes :
             LaneData(l)' = IF k = "lane" /\ l = o THEN LaneData(l) \cup old ELSE LaneData(l)
        /\ (\A l \in Lanes : Distinct(ptoc[l]) /\ b[n].data \notin Elems(ptoc[l]))
           => \A l \in Lanes : Distinct(ptoc'[l])
  BY <1>1, <1>3, <1>4, Released
<1>12. \A u \in Threads : /\ bulk'[u] = IF u = t THEN r ELSE bulk[u]
                          /\ local'[u] = IF u = t THEN Tail(local[t]) ELSE local[u]
  BY <1>4 DEF Inv, TypeOK
<1>13. Datas(b) \ {b[n].data} = Datas(b) \ old
  BY DEF Datas, Held
<1>14. b[n] # Nil => IsAt(b[n].data, "bulk", t)
  BY <1>3, <1>4, <1>6, NilHoldsNothing DEF Held
<1> HIDE DEF r, old
<1>15. \A u \in Threads : BulkData(u)' = IF u = t THEN (BulkData(u) \ old) \cup {x} ELSE BulkData(u)
  <2>1. Datas(r) = (Datas(bulk[t]) \ old) \cup {x}
    BY <1>10, <1>13
  <2>2. \A u \in Threads : BulkData(u) = Datas(bulk[u]) /\ BulkData(u)' = Datas(bulk'[u])
    BY DEF BulkData, Datas
  <2> QED
    BY <1>12, <2>1, <2>2
<1>16. \A u \in Threads : LocalData(u)' = IF u = t THEN LocalData(u) \ {x} ELSE LocalData(u)
  BY <1>2, <1>12 DEF LocalData
<1>17. \A u \in Threads : SlotData(u)' = SlotData(u) /\ fresh'[u] = fresh[u]
  BY <1>4 DEF SlotData
<1>18. Moved(old, k, o, {x}, "bulk", t)
  <2>1. x \notin old
    BY <1>8, PlaceTypes DEF Kinds
  <2> QED
    BY <1>2, <1>7, <1>8, <1>11, <1>15, <1>16, <1>17, <2>1, PlaceTypes DEF Moved, IsAt, Kinds
<1>19. OnePlace' /\ Accounted'
  <2>1. created' = created \cup old \cup {x}
    BY <1>4, <1>8
  <2>2. k \in Kinds /\ "bulk" \in Kinds /\ t \in Lanes /\ OnePlace /\ Accounted
    BY PlaceTypes DEF Kinds, Owned
  <2> QED
    BY <1>18, <2>1, <2>2, MoveKeeps
<1>20. NoneTwice'
  <2>1. \A l \in Lanes : Distinct(ptoc'[l])
    BY <1>3, <1>4, <1>11, <1>14, NotQueued, PlaceTypes DEF Kinds
  <2> QED
    BY <1>2, <1>10, <1>12, <2>1 DEF NoneTwice, Owned
<1> QED
  BY <1>19, <1>20 DEF Owned

-----------------------------------------------------------------------------
(* The invariant. *)

(* The constructor puts every particle into the pool. *)
LEMMA InitOwned == Init => Owned
<1> SUFFICES ASSUME Init PROVE Owned
  OBVIOUS
<1>1. /\ \A t \in Threads : SlotData(t) = {} /\ BulkData(t) = {} /\ LocalData(t) = {} /\ fresh[t] = {}
      /\ \A l \in Lanes : LaneData(l) = {}
      /\ pool = created /\ leaked = {}
  BY ElemsEmpty DEF Init, SlotData, BulkData, LocalData, LaneData, Nil
<1>2. \A d \in Particles, k \in Kinds, o \in Lanes :
        IsAt(d, k, o) <=> d \in created /\ k = "pool" /\ o = TokenLane
  BY <1>1, PlaceTypes DEF IsAt, Kinds
<1>3. OnePlace /\ Accounted
  BY <1>2, PlaceTypes DEF OnePlace, Accounted, Kinds
<1>4. NoneTwice
  BY ElemsEmpty DEF Init, NoneTwice, Once
<1> QED
  BY <1>3, <1>4 DEF Owned

(* Every step leaves every created particle at exactly one place. *)
LEMMA NextOwned == Inv /\ Owned /\ [Next]_vars => Owned'
<1> SUFFICES ASSUME Inv, Owned, [Next]_vars PROVE Owned'
  OBVIOUS
<1>1. CASE UNCHANGED vars
  BY <1>1, Still DEF vars
<1>2. CASE Next
  <2> PICK t \in Threads : InCall(t) \/ ClientStep(t)
    BY <1>2 DEF Next
  <2>1. CASE TakeFromPool(t)
    BY <2>1, TakeFromPoolKeeps
  <2>2. CASE \/ P_Timeout(t) \/ P_Miss(t) \/ Catch(t) \/ FillDone(t)
              \/ C_Miss(t) \/ TakeBulkDone(t) \/ ClearDone(t)
    BY <2>2, Still DEF P_Timeout, P_Miss, Catch, FillDone, C_Miss, TakeBulkDone, ClearDone
  <2>3. CASE P_Assign(t) \/ C_Assign(t)
    BY <2>3, AssignKeeps
  <2>4. CASE AssignNull(t) \/ Reset(t)
    BY <2>4, DropKeeps DEF AssignNull, Reset
  <2>5. CASE Malloc(t)
    BY <2>5, MallocKeeps
  <2>6. CASE MallocThrows(t)
    BY <2>6, MallocThrowsKeeps
  <2>7. CASE FillPool(t)
    BY <2>7, FillPoolKeeps
  <2>8. CASE FillFails(t)
    BY <2>8, FillFailsKeeps
  <2>9. CASE TakeFromPtoC(t) \/ TakeOneOfBulk(t)
    BY <2>9, TakeKeeps
  <2>10. CASE EnqueueBulk(t)
    BY <2>10, EnqueueBulkKeeps
  <2>11. CASE ShrinkBulk(t) \/ ClearBulk(t)
    BY <2>11, DropOneKeeps
  <2>12. CASE PadBulk(t)
    BY <2>12, PadBulkKeeps
  <2>13. CASE AssignBulk(t)
    BY <2>13, AssignBulkKeeps
  <2>15. CASE Stash(t)
    BY <2>15, StashKeeps
  <2>16. CASE P_SendBulk(t)
    BY <2>16, SendBulkKeeps
  <2>17. CASE \E op \in P_Calls \cup C_Calls \cup {"clear"} : Call(t, op)
    BY <2>17, Still DEF Call
  <2>18. CASE \E y \in Infos : Write(t, y)
    BY <2>18, Still DEF Write
  <2> QED
    BY <2>1, <2>2, <2>3, <2>4, <2>5, <2>6, <2>7, <2>8, <2>9, <2>10, <2>11, <2>12, <2>13,
       <2>15, <2>16, <2>17, <2>18 DEF InCall, ClientStep
<1> QED
  BY <1>1, <1>2

(* Every created particle is at exactly one place in every reachable state. *)
LEMMA AlwaysOwned == Spec => [](Inv /\ Owned)
<1>1. Init => Inv /\ Owned
  BY InitInv, InitOwned
<1>2. Inv /\ Owned /\ [Next]_vars => (Inv /\ Owned)'
  BY NextInv, NextOwned
<1> QED
  BY <1>1, <1>2, PTL DEF Spec

(* One place for each particle is one owner. *)
LEMMA OwnedOneOwner == Inv /\ Owned => OneOwner
<1> SUFFICES ASSUME Inv, Owned PROVE OneOwner
  OBVIOUS
<1>0. \A d, k1, k2, o1, o2 :
        k1 \in Kinds /\ k2 \in Kinds /\ o1 \in Lanes /\ o2 \in Lanes /\ IsAt(d, k1, o1) /\ IsAt(d, k2, o2)
        => k1 = k2 /\ o1 = o2
  BY PlacesHoldParticles DEF Owned, OnePlace
<1>1. \A l \in Lanes : \A d \in Elems(ptoc[l]) : IsAt(d, "lane", l)
  BY DEF IsAt, LaneData
<1>2. \A t \in Threads : \A d \in Private(t) :
        \E k \in {"slot", "bulk", "local", "fresh"} : IsAt(d, k, t)
  BY PlaceTypes DEF IsAt, Private, LocalData
<1>3. \A d \in InFlight : \E l \in Lanes : IsAt(d, "lane", l)
  BY <1>1 DEF InFlight
<1>4. (\A d \in pool : IsAt(d, "pool", TokenLane)) /\ (\A d \in leaked : IsAt(d, "leaked", TokenLane))
  BY DEF IsAt
<1>5. \A l \in Lanes : Distinct(ptoc[l])
  BY DEF Owned, NoneTwice
<1>6. \A l, m \in Lanes : l # m => Elems(ptoc[l]) \cap Elems(ptoc[m]) = {}
  BY <1>0, <1>1 DEF Kinds
<1>7. pool \cap InFlight = {} /\ leaked \cap (pool \cup InFlight) = {}
  BY <1>0, <1>3, <1>4, PlaceTypes DEF Kinds
<1>8. ASSUME NEW t \in Threads
      PROVE  /\ Private(t) \cap (pool \cup InFlight \cup leaked) = {}
             /\ \A u \in Threads : t # u => Private(t) \cap Private(u) = {}
             /\ Distinct(local[t])
             /\ \A i, j \in 1..Len(bulk[t]) :
                  bulk[t][i].data = bulk[t][j].data => i = j \/ bulk[t][i] = Nil
             /\ SlotData(t) \cap (BulkData(t) \cup Elems(local[t]) \cup fresh[t]) = {}
             /\ BulkData(t) \cap (Elems(local[t]) \cup fresh[t]) = {}
             /\ Elems(local[t]) \cap fresh[t] = {}
  <2>1. Private(t) \cap (pool \cup InFlight \cup leaked) = {}
    BY <1>0, <1>2, <1>3, <1>4, PlaceTypes DEF Kinds
  <2>2. \A u \in Threads : t # u => Private(t) \cap Private(u) = {}
    BY <1>0, <1>2, PlaceTypes DEF Kinds
  <2>3. Distinct(local[t]) /\ Once(bulk[t])
    BY DEF Owned, NoneTwice
  <2>4. /\ \A d \in SlotData(t) : IsAt(d, "slot", t)
        /\ \A d \in BulkData(t) : IsAt(d, "bulk", t)
        /\ \A d \in Elems(local[t]) : IsAt(d, "local", t)
        /\ \A d \in fresh[t] : IsAt(d, "fresh", t)
    BY DEF IsAt, LocalData
  <2>5. /\ SlotData(t) \cap (BulkData(t) \cup Elems(local[t]) \cup fresh[t]) = {}
        /\ BulkData(t) \cap (Elems(local[t]) \cup fresh[t]) = {}
        /\ Elems(local[t]) \cap fresh[t] = {}
    BY <1>0, <2>4, PlaceTypes DEF Kinds
  <2> QED
    BY <2>1, <2>2, <2>3, <2>5 DEF Once
<1> QED
  BY <1>5, <1>6, <1>7, <1>8 DEF OneOwner

(* Whatever the interleaving of the calls, the size of a growth or the point  *)
(* where memory runs out, no particle is reachable from two places: two       *)
(* threads never hold one frame, and a held frame is in neither queue. *)
THEOREM NeverTwoOwners == Spec => []OneOwner
<1> QED BY AlwaysOwned, OwnedOneOwner, PTL

(* Whatever the interleaving of the calls, every particle whose memory the    *)
(* queue keeps is in a queue or with a thread, or an allocation failure       *)
(* leaked it: the chain of destructors that sends and recycles frames loses   *)
(* none. *)
THEOREM NeverLost == Spec => []NothingLost
<1>1. Inv /\ Owned => NothingLost
  <2> SUFFICES ASSUME Inv, Owned PROVE NothingLost
    OBVIOUS
  <2>1. \A d : d \in created <=> \E k \in Kinds, o \in Lanes : IsAt(d, k, o)
    BY PlacesHoldParticles DEF Owned, Accounted, Inv, TypeOK
  <2>2. \A d : (\E k \in Kinds, o \in Lanes : IsAt(d, k, o))
               <=> d \in pool \cup InFlight \cup leaked \cup UNION {Private(t) : t \in Threads}
    <3> TAKE d
    <3>1. ASSUME NEW k \in Kinds, NEW o \in Lanes, IsAt(d, k, o)
          PROVE  d \in pool \cup InFlight \cup leaked \cup UNION {Private(t) : t \in Threads}
      BY <3>1 DEF IsAt, InFlight, Private, LaneData, LocalData
    <3>2. ASSUME d \in pool \cup leaked PROVE \E k \in Kinds, o \in Lanes : IsAt(d, k, o)
      BY <3>2, PlaceTypes DEF IsAt, Kinds
    <3>3. ASSUME d \in InFlight PROVE \E k \in Kinds, o \in Lanes : IsAt(d, k, o)
      BY <3>3 DEF IsAt, Kinds, InFlight, LaneData
    <3>4. ASSUME NEW t \in Threads, d \in Private(t) PROVE \E k \in Kinds, o \in Lanes : IsAt(d, k, o)
      BY <3>4, PlaceTypes DEF IsAt, Kinds, Private, LocalData
    <3> QED
      BY <3>1, <3>2, <3>3, <3>4
  <2> QED
    BY <2>1, <2>2 DEF NothingLost
<1> QED
  BY <1>1, AlwaysOwned, PTL

-----------------------------------------------------------------------------
(***************************************************************************)
(* The hand-over: the queue implements FrameHandoff under the mapping that *)
(* StageOf and HolderOf define.  A frame stands at a stage because of the  *)
(* place it is in; that each is in one place (OneOwner) makes the mapping  *)
(* a function of the state that a step can only change for the frames it   *)
(* moves.  FramesMove says what moving a set of frames is; then every step *)
(* of the queue moves frames the way one action of FrameHandoff does, or   *)
(* moves none.                                                             *)
(***************************************************************************)

(* Frame d is at stage s of its life, with holder h. *)
Stands(d, s, h) ==
  \/ s = "free" /\ h = NoParticle /\ d \in pool
  \/ s = "sent" /\ h = NoParticle /\ d \in InFlight
  \/ s = "lost" /\ h = NoParticle /\ d \in leaked
  \/ s = "filling" /\ h \in Threads /\ d \in FillingBy(h)
  \/ s = "reading" /\ h \in Threads /\ d \in ReadingBy(h)

(* A frame stands at one stage with one holder, ... *)
OneStage ==
  \A d \in Particles : \A s1, h1, s2, h2 :
    Stands(d, s1, h1) /\ Stands(d, s2, h2) => s1 = s2 /\ h1 = h2

(* ... which are the ones the refinement mapping gives it. *)
Mapped ==
  \A d \in Particles :
    /\ \A s, h : Stands(d, s, h) => StageOf(d) = s /\ HolderOf(d) = h
    /\ (\A s, h : ~Stands(d, s, h)) => StageOf(d) = "absent" /\ HolderOf(d) = NoParticle

(* Where a frame stands decides what the mapping gives it. *)
LEMMA StageValue == OneStage => Mapped
<1> SUFFICES ASSUME OneStage, NEW d \in Particles
             PROVE  /\ \A s, h : Stands(d, s, h) => StageOf(d) = s /\ HolderOf(d) = h
                    /\ (\A s, h : ~Stands(d, s, h)) => StageOf(d) = "absent" /\ HolderOf(d) = NoParticle
  BY DEF Mapped
<1>1. ASSUME NEW s, NEW h, Stands(d, s, h) PROVE StageOf(d) = s
  BY <1>1 DEF OneStage, Stands, StageOf
<1>2. ASSUME NEW s, NEW h, Stands(d, s, h) PROVE HolderOf(d) = h
  BY <1>2 DEF OneStage, Stands, HolderOf
<1>3. ASSUME \A s, h : ~Stands(d, s, h) PROVE StageOf(d) = "absent" /\ HolderOf(d) = NoParticle
  BY <1>3 DEF Stands, StageOf, HolderOf
<1> QED BY <1>1, <1>2, <1>3

(* Who carries what. *)
Forwarding == {"ptoc", "token"}
Roles(t) ==
  /\ pc[t] \in P_Calls \cup {"malloc", "fill", "thrown", "P_assign", "send_bulk"} => t \in Producers
  /\ pc[t] \in C_Calls \cup {"C_assign", "resize", "bulk_assign"} => t \in Consumers
  /\ slot[t].host \in Forwarding => t \in Producers
  /\ slot[t].host = "pool" => t \in Consumers
  /\ \A i \in 1..Len(bulk[t]) :
       /\ bulk[t][i].host \in Forwarding => t \in Producers
       /\ bulk[t][i].host = "pool" => t \in Consumers
AllRoles == \A t \in Threads : Roles(t)

(* A particle a carrier holds is at the carrier's place. *)
LEMMA CarriedAt ==
  ASSUME Inv, NEW t \in Threads, NEW d \in Particles, NEW H, d \in Carried(t, H)
  PROVE  \/ IsAt(d, "slot", t) /\ slot[t].data = d /\ slot[t].host \in H
         \/ /\ IsAt(d, "bulk", t)
            /\ \E i \in 1..Len(bulk[t]) : bulk[t][i].data = d /\ bulk[t][i].host \in H
BY ConstantAssumption DEF Carried, IsAt, SlotData, BulkData, Elems

(* A thread fills or reads a particle it has, in its carriers or in the    *)
(* call it is in.                                                          *)
LEMMA HeldAt ==
  ASSUME Inv, NEW t \in Threads, NEW d \in Particles, d \in FillingBy(t) \cup ReadingBy(t)
  PROVE  \E k \in {"slot", "bulk", "local"} : IsAt(d, k, t)
<1>1. CASE d \in Carried(t, {"ptoc", "token"}) \cup Carried(t, {"pool"})
  BY <1>1, CarriedAt
<1>2. CASE d \in Elems(local[t])
  BY <1>2 DEF IsAt, LocalData
<1> QED BY <1>1, <1>2 DEF FillingBy, ReadingBy

(* No particle is filled and read at the same time. *)
LEMMA FillingOrReading ==
  ASSUME Inv, Owned, NEW t \in Threads, NEW d \in Particles, d \in FillingBy(t), d \in ReadingBy(t)
  PROVE  FALSE
<1>1. \A k1, k2 \in Kinds : IsAt(d, k1, t) /\ IsAt(d, k2, t) => k1 = k2
  BY PlaceTypes DEF Owned, OnePlace
<1>2. CASE d \in Elems(local[t])
  <2>1. IsAt(d, "local", t)
    BY <1>2 DEF IsAt, LocalData
  <2>2. d \in Carried(t, {"ptoc", "token"}) \cup Carried(t, {"pool"})
    BY <1>2 DEF FillingBy, ReadingBy
  <2>3. IsAt(d, "slot", t) \/ IsAt(d, "bulk", t)
    BY <2>2, CarriedAt
  <2> QED BY <1>1, <2>1, <2>3 DEF Kinds
<1>3. CASE d \notin Elems(local[t])
  <2>1. d \in Carried(t, {"ptoc", "token"}) /\ d \in Carried(t, {"pool"})
    BY <1>3 DEF FillingBy, ReadingBy
  <2>2. CASE IsAt(d, "slot", t)
    <3>1. ~IsAt(d, "bulk", t)
      BY <1>1, <2>2 DEF Kinds
    <3>2. slot[t].host \in {"ptoc", "token"} /\ slot[t].host = "pool"
      BY <2>1, <3>1, CarriedAt
    <3> QED BY <3>2
  <2>3. CASE ~IsAt(d, "slot", t)
    <3>1. PICK i \in 1..Len(bulk[t]) : bulk[t][i].data = d /\ bulk[t][i].host \in {"ptoc", "token"}
      BY <2>1, <2>3, CarriedAt
    <3>2. PICK j \in 1..Len(bulk[t]) : bulk[t][j].data = d /\ bulk[t][j].host \in {"pool"}
      BY <2>1, <2>3, CarriedAt
    <3>3. i = j \/ bulk[t][i] = Nil
      BY <3>1, <3>2 DEF Owned, NoneTwice, Once
    <3> QED BY <3>1, <3>2, <3>3 DEF Nil
  <2> QED BY <2>2, <2>3
<1> QED BY <1>2, <1>3

(* One place means one stage: a place where a frame can be stands for one  *)
(* stage only.                                                             *)
LEMMA OwnedOneStage == Inv /\ Owned => OneStage
<1> SUFFICES ASSUME Inv, Owned, NEW d \in Particles, NEW s1, NEW h1, NEW s2, NEW h2,
                    Stands(d, s1, h1), Stands(d, s2, h2)
             PROVE  s1 = s2 /\ h1 = h2
  BY DEF OneStage
<1> DEFINE K(s) == IF s = "free" THEN {"pool"} ELSE IF s = "sent" THEN {"lane"}
                   ELSE IF s = "lost" THEN {"leaked"} ELSE {"slot", "bulk", "local"}
<1>1. ASSUME NEW s, NEW h, Stands(d, s, h)
      PROVE  /\ s \in {"free", "sent", "lost", "filling", "reading"}
             /\ s \in {"filling", "reading"} => h \in Threads
             /\ s \notin {"filling", "reading"} => h = NoParticle
             /\ \E k \in K(s), o \in Lanes : IsAt(d, k, o) /\ (s \in {"filling", "reading"} => o = h)
  <2>1. CASE s \in {"filling", "reading"}
    <3>1. h \in Threads /\ d \in FillingBy(h) \cup ReadingBy(h)
      BY <1>1, <2>1 DEF Stands
    <3> QED BY <2>1, <3>1, HeldAt, PlaceTypes
  <2>2. CASE s \notin {"filling", "reading"}
    BY <1>1, <2>2, PlaceTypes DEF Stands, IsAt, InFlight, LaneData
  <2> QED BY <2>1, <2>2
<1>2. PICK k1 \in K(s1), o1 \in Lanes : IsAt(d, k1, o1) /\ (s1 \in {"filling", "reading"} => o1 = h1)
  BY <1>1
<1>3. PICK k2 \in K(s2), o2 \in Lanes : IsAt(d, k2, o2) /\ (s2 \in {"filling", "reading"} => o2 = h2)
  BY <1>1
<1>4. k1 = k2 /\ o1 = o2
  BY <1>2, <1>3 DEF Owned, OnePlace, Kinds
<1>5. CASE s1 \in {"filling", "reading"}
  <2>1. s2 \in {"filling", "reading"} /\ h1 = h2 /\ h1 \in Threads
    BY <1>1, <1>2, <1>3, <1>4, <1>5
  <2>2. s1 = s2
    BY <1>5, <2>1, FillingOrReading DEF Stands
  <2> QED BY <2>1, <2>2
<1>6. CASE s1 \notin {"filling", "reading"}
  BY <1>1, <1>2, <1>3, <1>4, <1>6
<1> QED BY <1>5, <1>6

(* A thread that does not move keeps its role. *)
LEMMA RolesStay ==
  ASSUME NEW u, Roles(u), slot'[u] = slot[u], bulk'[u] = bulk[u], pc'[u] = pc[u]
  PROVE  Roles(u)'
BY DEF Roles

(* One that moves does what its role allows. *)
LEMMA RolesMove ==
  ASSUME Inv, AllRoles, NEW t \in Threads, InCall(t) \/ ClientStep(t)
  PROVE  Roles(t)'
<1>0. /\ slot \in [Threads -> Carriers] /\ bulk \in [Threads -> Seq(Carriers)]
      /\ pc \in [Threads -> Labels] /\ local \in [Threads -> Seq(Particles)]
      /\ Roles(t)
  BY DEF Inv, TypeOK, AllRoles
<1>1. ToConsumers \in Forwarding /\ "pool" \notin Forwarding /\ Nil.host = "none"
  BY HostType DEF Forwarding, Nil
<1>2. CASE \/ TakeFromPool(t) \/ P_Timeout(t) \/ P_Miss(t) \/ Malloc(t) \/ MallocThrows(t) \/ Catch(t)
           \/ FillPool(t) \/ FillDone(t) \/ FillFails(t)
  <2>1. /\ slot' = slot /\ bulk' = bulk
        /\ pc[t] \in P_Calls \cup {"malloc", "fill", "thrown"}
        /\ pc'[t] \in P_Calls \cup {"malloc", "fill", "thrown", "P_assign", "assign_null", "idle"}
    BY <1>0, <1>2
    DEF TakeFromPool, P_Timeout, P_Miss, Malloc, MallocThrows, Catch, FillPool, FillDone, FillFails,
        Goto, P_Calls
  <2> QED BY <1>0, <2>1 DEF Roles, P_Calls, C_Calls
<1>3. CASE TakeFromPtoC(t) \/ C_Miss(t) \/ TakeOneOfBulk(t) \/ TakeBulkDone(t)
  <2>1. /\ slot' = slot /\ bulk' = bulk
        /\ pc[t] \in C_Calls /\ pc'[t] \in C_Calls \cup {"C_assign", "resize", "assign_null"}
    BY <1>0, <1>3 DEF TakeFromPtoC, C_Miss, C_Returns, TakeOneOfBulk, TakeBulkDone, Goto, C_Calls
  <2> QED BY <1>0, <2>1 DEF Roles, P_Calls, C_Calls
<1>4. CASE P_Assign(t)
  <2>1. /\ slot'[t] = ForConsumers(Head(local[t])) /\ bulk' = bulk
        /\ pc[t] = "P_assign" /\ pc'[t] = "idle"
    BY <1>0, <1>4 DEF P_Assign, Goto
  <2> QED BY <1>0, <1>1, <2>1 DEF Roles, P_Calls, C_Calls, ForConsumers, Carrier
<1>5. CASE C_Assign(t)
  <2>1. /\ slot'[t] = ForPool(Head(local[t])) /\ bulk' = bulk
        /\ pc[t] = "C_assign" /\ pc'[t] = "idle"
    BY <1>0, <1>5 DEF C_Assign, Goto
  <2> QED BY <1>0, <1>1, <2>1 DEF Roles, P_Calls, C_Calls, ForPool, Carrier
<1>6. CASE AssignNull(t) \/ Reset(t)
  <2>1. slot'[t] = Nil /\ bulk' = bulk /\ pc'[t] = "idle"
    BY <1>0, <1>6 DEF AssignNull, Reset, Goto
  <2> QED BY <1>0, <1>1, <2>1 DEF Roles, P_Calls, C_Calls, Forwarding
<1>7. CASE Stash(t)
  <2>1. /\ slot'[t] = Nil /\ bulk'[t] = Append(bulk[t], slot[t]) /\ pc'[t] = "idle"
    BY <1>0, <1>7 DEF Stash
  <2>2. /\ Len(bulk'[t]) = Len(bulk[t]) + 1 /\ Len(bulk[t]) \in Nat
        /\ \A i \in 1..Len(bulk[t]) : bulk'[t][i] = bulk[t][i]
        /\ bulk'[t][Len(bulk[t]) + 1] = slot[t]
    BY <1>0, <2>1, AppendProperties, LenProperties
  <2>3. \A i \in 1..Len(bulk'[t]) : i \in 1..Len(bulk[t]) \/ i = Len(bulk[t]) + 1
    BY <2>2
  <2> QED BY <1>0, <1>1, <2>1, <2>2, <2>3 DEF Roles, P_Calls, C_Calls, Forwarding
<1>8. CASE P_SendBulk(t)
  <2>1. /\ slot' = slot /\ pc'[t] = "send_bulk" /\ t \in Producers
        /\ bulk'[t] = [i \in 1..Len(bulk[t]) |-> Nil]
    BY <1>0, <1>8 DEF P_SendBulk, Goto, LeftOf
  <2>2. Len(bulk'[t]) = Len(bulk[t]) /\ \A i \in 1..Len(bulk[t]) : bulk'[t][i] = Nil
    BY <1>0, <2>1, LenProperties
  <2> QED BY <1>0, <1>1, <2>1, <2>2 DEF Roles, P_Calls, C_Calls, Forwarding
<1>9. CASE EnqueueBulk(t) \/ ClearDone(t)
  <2>1. slot' = slot /\ bulk' = bulk /\ pc'[t] \in {"clear", "idle"}
    BY <1>0, <1>9 DEF EnqueueBulk, ClearDone, Goto
  <2> QED BY <1>0, <2>1 DEF Roles, P_Calls, C_Calls
<1>10. CASE ShrinkBulk(t) \/ ClearBulk(t)
  <2>1. slot' = slot /\ pc' = pc
    BY <1>10 DEF ShrinkBulk, ClearBulk
  <2>2. \A i \in 1..Len(bulk'[t]) : \E j \in 1..Len(bulk[t]) : bulk'[t][i] = bulk[t][j]
    <3>1. PICK m \in 1..Len(bulk[t]) : LeavesOut(bulk'[t], bulk[t], m)
      BY <1>0, <1>10, BulkLosesOne
    <3>2. Len(bulk[t]) \in Nat
      BY <1>0, LenProperties
    <3> QED BY <3>1, <3>2 DEF LeavesOut
  <2> QED BY <1>0, <2>1, <2>2 DEF Roles
<1>11. CASE PadBulk(t)
  <2>1. /\ slot' = slot /\ pc[t] = "resize" /\ pc'[t] \in {"idle", "bulk_assign"}
        /\ bulk'[t] = [i \in 1..Len(local[t]) |-> IF i <= Len(bulk[t]) THEN bulk[t][i] ELSE Nil]
    BY <1>0, <1>11 DEF PadBulk, Goto
  <2>2. Len(local[t]) \in Nat /\ Len(bulk[t]) \in Nat
    BY <1>0, LenProperties
  <2>3. \A i \in 1..Len(bulk'[t]) : (i \in 1..Len(bulk[t]) /\ bulk'[t][i] = bulk[t][i]) \/ bulk'[t][i] = Nil
    BY <2>1, <2>2
  <2> QED BY <1>0, <1>1, <2>1, <2>3 DEF Roles, P_Calls, C_Calls, Forwarding
<1>12. CASE AssignBulk(t)
  <2>1. PICK n \in 1..Len(bulk[t]) :
          /\ bulk'[t] = [bulk[t] EXCEPT ![n] = ForPool(Head(local[t]))]
          /\ slot' = slot /\ pc[t] = "bulk_assign" /\ pc'[t] \in {"idle", "bulk_assign"}
    BY <1>0, <1>12, BulkGetsOne
  <2>2. Len(bulk'[t]) = Len(bulk[t]) /\ \A i \in 1..Len(bulk[t]) :
          bulk'[t][i] = IF i = n THEN ForPool(Head(local[t])) ELSE bulk[t][i]
    BY <1>0, <2>1, ExceptSeq
  <2> QED BY <1>0, <1>1, <2>1, <2>2 DEF Roles, P_Calls, C_Calls, ForPool, Carrier
<1>13. CASE \E op \in P_Calls \cup C_Calls \cup {"clear"} : Call(t, op)
  <2>1. PICK op \in P_Calls \cup C_Calls \cup {"clear"} : Call(t, op)
    BY <1>13
  <2>2. /\ slot' = slot /\ bulk' = bulk /\ pc'[t] = op
        /\ op \in P_Calls => t \in Producers
        /\ op \in C_Calls => t \in Consumers
    BY <1>0, <2>1 DEF Call, Goto
  <2> QED BY <1>0, <2>2 DEF Roles, P_Calls, C_Calls
<1>14. CASE \E y \in Infos : Write(t, y)
  BY <1>0, <1>14, RolesStay DEF Write
<1> QED
  BY <1>2, <1>3, <1>4, <1>5, <1>6, <1>7, <1>8, <1>9, <1>10, <1>11, <1>12, <1>13, <1>14
  DEF InCall, ClientStep

(* At first nobody carries anything. *)
LEMMA AllRolesInit == Init => AllRoles
BY DEF Init, AllRoles, Roles, Nil, P_Calls, C_Calls, Forwarding

(* The other threads keep what they have. *)
LEMMA OthersKeep ==
  ASSUME Inv, NEW t \in Threads, InCall(t) \/ ClientStep(t), NEW u \in Threads, u # t
  PROVE  /\ slot'[u] = slot[u] /\ bulk'[u] = bulk[u] /\ local'[u] = local[u] /\ pc'[u] = pc[u]
<1>0. /\ slot \in [Threads -> Carriers] /\ bulk \in [Threads -> Seq(Carriers)]
      /\ pc \in [Threads -> Labels] /\ local \in [Threads -> Seq(Particles)]
  BY DEF Inv, TypeOK
<1>1. CASE \/ TakeFromPool(t) \/ P_Timeout(t) \/ P_Miss(t) \/ Malloc(t) \/ MallocThrows(t) \/ Catch(t)
           \/ FillPool(t) \/ FillDone(t) \/ FillFails(t)
  BY <1>0, <1>1
  DEF TakeFromPool, P_Timeout, P_Miss, Malloc, MallocThrows, Catch, FillPool, FillDone, FillFails, Goto
<1>2. CASE \/ TakeFromPtoC(t) \/ C_Miss(t) \/ TakeOneOfBulk(t) \/ TakeBulkDone(t)
           \/ P_Assign(t) \/ C_Assign(t) \/ AssignNull(t) \/ Reset(t)
  BY <1>0, <1>2
  DEF TakeFromPtoC, C_Miss, TakeOneOfBulk, TakeBulkDone, P_Assign, C_Assign, AssignNull, Reset, Goto
<1>3. CASE Stash(t) \/ P_SendBulk(t) \/ EnqueueBulk(t) \/ ClearDone(t)
  BY <1>0, <1>3 DEF Stash, P_SendBulk, EnqueueBulk, ClearDone, Goto
<1>4. CASE ShrinkBulk(t) \/ ClearBulk(t) \/ PadBulk(t)
  BY <1>0, <1>4 DEF ShrinkBulk, ClearBulk, PadBulk, Goto
<1>5. CASE AssignBulk(t)
  BY <1>0, <1>5, BulkGetsOne
<1>6. CASE \E op \in P_Calls \cup C_Calls \cup {"clear"} : Call(t, op)
  BY <1>0, <1>6 DEF Call, Goto
<1>7. CASE \E y \in Infos : Write(t, y)
  BY <1>7 DEF Write
<1> QED BY <1>1, <1>2, <1>3, <1>4, <1>5, <1>6, <1>7 DEF InCall, ClientStep

(* Only producers carry frames towards the consumers, only consumers carry *)
(* them back to the pool, whatever step is taken.                          *)
LEMMA AllRolesNext == Inv /\ AllRoles /\ [Next]_vars => AllRoles'
<1> SUFFICES ASSUME Inv, AllRoles, [Next]_vars PROVE AllRoles'
  OBVIOUS
<1>1. CASE UNCHANGED vars
  BY <1>1, RolesStay DEF vars, AllRoles
<1>2. CASE Next
  <2>1. PICK t \in Threads : InCall(t) \/ ClientStep(t)
    BY <1>2 DEF Next
  <2>2. Roles(t)'
    BY <2>1, RolesMove
  <2>3. ASSUME NEW u \in Threads, u # t PROVE Roles(u)'
    BY <2>1, <2>3, OthersKeep, RolesStay DEF AllRoles
  <2> QED BY <2>2, <2>3 DEF AllRoles
<1> QED BY <1>1, <1>2

-----------------------------------------------------------------------------
(* What a thread fills and reads, place by place. *)
CarriedIn(b, d, H) == \E i \in 1..Len(b) : b[i].data = d /\ b[i].host \in H
Fills(t, d) ==
  \/ slot[t].data = d /\ slot[t].host \in Forwarding
  \/ CarriedIn(bulk[t], d, Forwarding)
  \/ Outgoing(t) /\ d \in Elems(local[t])
Reads(t, d) ==
  \/ slot[t].data = d /\ slot[t].host = "pool"
  \/ CarriedIn(bulk[t], d, {"pool"})
  \/ ~Outgoing(t) /\ d \in Elems(local[t])

(* Who fills and who reads a frame, told by the carriers, ... *)
LEMMA Hands ==
  \A t, d : /\ d \in FillingBy(t) <=> Fills(t, d)
            /\ d \in ReadingBy(t) <=> Reads(t, d)
BY DEF FillingBy, ReadingBy, Carried, Fills, Reads, CarriedIn, Elems, Forwarding

(* ... and the same after a step. *)
LEMMA HandsNext ==
  \A t, d : /\ d \in FillingBy(t)' <=> Fills(t, d)'
            /\ d \in ReadingBy(t)' <=> Reads(t, d)'
BY DEF FillingBy, ReadingBy, Carried, Fills, Reads, CarriedIn, Elems, Forwarding

(* Outside F every particle stays where it is, and with the thread that    *)
(* has it.                                                                 *)
Elsewhere(F) ==
  \A d \in Particles \ F :
    /\ d \in pool' <=> d \in pool
    /\ d \in InFlight' <=> d \in InFlight
    /\ d \in leaked' <=> d \in leaked
    /\ \A u \in Threads : (Fills(u, d)' <=> Fills(u, d)) /\ (Reads(u, d)' <=> Reads(u, d))

(* Then every particle outside F keeps its stage and its holder. *)
LEMMA StageStays ==
  ASSUME Mapped, Mapped', NEW F, Elsewhere(F), NEW d \in Particles \ F
  PROVE  StageOf(d)' = StageOf(d) /\ HolderOf(d)' = HolderOf(d)
<1>1. \A s, h : Stands(d, s, h)' <=> Stands(d, s, h)
  BY Hands, HandsNext DEF Elsewhere, Stands
<1>2. CASE \E s, h : Stands(d, s, h)
  BY <1>1, <1>2 DEF Mapped
<1>3. CASE \A s, h : ~Stands(d, s, h)
  BY <1>1, <1>3 DEF Mapped
<1> QED BY <1>2, <1>3

(* A step moves the frames of F to one stage and one holder, ... *)
LEMMA FramesMove ==
  ASSUME Mapped, Mapped', NEW F, F # {}, F \subseteq Particles, Elsewhere(F), NEW to, NEW next,
         \A d \in F : Stands(d, to, next)', info' = info
  PROVE  Handoff!Move(F, to, next)
<1>1. \A d \in F : StageOf(d)' = to /\ HolderOf(d)' = next
  BY DEF Mapped
<1>2. \A d \in Particles : /\ StageOf(d)' = IF d \in F THEN to ELSE StageOf(d)
                           /\ HolderOf(d)' = IF d \in F THEN next ELSE HolderOf(d)
  BY <1>1, StageStays
<1> QED BY <1>2 DEF Handoff!Move

(* ... or no frame at all. *)
LEMMA NoFrameMoves ==
  ASSUME Mapped, Mapped', Elsewhere({}), info' = info
  PROVE  UNCHANGED Handoff!hvars
<1>1. \A d \in Particles : StageOf(d)' = StageOf(d) /\ HolderOf(d)' = HolderOf(d)
  BY StageStays
<1> QED BY <1>1 DEF Handoff!hvars

HandoffStep == Handoff!HNext \/ UNCHANGED Handoff!hvars

(* A dying carrier: its frame is sent, recycled or lost, by the thread     *)
(* that held it.                                                           *)
LEMMA ReleaseMoves ==
  ASSUME Inv, Mapped, Mapped', NEW t \in Threads, NEW c \in Carriers, Release(t, c),
         c.host \in Forwarding => t \in Producers /\ Fills(t, c.data),
         c.host = "pool" => t \in Consumers /\ Reads(t, c.data),
         \A d \in Particles \ Held(c) : \A u \in Threads :
           (Fills(u, d)' <=> Fills(u, d)) /\ (Reads(u, d)' <=> Reads(u, d)),
         info' = info
  PROVE  HandoffStep
<1>1. PICK k \in {"pool", "leaked", "lane"}, o \in Lanes :
        /\ k = "lane" \/ o = TokenLane
        /\ pool' = IF k = "pool" THEN pool \cup Held(c) ELSE pool
        /\ leaked' = IF k = "leaked" THEN leaked \cup Held(c) ELSE leaked
        /\ \A l \in Lanes :
             LaneData(l)' = IF k = "lane" /\ l = o THEN LaneData(l) \cup Held(c) ELSE LaneData(l)
  BY Released DEF Inv
<1>2. \A d \in Particles \ Held(c) : d \in InFlight' <=> d \in InFlight
  BY <1>1 DEF InFlight, LaneData
<1>3. Elsewhere(Held(c))
  BY <1>1, <1>2 DEF Elsewhere
<1>4. CASE c = Nil
  <2>1. Held(c) = {}
    BY <1>4 DEF Held, Nil
  <2> QED BY <1>3, <2>1, NoFrameMoves DEF HandoffStep
<1>5. CASE c # Nil
  <2> DEFINE d == c.data
  <2>1. d \in Particles /\ Held(c) = {d} /\ c.host \in Forwarding \cup {"pool"}
    BY <1>5, DataType, NilHoldsNothing, HostType DEF Held, Carriers, Forwarding
  <2>2. \E s \in {"filling", "reading"} : StageOf(d) = s /\ HolderOf(d) = t
    <3>1. Stands(d, "filling", t) \/ Stands(d, "reading", t)
      BY <2>1, Hands DEF Stands
    <3> QED BY <2>1, <3>1 DEF Mapped
  <2>3. d \in Handoff!Held(t)
    BY <2>1, <2>2 DEF Handoff!Held
  <2>4. CASE /\ c.host = "pool"
             /\ pool' = pool \cup {c.data}
    <3>1. Stands(d, "free", NoParticle)'
      BY <2>4 DEF Stands
    <3>2. Handoff!Move({d}, "free", NoParticle)
      BY <1>3, <2>1, <3>1, FramesMove
    <3>3. StageOf(d) = "reading" /\ t \in Consumers
      <4>1. Stands(d, "reading", t)
        BY <2>4, Hands DEF Stands
      <4> QED BY <2>1, <2>4, <4>1 DEF Mapped
    <3>4. Handoff!Recycle(t)
      BY <2>1, <2>3, <3>2, <3>3 DEF Handoff!Recycle
    <3> QED BY <3>3, <3>4 DEF HandoffStep, Handoff!HNext
  <2>5. CASE /\ c.host \in Forwarding
             /\ ptoc' = [ptoc EXCEPT ![LaneOf(t, c)] = Append(@, c.data)]
    <3>1. d \in InFlight'
      <4>1. LaneOf(t, c) \in Lanes
        BY DEF LaneOf, Lanes
      <4>2. ptoc'[LaneOf(t, c)] = Append(ptoc[LaneOf(t, c)], d) /\ ptoc[LaneOf(t, c)] \in Seq(Particles)
        BY <2>5, <4>1 DEF Inv, TypeOK
      <4>3. d \in Elems(Append(ptoc[LaneOf(t, c)], d))
        BY <2>1, <4>2, ElemsAppend
      <4>4. d \in Elems(ptoc'[LaneOf(t, c)])
        BY <4>2, <4>3
      <4> QED BY <4>1, <4>4 DEF InFlight
    <3>2. Stands(d, "sent", NoParticle)'
      BY <3>1 DEF Stands
    <3>3. Handoff!Move({d}, "sent", NoParticle)
      BY <1>3, <2>1, <3>2, FramesMove
    <3>4. StageOf(d) = "filling" /\ t \in Producers
      <4>1. Stands(d, "filling", t)
        BY <2>5, Hands DEF Stands
      <4> QED BY <2>1, <2>5, <4>1 DEF Mapped
    <3>5. Handoff!Send(t)
      BY <2>1, <2>3, <3>3, <3>4 DEF Handoff!Send
    <3> QED BY <3>4, <3>5 DEF HandoffStep, Handoff!HNext
  <2>6. CASE leaked' = leaked \cup {c.data}
    <3>1. Stands(d, "lost", NoParticle)'
      BY <2>6 DEF Stands
    <3>2. Handoff!Move({d}, "lost", NoParticle)
      BY <1>3, <2>1, <3>1, FramesMove
    <3>3. Handoff!LoseHeld(t)
      BY <2>3, <3>2 DEF Handoff!LoseHeld
    <3> QED BY <3>3 DEF HandoffStep, Handoff!HNext, Threads
  <2> HIDE DEF d
  <2> QED BY <1>5, <2>1, <2>4, <2>5, <2>6, NilHoldsNothing DEF Release, Forwarding
<1> QED BY <1>4, <1>5

(* What a thread that does not move fills and reads. *)
LEMMA HandsKeep ==
  ASSUME NEW u, slot'[u] = slot[u], bulk'[u] = bulk[u], local'[u] = local[u],
         pc'[u] = pc[u] \/ local[u] = <<>> \/ Outgoing(u)' = Outgoing(u)
  PROVE  \A d : (Fills(u, d)' <=> Fills(u, d)) /\ (Reads(u, d)' <=> Reads(u, d))
<1>1. Outgoing(u)' = Outgoing(u) \/ Elems(local[u]) = {}
  BY ElemsEmpty DEF Outgoing
<1>2. Elems(local'[u]) = Elems(local[u])
  OBVIOUS
<1> QED BY <1>1, <1>2 DEF Fills, Reads, CarriedIn

(* A step that only changes what is in the vector, the slot or the array   *)
(* of its own thread.                                                      *)
LEMMA OwnMoves ==
  ASSUME Inv, Mapped, Mapped', NEW t \in Threads, InCall(t) \/ ClientStep(t),
         UNCHANGED <<pool, ptoc, leaked, info>>,
         \A d \in Particles : (Fills(t, d)' <=> Fills(t, d)) /\ (Reads(t, d)' <=> Reads(t, d))
  PROVE  HandoffStep
<1>1. \A u \in Threads \ {t} : \A d \in Particles :
        (Fills(u, d)' <=> Fills(u, d)) /\ (Reads(u, d)' <=> Reads(u, d))
  BY OthersKeep, HandsKeep
<1>2. InFlight' = InFlight
  BY DEF InFlight
<1>3. Elsewhere({})
  BY <1>1, <1>2 DEF Elsewhere
<1> QED BY <1>3, NoFrameMoves DEF HandoffStep

(* The steps of a call that move no particle. *)
LEMMA QuietSteps ==
  ASSUME Inv, Mapped, Mapped', NEW t \in Threads, InCall(t) \/ ClientStep(t),
         UNCHANGED <<pool, ptoc, slot, bulk, local, leaked, info>>,
         local[t] = <<>> \/ Outgoing(t)' = Outgoing(t)
  PROVE  HandoffStep
BY HandsKeep, OwnMoves

(* push_back of the carrier in p. *)
LEMMA CarriedAppend ==
  ASSUME NEW b \in Seq(Carriers), NEW c \in Carriers, NEW d, NEW H
  PROVE  CarriedIn(Append(b, c), d, H) <=> CarriedIn(b, d, H) \/ (c.data = d /\ c.host \in H)
<1> DEFINE a == Append(b, c)
<1>1. /\ Len(a) = Len(b) + 1 /\ Len(b) \in Nat
      /\ \A i \in 1..Len(b) : a[i] = b[i]
      /\ a[Len(b) + 1] = c
  BY AppendProperties, LenProperties
<1> HIDE DEF a
<1>2. \A i \in 1..Len(a) : i \in 1..Len(b) \/ i = Len(b) + 1
  BY <1>1
<1>3. Len(b) + 1 \in 1..Len(a) /\ \A i \in 1..Len(b) : i \in 1..Len(a)
  BY <1>1
<1>4. CarriedIn(a, d, H) <=> CarriedIn(b, d, H) \/ (c.data = d /\ c.host \in H)
  BY <1>1, <1>2, <1>3 DEF CarriedIn
<1> QED BY <1>4 DEF a

(* The vector loses the carrier at m. *)
LEMMA CarriedWithout ==
  ASSUME NEW b \in Seq(Carriers), NEW m \in 1..Len(b), NEW r, LeavesOut(r, b, m),
         NEW d \in Particles \ Held(b[m]), NEW H
  PROVE  CarriedIn(r, d, H) <=> CarriedIn(b, d, H)
<1>1. /\ Len(b) \in Nat /\ Len(r) = Len(b) - 1
      /\ \A i \in 1..Len(r) :
           r[i] = (IF i < m THEN b[i] ELSE b[i + 1]) /\ i \in 1..Len(b) /\ i + 1 \in 1..Len(b)
  BY LenProperties DEF LeavesOut
<1>2. \A i \in 1..Len(b) :
        \/ i = m
        \/ i < m /\ i \in 1..Len(r) /\ r[i] = b[i]
        \/ i > m /\ i - 1 \in 1..Len(r) /\ r[i - 1] = b[i]
  BY <1>1
<1>3. b[m].data # d
  BY ConstantAssumption DEF Held
<1> QED BY <1>1, <1>2, <1>3 DEF CarriedIn

(* A carrier of the vector is replaced. *)
LEMMA CarriedReplace ==
  ASSUME NEW b \in Seq(Carriers), NEW n \in 1..Len(b), NEW c \in Carriers,
         NEW d \in Particles \ Held(b[n]), NEW H
  PROVE  CarriedIn([b EXCEPT ![n] = c], d, H) <=> CarriedIn(b, d, H) \/ (c.data = d /\ c.host \in H)
<1> DEFINE r == [b EXCEPT ![n] = c]
<1>1. Len(r) = Len(b) /\ r[n] = c /\ \A i \in 1..Len(b) : i # n => r[i] = b[i]
  BY ExceptSeq
<1>2. b[n].data # d
  BY ConstantAssumption DEF Held
<1> HIDE DEF r
<1>3. CarriedIn(r, d, H) <=> CarriedIn(b, d, H) \/ (c.data = d /\ c.host \in H)
  BY <1>1, <1>2 DEF CarriedIn
<1> QED BY <1>3 DEF r

(* A carrier moved into the bulk vector still holds its frame: no step of  *)
(* the hand-over.                                                          *)
LEMMA StashMoves ==
  ASSUME Inv, Mapped, Mapped', NEW t \in Threads, Stash(t)
  PROVE  HandoffStep
<1>1. /\ slot'[t] = Nil /\ bulk'[t] = Append(bulk[t], slot[t]) /\ local' = local /\ pc' = pc
      /\ UNCHANGED <<pool, ptoc, leaked, info>>
      /\ slot[t] \in Carriers /\ bulk[t] \in Seq(Carriers)
  BY DEF Stash, Inv, TypeOK
<1>2. \A d, H :
        CarriedIn(bulk'[t], d, H) <=> CarriedIn(bulk[t], d, H) \/ (slot[t].data = d /\ slot[t].host \in H)
  BY <1>1, CarriedAppend
<1>3. \A d \in Particles : (Fills(t, d)' <=> Fills(t, d)) /\ (Reads(t, d)' <=> Reads(t, d))
  <2>1. Outgoing(t)' = Outgoing(t) /\ Elems(local[t])' = Elems(local[t])
    BY <1>1 DEF Outgoing
  <2>2. Nil.host = "none" /\ "none" \notin Forwarding
    BY DEF Nil, Forwarding
  <2> QED BY <1>1, <1>2, <2>1, <2>2 DEF Fills, Reads
<1> QED BY <1>1, <1>3, OwnMoves DEF ClientStep

(* The resize of the bulk vector appends null carriers: no step of the     *)
(* hand-over.                                                              *)
LEMMA PadMoves ==
  ASSUME Inv, Mapped, Mapped', NEW t \in Threads, PadBulk(t)
  PROVE  HandoffStep
<1> DEFINE m == Len(local[t])
           b == bulk[t]
           r == [i \in 1..m |-> IF i <= Len(b) THEN b[i] ELSE Nil]
<1>1. /\ slot' = slot /\ bulk'[t] = r /\ local' = local /\ Len(b) <= m
      /\ pc[t] = "resize" /\ pc'[t] \in {"idle", "bulk_assign"}
      /\ UNCHANGED <<pool, ptoc, leaked, info>>
      /\ Len(b) \in Nat /\ m \in Nat
  BY LenProperties DEF PadBulk, Inv, TypeOK, Goto
<1>2. Len(r) = m /\ \A i \in 1..m : r[i] = IF i <= Len(b) THEN b[i] ELSE Nil
  BY <1>1
<1> HIDE DEF r, m
<1>3. /\ \A i \in 1..Len(b) : i \in 1..Len(r) /\ r[i] = b[i]
      /\ \A i \in 1..Len(r) : (i \in 1..Len(b) /\ r[i] = b[i]) \/ r[i] = Nil
  BY <1>1, <1>2
<1>4. Nil.host = "none" /\ "none" \notin Forwarding
  BY DEF Nil, Forwarding
<1>5. \A d, H : "none" \notin H => (CarriedIn(r, d, H) <=> CarriedIn(b, d, H))
  BY <1>3, <1>4 DEF CarriedIn
<1>6. \A d \in Particles : (Fills(t, d)' <=> Fills(t, d)) /\ (Reads(t, d)' <=> Reads(t, d))
  <2>1. ~Outgoing(t)' /\ ~Outgoing(t) /\ Elems(local[t])' = Elems(local[t])
    BY <1>1 DEF Outgoing
  <2> QED BY <1>1, <1>4, <1>5, <2>1 DEF Fills, Reads
<1> QED BY <1>1, <1>6, OwnMoves DEF InCall

(* P_get and C_recv: what the call has dequeued is wrapped, for the same   *)
(* stage of its life, and the old carrier dies.                            *)
LEMMA AssignMoves ==
  ASSUME Inv, AllRoles, Mapped, Mapped', NEW t \in Threads, P_Assign(t) \/ C_Assign(t)
  PROVE  HandoffStep
<1>1. /\ Release(t, slot[t]) /\ slot[t] \in Carriers /\ local'[t] = <<>> /\ bulk' = bulk /\ info' = info
      /\ pc'[t] = "idle" /\ pc[t] \in {"P_assign", "C_assign"}
      /\ slot'[t] = IF pc[t] = "P_assign" THEN ForConsumers(Head(local[t])) ELSE ForPool(Head(local[t]))
  BY DEF P_Assign, C_Assign, Inv, TypeOK, Goto
<1>2. Elems(local[t]) = {Head(local[t])} /\ Elems(local[t])' = {}
  <2>1. local[t] \in Seq(Particles) /\ Len(local[t]) = 1
    BY <1>1 DEF Inv, TypeOK, CallState
  <2>2. local[t] = <<>> <=> Len(local[t]) = 0
    BY <2>1, EmptySeq
  <2>3. Elems(local[t]) = Elems(Tail(local[t])) \cup {Head(local[t])} /\ Tail(local[t]) = <<>>
    BY <2>1, <2>2, ElemsTail, LengthOne
  <2> QED BY <1>1, <2>3, ElemsEmpty
<1>3. \A d \in Particles \ Held(slot[t]) : slot[t].data # d
  BY ConstantAssumption DEF Held
<1>4. /\ Outgoing(t) <=> pc[t] = "P_assign"
      /\ ~Outgoing(t)'
      /\ ToConsumers \in Forwarding /\ "pool" \notin Forwarding
  BY <1>1, HostType DEF Outgoing, Forwarding
<1>5. \A d \in Particles \ Held(slot[t]) : (Fills(t, d)' <=> Fills(t, d)) /\ (Reads(t, d)' <=> Reads(t, d))
  <2>1. CASE pc[t] = "P_assign"
    BY <1>1, <1>2, <1>3, <1>4, <2>1 DEF Fills, Reads, ForConsumers, Carrier, Forwarding
  <2>2. CASE pc[t] = "C_assign"
    BY <1>1, <1>2, <1>3, <1>4, <2>2 DEF Fills, Reads, ForPool, Carrier
  <2> QED BY <1>1, <2>1, <2>2
<1>6. \A u \in Threads \ {t} : \A d \in Particles :
        (Fills(u, d)' <=> Fills(u, d)) /\ (Reads(u, d)' <=> Reads(u, d))
  BY OthersKeep, HandsKeep DEF InCall
<1>7. /\ slot[t].host \in Forwarding => t \in Producers /\ Fills(t, slot[t].data)
      /\ slot[t].host = "pool" => t \in Consumers /\ Reads(t, slot[t].data)
  BY DEF AllRoles, Roles, Fills, Reads
<1> QED BY <1>1, <1>5, <1>6, <1>7, ReleaseMoves

(* p = nullptr and p.reset(). *)
LEMMA DropMoves ==
  ASSUME Inv, AllRoles, Mapped, Mapped', NEW t \in Threads, AssignNull(t) \/ Reset(t)
  PROVE  HandoffStep
<1>1. /\ Release(t, slot[t]) /\ slot[t] \in Carriers /\ local' = local /\ bulk' = bulk /\ info' = info
      /\ pc'[t] = "idle" /\ pc[t] \in {"assign_null", "idle"} /\ slot'[t] = Nil
  BY DEF AssignNull, Reset, Inv, TypeOK, Goto
<1>2. \A d \in Particles \ Held(slot[t]) : slot[t].data # d
  BY ConstantAssumption DEF Held
<1>3. \A d \in Particles \ Held(slot[t]) : (Fills(t, d)' <=> Fills(t, d)) /\ (Reads(t, d)' <=> Reads(t, d))
  <2>1. ~Outgoing(t)' /\ ~Outgoing(t) /\ Elems(local[t])' = Elems(local[t])
    BY <1>1 DEF Outgoing
  <2>2. Nil.host = "none" /\ "none" \notin Forwarding
    BY DEF Nil, Forwarding
  <2> QED BY <1>1, <1>2, <2>1, <2>2 DEF Fills, Reads
<1>4. \A u \in Threads \ {t} : \A d \in Particles :
        (Fills(u, d)' <=> Fills(u, d)) /\ (Reads(u, d)' <=> Reads(u, d))
  BY OthersKeep, HandsKeep DEF InCall, ClientStep
<1>5. /\ slot[t].host \in Forwarding => t \in Producers /\ Fills(t, slot[t].data)
      /\ slot[t].host = "pool" => t \in Consumers /\ Reads(t, slot[t].data)
  BY DEF AllRoles, Roles, Fills, Reads
<1> QED BY <1>1, <1>3, <1>4, <1>5, ReleaseMoves

(* pv.clear() and pv.resize(). *)
LEMMA BulkDropMoves ==
  ASSUME Inv, AllRoles, Mapped, Mapped', NEW t \in Threads, ShrinkBulk(t) \/ ClearBulk(t)
  PROVE  HandoffStep
<1>0. PICK m \in 1..Len(bulk[t]) : \E r :
        /\ LeavesOut(r, bulk[t], m) /\ bulk' = [bulk EXCEPT ![t] = r]
        /\ Release(t, bulk[t][m])
        /\ UNCHANGED <<slot, local, info, pc>>
  BY BulkLosesOne
<1>1. PICK r :
        /\ LeavesOut(r, bulk[t], m) /\ bulk' = [bulk EXCEPT ![t] = r]
        /\ Release(t, bulk[t][m])
        /\ UNCHANGED <<slot, local, info, pc>>
  BY <1>0
<1>2. bulk[t] \in Seq(Carriers) /\ bulk[t][m] \in Carriers /\ bulk'[t] = r
  BY <1>1, ElementOfSeq DEF Inv, TypeOK
<1>3. \A d \in Particles \ Held(bulk[t][m]) : \A H : CarriedIn(bulk'[t], d, H) <=> CarriedIn(bulk[t], d, H)
  BY <1>1, <1>2, CarriedWithout
<1>4. \A d \in Particles \ Held(bulk[t][m]) :
        (Fills(t, d)' <=> Fills(t, d)) /\ (Reads(t, d)' <=> Reads(t, d))
  <2>1. Outgoing(t)' = Outgoing(t) /\ Elems(local[t])' = Elems(local[t])
    BY <1>1 DEF Outgoing
  <2> QED BY <1>1, <1>3, <2>1 DEF Fills, Reads
<1>5. \A u \in Threads \ {t} : \A d \in Particles :
        (Fills(u, d)' <=> Fills(u, d)) /\ (Reads(u, d)' <=> Reads(u, d))
  BY OthersKeep, HandsKeep DEF InCall
<1>6. /\ bulk[t][m].host \in Forwarding => t \in Producers /\ Fills(t, bulk[t][m].data)
      /\ bulk[t][m].host = "pool" => t \in Consumers /\ Reads(t, bulk[t][m].data)
  BY DEF AllRoles, Roles, Fills, Reads, CarriedIn
<1> QED BY <1>1, <1>2, <1>4, <1>5, <1>6, ReleaseMoves

(* C_getBulk wraps a particle into its place in the vector: it was being   *)
(* read before and is being read after.                                    *)
LEMMA BulkAssignMoves ==
  ASSUME Inv, AllRoles, OneStage, OneStage', Mapped, Mapped', NEW t \in Threads, AssignBulk(t)
  PROVE  HandoffStep
<1> DEFINE x == Head(local[t])
<1>1. PICK n \in 1..Len(bulk[t]) :
        /\ bulk' = [bulk EXCEPT ![t] = [bulk[t] EXCEPT ![n] = ForPool(x)]]
        /\ Release(t, bulk[t][n])
        /\ local[t] # <<>> /\ local' = [local EXCEPT ![t] = Tail(@)]
        /\ UNCHANGED <<slot, info>>
        /\ pc[t] = "bulk_assign" /\ pc'[t] \in {"idle", "bulk_assign"}
  BY BulkGetsOne
<1>2. /\ bulk[t] \in Seq(Carriers) /\ bulk[t][n] \in Carriers
      /\ bulk'[t] = [bulk[t] EXCEPT ![n] = ForPool(x)]
      /\ local[t] \in Seq(Particles) /\ local'[t] = Tail(local[t])
  BY <1>1, ElementOfSeq DEF Inv, TypeOK
<1>3. x \in Particles /\ Elems(local[t]) = Elems(local[t])' \cup {x}
  BY <1>1, <1>2, ElemsTail, HeadTailProperties
<1>4. ForPool(x) \in Carriers /\ ForPool(x).data = x /\ ForPool(x).host = "pool"
  BY <1>3, CarrierType DEF ForPool, Carrier
<1> HIDE DEF x
<1>5. \A d \in Particles \ Held(bulk[t][n]) : \A H :
        CarriedIn(bulk'[t], d, H) <=> CarriedIn(bulk[t], d, H) \/ (x = d /\ "pool" \in H)
  BY <1>2, <1>4, CarriedReplace
<1>6. ~Outgoing(t)' /\ ~Outgoing(t) /\ "pool" \notin Forwarding
  BY <1>1 DEF Outgoing, Forwarding
<1>7. \A d \in Particles \ Held(bulk[t][n]) :
        (Fills(t, d)' <=> Fills(t, d)) /\ (Reads(t, d)' <=> Reads(t, d))
  BY <1>1, <1>3, <1>5, <1>6 DEF Fills, Reads
<1>8. \A u \in Threads \ {t} : \A d \in Particles :
        (Fills(u, d)' <=> Fills(u, d)) /\ (Reads(u, d)' <=> Reads(u, d))
  BY OthersKeep, HandsKeep DEF InCall
<1>9. /\ bulk[t][n].host \in Forwarding => t \in Producers /\ Fills(t, bulk[t][n].data)
      /\ bulk[t][n].host = "pool" => t \in Consumers /\ Reads(t, bulk[t][n].data)
  BY DEF AllRoles, Roles, Fills, Reads, CarriedIn
<1> QED BY <1>1, <1>2, <1>7, <1>8, <1>9, ReleaseMoves

(* A dequeue from the pool acquires a frame. *)
LEMMA TakeFromPoolMoves ==
  ASSUME Inv, AllRoles, Mapped, Mapped', NEW t \in Threads, TakeFromPool(t)
  PROVE  HandoffStep
<1>1. PICK d \in pool : pool' = pool \ {d} /\ local' = [local EXCEPT ![t] = <<d>>]
  BY DEF TakeFromPool
<1>2. /\ d \in Particles /\ local[t] = <<>> /\ local'[t] = <<d>> /\ t \in Producers
      /\ pc'[t] = "P_assign" /\ UNCHANGED <<ptoc, slot, bulk, leaked, info>>
  BY <1>1 DEF Inv, TypeOK, CallState, TakeFromPool, P_Calls, AllRoles, Roles, Goto
<1>3. Elems(local[t]) = {} /\ Elems(local[t])' = {d} /\ Outgoing(t)'
  <2>1. Elems(<<d>>) = {d} /\ Elems(<<>>) = {}
    BY ElemsOne, ElemsEmpty
  <2> QED BY <1>2, <2>1 DEF Outgoing
<1>4. \A u \in Threads \ {t} : \A e \in Particles :
        (Fills(u, e)' <=> Fills(u, e)) /\ (Reads(u, e)' <=> Reads(u, e))
  BY OthersKeep, HandsKeep DEF InCall
<1>5. \A e \in Particles \ {d} : (Fills(t, e)' <=> Fills(t, e)) /\ (Reads(t, e)' <=> Reads(t, e))
  BY <1>2, <1>3 DEF Fills, Reads
<1>6. Elsewhere({d})
  BY <1>1, <1>2, <1>4, <1>5 DEF Elsewhere, InFlight
<1>7. Stands(d, "filling", t)'
  BY <1>3, HandsNext DEF Stands, Fills
<1>8. StageOf(d) = "free"
  <2>1. Stands(d, "free", NoParticle)
    BY <1>1 DEF Stands
  <2> QED BY <1>2, <2>1 DEF Mapped
<1>9. Handoff!Move({d}, "filling", t)
  BY <1>2, <1>6, <1>7, FramesMove
<1>10. Handoff!Acquire(t)
  BY <1>2, <1>8, <1>9 DEF Handoff!Acquire, Handoff!InStage
<1> QED BY <1>2, <1>10 DEF HandoffStep, Handoff!HNext

(* A dequeue from a lane receives one. *)
LEMMA TakeFromLaneMoves ==
  ASSUME Inv, AllRoles, Mapped, Mapped', NEW t \in Threads, TakeFromPtoC(t) \/ TakeOneOfBulk(t)
  PROVE  HandoffStep
<1>1. PICK l \in Lanes :
        /\ ptoc[l] # <<>> /\ ptoc' = [ptoc EXCEPT ![l] = Tail(@)]
        /\ \/ TakeFromPtoC(t) /\ local' = [local EXCEPT ![t] = <<Head(ptoc[l])>>]
           \/ TakeOneOfBulk(t) /\ local' = [local EXCEPT ![t] = Append(@, Head(ptoc[l]))]
  BY DEF TakeFromPtoC, TakeOneOfBulk
<1>0. PICK d : d = Head(ptoc[l])
  OBVIOUS
<1>2. /\ ptoc \in [Lanes -> Seq(Particles)] /\ local[t] \in Seq(Particles)
      /\ t \in Consumers
      /\ pc[t] \in C_Calls /\ pc'[t] \in {"C_assign", "C_getBulk"}
      /\ UNCHANGED <<pool, slot, bulk, leaked, info>>
  BY <1>1 DEF Inv, TypeOK, TakeFromPtoC, TakeOneOfBulk, C_Calls, AllRoles, Roles, Goto
<1>3. d \in Particles /\ Elems(ptoc[l]) = Elems(Tail(ptoc[l])) \cup {d}
  BY <1>0, <1>1, <1>2, ElemsTail, HeadTailProperties
<1>4. Elems(local[t])' = Elems(local[t]) \cup {d}
  <2>1. CASE TakeFromPtoC(t) /\ local' = [local EXCEPT ![t] = <<Head(ptoc[l])>>]
    <3>1. local[t] = <<>> /\ local'[t] = <<d>>
      BY <1>0, <2>1 DEF Inv, TypeOK, CallState, TakeFromPtoC
    <3>2. Elems(<<d>>) = {d} /\ Elems(<<>>) = {}
      BY ElemsOne, ElemsEmpty
    <3> QED BY <3>1, <3>2
  <2>2. CASE TakeOneOfBulk(t) /\ local' = [local EXCEPT ![t] = Append(@, Head(ptoc[l]))]
    <3>1. local'[t] = Append(local[t], d)
      BY <1>0, <2>2 DEF Inv, TypeOK
    <3>2. Elems(Append(local[t], d)) = Elems(local[t]) \cup {d}
      BY <1>2, <1>3, ElemsAppend
    <3> QED BY <3>1, <3>2
  <2> QED BY <1>1, <2>1, <2>2
<1>5. d \in InFlight
  BY <1>3 DEF InFlight
<1>6. \A e \in Particles \ {d} : e \in InFlight' <=> e \in InFlight
  <2>1. \A m \in Lanes : Elems(ptoc[m]) \ {d} = Elems(ptoc'[m]) \ {d}
    BY <1>1, <1>2, <1>3
  <2> QED BY <2>1 DEF InFlight
<1>7. ~Outgoing(t) /\ ~Outgoing(t)'
  BY <1>2 DEF Outgoing, C_Calls
<1>8. \A u \in Threads \ {t} : \A e \in Particles :
        (Fills(u, e)' <=> Fills(u, e)) /\ (Reads(u, e)' <=> Reads(u, e))
  BY OthersKeep, HandsKeep DEF InCall
<1>9. \A e \in Particles \ {d} : (Fills(t, e)' <=> Fills(t, e)) /\ (Reads(t, e)' <=> Reads(t, e))
  BY <1>2, <1>4, <1>7 DEF Fills, Reads
<1>10. Elsewhere({d})
  BY <1>2, <1>6, <1>8, <1>9 DEF Elsewhere
<1>11. Stands(d, "reading", t)'
  BY <1>4, <1>7, HandsNext DEF Stands, Reads
<1>12. StageOf(d) = "sent"
  <2>1. Stands(d, "sent", NoParticle)
    BY <1>5 DEF Stands
  <2> QED BY <1>3, <2>1 DEF Mapped
<1>13. Handoff!Move({d}, "reading", t)
  BY <1>2, <1>3, <1>10, <1>11, FramesMove
<1>14. Handoff!Receive(t)
  BY <1>3, <1>12, <1>13 DEF Handoff!Receive, Handoff!InStage
<1> QED BY <1>2, <1>14 DEF HandoffStep, Handoff!HNext

(* A particle that is only where new ones are does not exist for clients.  *)
LEMMA AbsentStage ==
  ASSUME Inv, Mapped, NEW d \in Particles,
         \A k \in Kinds \ {"fresh"}, o \in Lanes : ~IsAt(d, k, o)
  PROVE  StageOf(d) = "absent"
<1>1. d \notin pool /\ d \notin InFlight /\ d \notin leaked
  BY PlaceTypes DEF IsAt, Kinds, InFlight, LaneData
<1>2. \A t \in Threads : d \notin FillingBy(t) \cup ReadingBy(t)
  BY HeldAt, PlaceTypes DEF Kinds
<1>3. \A s, h : ~Stands(d, s, h)
  BY <1>1, <1>2 DEF Stands
<1> QED BY <1>3 DEF Mapped

(* init_dataPool: a new particle is offered, or lost with all that are     *)
(* left when the pool cannot take it.                                      *)
LEMMA FillMoves ==
  ASSUME Inv, Owned, AllRoles, Mapped, Mapped', NEW t \in Threads,
         FillPool(t) \/ FillFails(t) \/ MallocThrows(t)
  PROVE  HandoffStep
<1>1. /\ UNCHANGED <<ptoc, slot, bulk, local, info>> /\ local[t] = <<>>
  BY DEF FillPool, FillFails, MallocThrows, Inv, CallState
<1>2. \A u \in Threads : \A e \in Particles :
        (Fills(u, e)' <=> Fills(u, e)) /\ (Reads(u, e)' <=> Reads(u, e))
  BY <1>1, OthersKeep, HandsKeep DEF InCall
<1>3. InFlight' = InFlight
  BY <1>1 DEF InFlight
<1>4. ASSUME NEW d \in fresh[t] PROVE d \in Particles /\ StageOf(d) = "absent"
  <2>1. d \in Particles /\ IsAt(d, "fresh", t)
    BY <1>4 DEF Inv, TypeOK, IsAt
  <2>2. \A k \in Kinds \ {"fresh"}, o \in Lanes : ~IsAt(d, k, o)
    BY <2>1, PlaceTypes DEF Owned, OnePlace, Kinds
  <2> QED BY <2>1, <2>2, AbsentStage
<1>5. ASSUME NEW d \in Particles \ created PROVE StageOf(d) = "absent"
  BY AbsentStage DEF Owned, Accounted
<1>6. CASE FillPool(t)
  <2>1. PICK d \in fresh[t] : pool' = pool \cup {d} /\ leaked' = leaked
    BY <1>6 DEF FillPool
  <2>2. Elsewhere({d})
    BY <1>2, <1>3, <2>1 DEF Elsewhere
  <2>3. Stands(d, "free", NoParticle)'
    BY <2>1 DEF Stands
  <2>4. Handoff!Move({d}, "free", NoParticle)
    BY <1>1, <1>4, <2>2, <2>3, FramesMove
  <2>5. Handoff!Offer
    BY <1>4, <2>4 DEF Handoff!Offer, Handoff!InStage
  <2> QED BY <2>5 DEF HandoffStep, Handoff!HNext
<1>7. CASE FillFails(t) \/ MallocThrows(t)
  <2>1. PICK F : /\ F \subseteq Particles /\ \A d \in F : StageOf(d) = "absent"
                 /\ leaked' = leaked \cup F /\ pool' = pool
    <3>1. CASE FillFails(t)
      <4>1. leaked' = leaked \cup fresh[t] /\ pool' = pool
        BY <3>1 DEF FillFails
      <4>2. fresh[t] \subseteq Particles
        BY DEF Inv, TypeOK
      <4> QED BY <1>4, <4>1, <4>2
    <3>2. CASE MallocThrows(t) /\ AllMemalign
      <4>1. leaked' = leaked \cup (Particles \ created) /\ pool' = pool
        BY <3>2 DEF MallocThrows
      <4> QED BY <1>5, <4>1
    <3>3. CASE MallocThrows(t) /\ ~AllMemalign
      <4>1. PICK F : F = {}
        OBVIOUS
      <4>2. leaked' = leaked \cup F /\ pool' = pool
        BY <3>3, <4>1 DEF MallocThrows
      <4> QED BY <4>1, <4>2
    <3> QED BY <1>7, <3>1, <3>2, <3>3
  <2>2. Elsewhere(F)
    BY <1>2, <1>3, <2>1 DEF Elsewhere
  <2>3. CASE F = {}
    BY <1>1, <2>2, <2>3, NoFrameMoves DEF HandoffStep
  <2>4. CASE F # {}
    <3>1. \A d \in F : Stands(d, "lost", NoParticle)'
      BY <2>1 DEF Stands
    <3>2. Handoff!Move(F, "lost", NoParticle)
      BY <1>1, <2>1, <2>2, <2>4, <3>1, FramesMove
    <3>3. Handoff!LoseNew
      BY <2>1, <3>2 DEF Handoff!LoseNew, Handoff!InStage
    <3> QED BY <3>3 DEF HandoffStep, Handoff!HNext
  <2> QED BY <2>3, <2>4
<1> QED BY <1>6, <1>7

(* P_send_bulk: the frames of the vector, filled or read, go on. *)
LEMMA SendBulkMoves ==
  ASSUME Inv, Owned, AllRoles, Mapped, Mapped', NEW t \in Threads, P_SendBulk(t)
  PROVE  HandoffStep
<1> DEFINE b == bulk[t]
           F == Datas(b)
<1>1. /\ b \in Seq(Carriers) /\ Once(b) /\ b # <<>> /\ \A i \in 1..Len(b) : b[i] # Nil
      /\ local[t] = <<>> /\ t \in Producers
      /\ local'[t] = [i \in 1..Len(b) |-> b[i].data]
      /\ bulk'[t] = [i \in 1..Len(b) |-> LeftOf(b[i])]
      /\ pc'[t] = "send_bulk" /\ UNCHANGED <<pool, ptoc, slot, leaked, info>>
  BY DEF P_SendBulk, Inv, TypeOK, CallState, Owned, NoneTwice, Goto
<1>2. Elems(local[t])' = F /\ Elems(local[t]) = {} /\ Outgoing(t)'
  <2>1. Elems([i \in 1..Len(b) |-> b[i].data]) = F
    BY <1>1, DatasSent
  <2> QED BY <1>1, <2>1, ElemsEmpty DEF Outgoing
<1>3. \A i \in 1..Len(b) : b[i] \in Carriers
  BY <1>1, ElementOfSeq
<1>4. /\ F \subseteq Particles
      /\ \A d \in F : \E i \in 1..Len(b) : b[i].data = d /\ b[i].host \in Forwarding \cup {"pool"}
  BY <1>1, <1>3, DataType, HostType DEF Datas, Carriers, Forwarding
<1>5. F # {}
  <2>1. Len(b) \in Nat /\ Len(b) # 0
    BY <1>1, LenProperties, EmptySeq
  <2>2. 1 \in 1..Len(b)
    BY <2>1
  <2>3. b[1].data # NoParticle
    BY <1>1, <1>3, <2>2, NilHoldsNothing
  <2> QED BY <2>2, <2>3 DEF Datas
<1>6. \A d \in Particles : \A H : CarriedIn(b, d, H) => d \in F
  BY ConstantAssumption DEF CarriedIn, Datas
<1>7. \A d, H : "none" \notin H => ~CarriedIn(bulk'[t], d, H)
  <2>1. Len(bulk'[t]) = Len(b) /\ \A i \in 1..Len(b) : bulk'[t][i] = Nil
    BY <1>1, LenProperties DEF LeftOf
  <2> QED BY <2>1 DEF CarriedIn, Nil
<1>8. \A d \in F : HolderOf(d) = t
  <2> SUFFICES ASSUME NEW d \in F PROVE HolderOf(d) = t
    OBVIOUS
  <2>1. Fills(t, d) \/ Reads(t, d)
    BY <1>4 DEF Fills, Reads, CarriedIn
  <2>2. Stands(d, "filling", t) \/ Stands(d, "reading", t)
    BY <2>1, Hands DEF Stands
  <2> QED BY <1>4, <2>2 DEF Mapped
<1> HIDE DEF F, b
<1>9. \A u \in Threads \ {t} : \A e \in Particles :
        (Fills(u, e)' <=> Fills(u, e)) /\ (Reads(u, e)' <=> Reads(u, e))
  BY OthersKeep, HandsKeep DEF ClientStep
<1>10. \A e \in Particles \ F : (Fills(t, e)' <=> Fills(t, e)) /\ (Reads(t, e)' <=> Reads(t, e))
  BY <1>1, <1>2, <1>6, <1>7 DEF Fills, Reads, Forwarding, b
<1>11. Elsewhere(F)
  BY <1>1, <1>9, <1>10 DEF Elsewhere, InFlight
<1>12. \A d \in F : Stands(d, "filling", t)'
  BY <1>2, HandsNext DEF Stands, Fills
<1>13. Handoff!Move(F, "filling", t)
  BY <1>1, <1>4, <1>5, <1>11, <1>12, FramesMove
<1>14. Handoff!Forward(t)
  BY <1>4, <1>8, <1>13 DEF Handoff!Forward, Handoff!Held
<1> QED BY <1>1, <1>14 DEF HandoffStep, Handoff!HNext

(* enqueue_bulk sends them, or they are lost. *)
LEMMA EnqueueBulkMoves ==
  ASSUME Inv, AllRoles, Mapped, Mapped', NEW t \in Threads, EnqueueBulk(t)
  PROVE  HandoffStep
<1> DEFINE F == Elems(local[t])
<1>1. /\ local[t] \in Seq(Particles) /\ ptoc \in [Lanes -> Seq(Particles)]
      /\ pc[t] = "send_bulk" /\ pc'[t] = "clear" /\ local'[t] = <<>> /\ t \in Producers
      /\ UNCHANGED <<pool, slot, bulk, info>>
      /\ \/ ptoc' = [ptoc EXCEPT ![t] = @ \o local[t]] /\ leaked' = leaked
         \/ leaked' = leaked \cup F /\ ptoc' = ptoc
  BY DEF EnqueueBulk, Inv, TypeOK, AllRoles, Roles, Goto, Elems
<1>2. F \subseteq Particles /\ Elems(local[t])' = {} /\ Outgoing(t) /\ ~Outgoing(t)'
  BY <1>1, ElementOfSeq, ElemsEmpty DEF Elems, Outgoing
<1>3. \A d \in F : StageOf(d) = "filling" /\ HolderOf(d) = t
  <2> SUFFICES ASSUME NEW d \in F PROVE StageOf(d) = "filling" /\ HolderOf(d) = t
    OBVIOUS
  <2>1. Stands(d, "filling", t)
    BY <1>2, Hands DEF Stands, Fills
  <2> QED BY <1>2, <2>1 DEF Mapped
<1> HIDE DEF F
<1>4. \A u \in Threads \ {t} : \A e \in Particles :
        (Fills(u, e)' <=> Fills(u, e)) /\ (Reads(u, e)' <=> Reads(u, e))
  BY OthersKeep, HandsKeep DEF InCall
<1>5. \A e \in Particles \ F : (Fills(t, e)' <=> Fills(t, e)) /\ (Reads(t, e)' <=> Reads(t, e))
  BY <1>1, <1>2 DEF Fills, Reads, F
<1>6. CASE ptoc' = [ptoc EXCEPT ![t] = @ \o local[t]] /\ leaked' = leaked
  <2>1. Elems(ptoc'[t]) = Elems(ptoc[t]) \cup F /\ \A l \in Lanes \ {t} : ptoc'[l] = ptoc[l]
    <3>1. Elems(ptoc[t] \o local[t]) = Elems(ptoc[t]) \cup F
      BY <1>1, PlaceTypes, ElemsConcat DEF F
    <3> QED BY <1>1, <1>6, <3>1, PlaceTypes
  <2>2. InFlight' = InFlight \cup F
    BY <2>1, PlaceTypes DEF InFlight
  <2>3. Elsewhere(F)
    BY <1>1, <1>4, <1>5, <1>6, <2>2 DEF Elsewhere
  <2>4. CASE F = {}
    BY <1>1, <2>3, <2>4, NoFrameMoves DEF HandoffStep
  <2>5. CASE F # {}
    <3>1. \A d \in F : Stands(d, "sent", NoParticle)'
      BY <2>2 DEF Stands
    <3>2. Handoff!Move(F, "sent", NoParticle)
      BY <1>1, <1>2, <2>3, <2>5, <3>1, FramesMove
    <3>3. Handoff!Send(t)
      BY <1>2, <1>3, <3>2 DEF Handoff!Send, Handoff!Held
    <3> QED BY <1>1, <3>3 DEF HandoffStep, Handoff!HNext
  <2> QED BY <2>4, <2>5
<1>7. CASE leaked' = leaked \cup F /\ ptoc' = ptoc
  <2>1. Elsewhere(F)
    BY <1>1, <1>4, <1>5, <1>7 DEF Elsewhere, InFlight
  <2>2. CASE F = {}
    BY <1>1, <2>1, <2>2, NoFrameMoves DEF HandoffStep
  <2>3. CASE F # {}
    <3>1. \A d \in F : Stands(d, "lost", NoParticle)'
      BY <1>7 DEF Stands
    <3>2. Handoff!Move(F, "lost", NoParticle)
      BY <1>1, <1>2, <2>1, <2>3, <3>1, FramesMove
    <3>3. Handoff!LoseHeld(t)
      BY <1>2, <1>3, <3>2 DEF Handoff!LoseHeld, Handoff!Held
    <3> QED BY <3>3 DEF HandoffStep, Handoff!HNext, Threads
  <2> QED BY <2>2, <2>3
<1> QED BY <1>1, <1>6, <1>7

(* A client writes the frame it holds. *)
LEMMA WriteFills ==
  ASSUME Inv, Mapped, Mapped', NEW t \in Threads, NEW x \in Infos, Write(t, x)
  PROVE  HandoffStep
<1> DEFINE d == slot[t].data
<1>1. /\ slot[t] \in Carriers /\ slot[t] # Nil /\ info' = [info EXCEPT ![d] = x]
      /\ UNCHANGED <<pool, ptoc, slot, bulk, local, leaked, pc>>
  BY DEF Write, Inv, TypeOK
<1>2. d \in Particles /\ slot[t].host \in Forwarding \cup {"pool"}
  BY <1>1, DataType, HostType DEF Carriers, Forwarding
<1>3. HolderOf(d) = t
  <2>1. Stands(d, "filling", t) \/ Stands(d, "reading", t)
    BY <1>2, Hands DEF Stands, Fills, Reads
  <2> QED BY <1>2, <2>1 DEF Mapped
<1>4. Elsewhere({})
  BY <1>1, HandsKeep DEF Elsewhere, InFlight
<1>5. \A e \in Particles : StageOf(e)' = StageOf(e) /\ HolderOf(e)' = HolderOf(e)
  BY <1>4, StageStays
<1>6. Handoff!Fill(t)
  BY <1>1, <1>2, <1>3, <1>5 DEF Handoff!Fill, Handoff!Held
<1> QED BY <1>6 DEF HandoffStep, Handoff!HNext, Threads

(* The invariant the refinement rests on, and the steps. *)
HandoffInv == Inv /\ Owned /\ AllRoles /\ OneStage /\ Mapped

(* The invariant holds at first, ... *)
LEMMA HandoffInvInit == Init => HandoffInv
BY InitInv, InitOwned, AllRolesInit, OwnedOneStage, StageValue DEF HandoffInv

(* ... and always: the mapping follows from the ownership. *)
LEMMA HandoffAlways == Spec => []HandoffInv
<1>1. Init => Inv /\ Owned /\ AllRoles
  BY InitInv, InitOwned, AllRolesInit
<1>2. Inv /\ Owned /\ AllRoles /\ [Next]_vars => (Inv /\ Owned /\ AllRoles)'
  BY NextInv, NextOwned, AllRolesNext
<1>3. Inv /\ Owned /\ AllRoles => HandoffInv
  BY OwnedOneStage, StageValue DEF HandoffInv
<1> QED BY <1>1, <1>2, <1>3, PTL DEF Spec

(* The initial states of the queue are initial states of the hand-over. *)
LEMMA HandoffBegins == Init => Handoff!HInit
<1> SUFFICES ASSUME Init PROVE Handoff!HInit
  OBVIOUS
<1>1. Mapped /\ Inv
  BY HandoffInvInit DEF HandoffInv
<1>2. /\ InFlight = {} /\ leaked = {} /\ pool = InitParticles
      /\ \A t \in Threads, d \in Particles : d \notin FillingBy(t) /\ d \notin ReadingBy(t)
  <2>1. \A t \in Threads : slot[t] = Nil /\ Len(bulk[t]) = 0 /\ Elems(local[t]) = {}
    BY ElemsEmpty DEF Init
  <2>2. InFlight = {}
    BY ElemsEmpty DEF Init, InFlight
  <2> QED BY <2>1, <2>2, Hands DEF Init, Fills, Reads, CarriedIn, Nil, Forwarding
<1>3. \A d \in InitParticles : d \in Particles /\ Stands(d, "free", NoParticle)
  BY <1>2, ConstantAssumption DEF Stands
<1>4. \A d \in Particles \ InitParticles : \A s, h : ~Stands(d, s, h)
  BY <1>2 DEF Stands
<1>5. \A d \in Particles : /\ StageOf(d) = IF d \in InitParticles THEN "free" ELSE "absent"
                           /\ HolderOf(d) = NoParticle
  BY <1>1, <1>3, <1>4 DEF Mapped
<1> QED BY <1>5 DEF Handoff!HInit, Init

(* Every step of the queue is a step of the hand-over or none. *)
LEMMA HandoffSteps == HandoffInv /\ HandoffInv' /\ [Next]_vars => [Handoff!HNext]_(Handoff!hvars)
<1> SUFFICES ASSUME HandoffInv, HandoffInv', [Next]_vars PROVE HandoffStep
  BY DEF HandoffStep
<1> USE DEF HandoffInv
<1>1. CASE UNCHANGED vars
  <2>1. Elsewhere({})
    BY <1>1, HandsKeep DEF vars, Elsewhere, InFlight
  <2> QED BY <1>1, <2>1, NoFrameMoves DEF vars, HandoffStep
<1>2. CASE Next
  <2> PICK t \in Threads : InCall(t) \/ ClientStep(t)
    BY <1>2 DEF Next
  <2>1. CASE \/ P_Timeout(t) \/ P_Miss(t) \/ Malloc(t) \/ Catch(t) \/ FillDone(t) \/ C_Miss(t)
             \/ TakeBulkDone(t) \/ ClearDone(t)
    <3>1. UNCHANGED <<pool, ptoc, slot, bulk, local, leaked, info>>
      BY <2>1 DEF P_Timeout, P_Miss, Malloc, Catch, FillDone, C_Miss, TakeBulkDone, ClearDone
    <3>2. local[t] = <<>> \/ Outgoing(t)' = Outgoing(t)
      <4>1. CASE TakeBulkDone(t)
        <5>1. pc[t] = "C_getBulk" /\ pc'[t] = "resize"
          BY <4>1 DEF TakeBulkDone, Goto, Inv, TypeOK
        <5> QED BY <5>1 DEF Outgoing
      <4>2. CASE ~TakeBulkDone(t)
        <5>1. pc[t] \in P_Calls \cup {"malloc", "thrown", "fill", "C_recv_try", "C_recv_timeout", "clear"}
          BY <2>1, <4>2
          DEF P_Timeout, P_Miss, Malloc, Catch, FillDone, C_Miss, C_Returns, ClearDone, P_Calls
        <5> QED BY <5>1 DEF Inv, CallState, P_Calls
      <4> QED BY <4>1, <4>2
    <3> QED BY <3>1, <3>2, QuietSteps
  <2>2. CASE \E op \in P_Calls \cup C_Calls \cup {"clear"} : Call(t, op)
    <3>1. UNCHANGED <<pool, ptoc, slot, bulk, local, leaked, info>> /\ pc[t] = "idle"
      BY <2>2 DEF Call
    <3>2. local[t] = <<>>
      BY <3>1 DEF Inv, CallState
    <3> QED BY <3>1, <3>2, QuietSteps
  <2>3. CASE TakeFromPool(t)
    BY <2>3, TakeFromPoolMoves
  <2>4. CASE TakeFromPtoC(t) \/ TakeOneOfBulk(t)
    BY <2>4, TakeFromLaneMoves
  <2>5. CASE P_Assign(t) \/ C_Assign(t)
    BY <2>5, AssignMoves
  <2>6. CASE AssignNull(t) \/ Reset(t)
    BY <2>6, DropMoves
  <2>7. CASE FillPool(t) \/ FillFails(t) \/ MallocThrows(t)
    BY <2>7, FillMoves
  <2>8. CASE EnqueueBulk(t)
    BY <2>8, EnqueueBulkMoves
  <2>9. CASE ShrinkBulk(t) \/ ClearBulk(t)
    BY <2>9, BulkDropMoves
  <2>10. CASE PadBulk(t)
    BY <2>10, PadMoves
  <2>11. CASE AssignBulk(t)
    BY <2>11, BulkAssignMoves
  <2>12. CASE Stash(t)
    BY <2>12, StashMoves
  <2>13. CASE P_SendBulk(t)
    BY <2>13, SendBulkMoves
  <2>14. CASE \E y \in Infos : Write(t, y)
    BY <2>14, WriteFills
  <2> QED
    BY <2>1, <2>2, <2>3, <2>4, <2>5, <2>6, <2>7, <2>8, <2>9, <2>10, <2>11, <2>12, <2>13, <2>14
    DEF InCall, ClientStep
<1> QED BY <1>1, <1>2

(* simpleQ.h hands every frame over as FrameHandoff promises, whatever the *)
(* threads do: acquired from the pool by one producer, filled, sent,       *)
(* received by one consumer, read and recycled; a frame is lost only when  *)
(* memory is short.                                                        *)
THEOREM HandoffImplemented == Spec => HandsOver
<1> QED BY HandoffBegins, HandoffSteps, HandoffAlways, PTL DEF Spec, HandsOver, Handoff!HSpec

===============================================================================
