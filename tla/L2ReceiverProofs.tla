--------------------------- MODULE L2ReceiverProofs ---------------------------
(***************************************************************************)
(* Theorems about the level-2 receiver for any messages, commands, batch   *)
(* and number of starts: the receiver thread reads and closes its own      *)
(* socket only, and it is closed when stop() returns; the number of codes  *)
(* and the counts in a report are the real ones.                           *)
(***************************************************************************)
EXTENDS L2Receiver, FiniteSetTheorems, SequenceTheorems, TLAPS

Labels == {"none", "recv", "parse", "report", "cmds", "check", "close", "final", "ended"}

(* There is a thread as long as its handle is set; and it has the socket   *)
(* opened last, which it closes itself.                                    *)
SocketInv ==
  /\ ctl \in {"idle", "joining"} /\ thread \in BOOLEAN /\ pc \in Labels
  /\ thread <=> pc # "none"
  /\ ctl = "joining" => thread
  /\ thread => fd = starts
  /\ Reading => fd \in open /\ (group = "multicast" /\ viaNic => route)
  /\ pc \in {"final", "ended"} => fd \notin open

LEMMA SocketInit == Init => SocketInv
BY DEF Init, SocketInv, Reading, Labels

LEMMA ControlInv ==
  ASSUME SocketInv, Control
  PROVE  SocketInv'
<1> USE DEF SocketInv, Reading, Labels, MayStart
<1>1. CASE StartBindFails
  BY <1>1 DEF StartBindFails
<1>2. CASE StartRouteFails
  BY <1>2 DEF StartRouteFails, OpenSocket
<1>3. ASSUME NEW nic \in BOOLEAN, StartJoinFails(nic) PROVE SocketInv'
  BY <1>3 DEF StartJoinFails, OpenSocket
<1>4. ASSUME NEW nic \in BOOLEAN, NEW kind \in {"multicast", "other"}, StartWorks(kind, nic)
      PROVE  SocketInv'
  BY <1>4 DEF StartWorks, OpenSocket
<1>5. CASE StopCalled
  BY <1>5 DEF StopCalled
<1>6. CASE Joined
  BY <1>6 DEF Joined
<1> QED BY <1>1, <1>2, <1>3, <1>4, <1>5, <1>6 DEF Control

LEMMA ReceiverInv ==
  ASSUME SocketInv, Receiver
  PROVE  SocketInv'
<1> USE DEF SocketInv, Reading, Labels, ctlVars
<1>1. CASE RecvFrame \/ RecvEmpty \/ RecvNothing
  BY <1>1 DEF RecvFrame, RecvEmpty, RecvNothing, WhenEmpty
<1>2. CASE ParseMessage
  BY <1>2 DEF ParseMessage, AfterParse
<1>3. CASE ParseHeartbeat
  BY <1>3 DEF ParseHeartbeat, AfterParse
<1>4. CASE ParseUnknown
  BY <1>4 DEF ParseUnknown
<1>5. CASE ReportIfDue \/ ProcCmdQ \/ NoCmd
  BY <1>5 DEF ReportIfDue, ProcCmdQ, NoCmd
<1>6. CASE CheckStop
  BY <1>6 DEF CheckStop, UnlessStopping
<1>7. CASE CloseSocket
  BY <1>7 DEF CloseSocket, Closed
<1>8. CASE FinalReport
  BY <1>8 DEF FinalReport
<1> QED BY <1>1, <1>2, <1>3, <1>4, <1>5, <1>6, <1>7, <1>8 DEF Receiver

LEMMA WorldInv ==
  ASSUME SocketInv, World \/ UNCHANGED lvars
  PROVE  SocketInv'
<1>1. UNCHANGED <<ctlVars, open, pc>>
  BY DEF World, Arrive, Elapse, Command, AppTakes, lvars
<1> QED BY <1>1 DEF ctlVars, SocketInv, Reading

LEMMA SocketNext == SocketInv /\ [Next]_lvars => SocketInv'
BY ControlInv, ReceiverInv, WorldInv DEF Next

(* No stop and no further start takes the socket away from the thread that *)
(* reads from it, and the route of its group stays as long as it reads.    *)
THEOREM ThreadsOwnTheirSocket == Spec => []ThreadOwnsSocket
<1>1. SocketInv => ThreadOwnsSocket
  BY DEF SocketInv, ThreadOwnsSocket, Reading, Labels
<1> QED BY SocketInit, SocketNext, <1>1, PTL DEF Spec

(* When stop() returns, the thread's socket is closed and its number       *)
(* forgotten.                                                              *)
THEOREM StopCloses == Spec => StopClosesThreadSocket
<1>1. SocketInv /\ [Next]_lvars => [ctl = "joining" /\ ctl' = "idle" => fd \notin open /\ fd' = 0]_lvars
  <2> SUFFICES ASSUME SocketInv, Next, ctl = "joining", ctl' = "idle"
               PROVE  fd \notin open /\ fd' = 0
    BY DEF lvars, ctlVars
  <2>1. CASE Joined
    BY <2>1 DEF Joined, SocketInv
  <2>2. CASE Control /\ ~Joined
    BY <2>2 DEF Control, StartBindFails, StartRouteFails, StartJoinFails, StartWorks, MayStart, StopCalled
  <2>3. CASE Receiver
    BY <2>3
    DEF Receiver, RecvFrame, RecvEmpty, RecvNothing, ParseMessage, ParseHeartbeat, ParseUnknown,
        ReportIfDue, ProcCmdQ, NoCmd, CheckStop, CloseSocket, FinalReport, ctlVars
  <2>4. CASE World
    BY <2>4 DEF World, Arrive, Elapse, Command, AppTakes, ctlVars
  <2> QED BY <2>1, <2>2, <2>3, <2>4 DEF Next
<1> QED BY SocketInit, SocketNext, <1>1, PTL DEF Spec, StopClosesThreadSocket

-----------------------------------------------------------------------------
(* The number of codes in _stats.  What the rest of the record is matters  *)
(* only for its being a record.                                            *)
Stats(codes) ==
  [frames : Nat, recv : [Counted -> Nat], live : [Counted -> Nat], heartbeat : Nat, unknown : Nat,
   codes : {codes}]
StatsInv == stats \in Stats(stats.codes) /\ CodeCountIsReal

LEMMA BumpType == \A k \in Nat : Bump(k) \in Nat
BY ReceiverAssumption DEF Bump

LEMMA StatsInit == Init => StatsInv
BY DEF Init, StatsInv, Stats, NoStats, Zero, CodeCountIsReal

(* Counting something leaves the number of codes alone. *)
LEMMA CountedInv ==
  ASSUME StatsInv, UNCHANGED <<live, applied>>, stats' \in Stats(stats.codes)
  PROVE  StatsInv'
BY DEF StatsInv, Stats, CodeCountIsReal

LEMMA StatsReceiverInv ==
  ASSUME StatsInv, Receiver
  PROVE  StatsInv'
<1> DEFINE c == stats.codes
<1> USE BumpType DEF Stats
<1>0. stats \in Stats(c)
  BY DEF StatsInv
<1>1. CASE UNCHANGED <<stats, live, applied>>
  BY <1>1 DEF StatsInv, CodeCountIsReal
<1>2. CASE RecvFrame
  <2>1. stats' \in Stats(c) /\ UNCHANGED <<live, applied>>
    BY <1>0, <1>2 DEF RecvFrame
  <2> QED BY <2>1, CountedInv
<1>3. CASE ParseMessage
  <2> DEFINE y == Head(rest).type
             R == [stats EXCEPT !.recv[y] = Bump(@)]
  <2>1. R \in Stats(c)
    <3>1. [stats.recv EXCEPT ![y] = Bump(@)] \in [Counted -> Nat]
      BY <1>0
    <3> QED BY <1>0, <3>1
  <2>2. [stats EXCEPT !.recv[y] = Bump(@), !.live[y] = Bump(@)] \in Stats(c)
    <3>1. [R.live EXCEPT ![y] = Bump(@)] \in [Counted -> Nat]
      <4> HIDE DEF R
      <4> QED BY <2>1
    <3>2. [R EXCEPT !.live[y] = Bump(@)] \in Stats(c)
      <4> HIDE DEF R
      <4> QED BY <2>1, <3>1
    <3> QED BY <3>2
  <2>3. stats' \in Stats(c) /\ UNCHANGED <<live, applied>>
    BY <1>3, <2>1, <2>2 DEF ParseMessage
  <2> QED BY <2>3, CountedInv
<1>4. CASE ParseHeartbeat
  <2>1. stats' \in Stats(c) /\ UNCHANGED <<live, applied>>
    BY <1>0, <1>4 DEF ParseHeartbeat
  <2> QED BY <2>1, CountedInv
<1>5. CASE ParseUnknown
  <2>1. stats' \in Stats(c) /\ UNCHANGED <<live, applied>>
    BY <1>0, <1>5 DEF ParseUnknown
  <2> QED BY <2>1, CountedInv
<1>6. CASE ProcCmdQ
  <2>1. stats' = [stats EXCEPT !.codes = Cardinality(live')]
    BY <1>6 DEF ProcCmdQ, Codes
  <2>2. stats' \in Stats(Cardinality(live')) /\ stats'.codes = Cardinality(live')
    BY <1>0, <2>1
  <2>3. applied'
    BY <1>6 DEF ProcCmdQ
  <2> QED BY <2>2, <2>3 DEF StatsInv, CodeCountIsReal
<1> QED
  BY <1>1, <1>2, <1>3, <1>4, <1>5, <1>6
  DEF Receiver, RecvEmpty, RecvNothing, ReportIfDue, NoCmd, CheckStop, CloseSocket, FinalReport, loopVars

LEMMA StatsNext == StatsInv /\ [Next]_lvars => StatsInv'
<1> SUFFICES ASSUME StatsInv, [Next]_lvars PROVE StatsInv'
  OBVIOUS
<1>1. CASE UNCHANGED <<stats, live, applied>>
  BY <1>1 DEF StatsInv, Stats, CodeCountIsReal
<1>2. CASE stats' = NoStats /\ ~applied'
  BY <1>2 DEF StatsInv, Stats, NoStats, Zero, CodeCountIsReal
<1>3. CASE Control
  BY <1>1, <1>2, <1>3
  DEF Control, StartBindFails, StartRouteFails, StartJoinFails, StartWorks, OpenSocket, ClearedStats,
      StopCalled, Joined, loopVars
<1>4. CASE World \/ UNCHANGED lvars
  BY <1>1, <1>4 DEF World, Arrive, Elapse, Command, AppTakes, loopVars, lvars
<1> QED BY <1>3, <1>4, StatsReceiverInv DEF Next

(* From the first command of a run on the number of codes in a report is   *)
(* the number of codes forwarded, whatever commands there were; before     *)
(* that it is 0.                                                           *)
THEOREM CodeCounts == Spec => []CodeCountIsReal
<1>1. StatsInv => CodeCountIsReal
  BY DEF StatsInv
<1> QED BY StatsInit, StatsNext, <1>1, PTL DEF Spec

-----------------------------------------------------------------------------
(* Every variable keeps its type. *)

(* What is left of a datagram is a datagram. *)
LEMMA FrameTail ==
  ASSUME NEW f \in Frames, f # <<>>
  PROVE  Head(f) \in Messages /\ Tail(f) \in Frames
<1>1. PICK k \in 0..MaxMessages : f \in [1..k -> Messages]
  BY DEF Frames
<1>2. k \in Nat /\ k # 0 /\ f \in Seq(Messages) /\ Len(f) = k
  BY <1>1, ReceiverAssumption
<1>3. k - 1 \in 0..MaxMessages /\ Tail(f) \in [1..(k - 1) -> Messages]
  <2>1. k - 1 \in 0..MaxMessages
    BY <1>2, ReceiverAssumption
  <2>2. Tail(f) \in Seq(Messages) /\ Len(Tail(f)) = k - 1
    BY <1>2
  <2> DEFINE g == Tail(f)
  <2> HIDE DEF g
  <2>3. g \in [1..Len(g) -> Messages]
    BY <2>2, LenProperties DEF g
  <2> QED BY <2>1, <2>2, <2>3 DEF g
<1>4. Tail(f) \in Frames
  BY <1>3 DEF Frames
<1> QED BY <1>2, <1>4

LEMMA EmptyFrame == <<>> \in Frames
<1>1. <<>> \in [1..0 -> Messages] /\ 0 \in 0..MaxMessages
  BY ReceiverAssumption
<1> QED BY <1>1 DEF Frames

LEMMA TypeInit == Init => TypeOK
<1> SUFFICES ASSUME Init PROVE TypeOK
  OBVIOUS
<1>1. sock \in Seq(Frames) /\ rest \in Frames /\ cmdQ \in Seq(Commands) /\ (pc = "parse" <=> rest # <<>>)
  BY EmptyFrame DEF Init
<1>2. fd \in 0..MaxStarts /\ starts \in 0..MaxStarts
  BY ReceiverAssumption DEF Init
<1> QED BY <1>1, <1>2 DEF Init, TypeOK

LEMMA TypeControl ==
  ASSUME TypeOK, SocketInv, Control
  PROVE  TypeOK'
<1> USE ReceiverAssumption DEF TypeOK, MayStart
<1>1. CASE StartBindFails
  <2>1. applied' \in BOOLEAN
    BY <1>1 DEF StartBindFails
  <2>2. /\ UNCHANGED <<ctl, thread, stopping, starts, route, viaNic, open, sock, pc, rest, live, due, cmdQ>>
        /\ fd' = 0 /\ group' = "none"
    BY <1>1 DEF StartBindFails, envVars
  <2> QED BY <2>1, <2>2
<1>2. ASSUME OpenSocket
      PROVE  /\ starts' \in 0..MaxStarts /\ fd' \in 0..MaxStarts /\ open' \subseteq Runs
             /\ sock' \in Seq(Frames) /\ applied' \in BOOLEAN
  <2>1. starts' \in 0..MaxStarts /\ fd' \in 0..MaxStarts /\ open' \subseteq Runs /\ sock' \in Seq(Frames)
    BY <1>2 DEF OpenSocket, Runs
  <2>2. applied' \in BOOLEAN
    BY <1>2 DEF OpenSocket
  <2> QED BY <2>1, <2>2
<1>3. CASE StartRouteFails
  <2>1. /\ UNCHANGED <<ctl, thread, stopping, route, viaNic, pc, rest, live, due, cmdQ>>
        /\ OpenSocket /\ group' = "none"
    BY <1>3 DEF StartRouteFails, envVars
  <2> QED BY <1>2, <2>1
<1>4. ASSUME NEW nic \in BOOLEAN, StartJoinFails(nic) PROVE TypeOK'
  <2>1. /\ UNCHANGED <<ctl, thread, stopping, pc, rest, live, due, cmdQ>>
        /\ OpenSocket /\ group' = "multicast" /\ viaNic' \in BOOLEAN /\ route' \in BOOLEAN
    BY <1>4 DEF StartJoinFails, envVars
  <2> QED BY <1>2, <2>1
<1>5. ASSUME NEW nic \in BOOLEAN, NEW kind \in {"multicast", "other"}, StartWorks(kind, nic)
      PROVE  TypeOK'
  <2>1. /\ UNCHANGED <<ctl, stopping, rest, live, due, cmdQ>>
        /\ OpenSocket /\ group' \in {"multicast", "other"} /\ viaNic' \in BOOLEAN /\ route' \in BOOLEAN
        /\ thread' = TRUE /\ pc' = "recv" /\ pc # "parse"
    BY <1>5 DEF StartWorks, envVars, SocketInv
  <2> QED BY <1>2, <2>1
<1>6. CASE StopCalled
  BY <1>6 DEF StopCalled, envVars, loopVars
<1>7. CASE Joined
  <2>1. route' \in BOOLEAN
    BY <1>7 DEF Joined
  <2>2. fd' \in 0..MaxStarts /\ (pc' = "parse" <=> rest' # <<>>)
    BY <1>7 DEF Joined, loopVars
  <2>3. sock' \in Seq(Frames) /\ rest' \in Frames /\ cmdQ' \in Seq(Commands)
    BY <1>7 DEF Joined, loopVars, envVars
  <2> QED BY <1>7, <2>1, <2>2, <2>3 DEF Joined, envVars, loopVars
<1> QED BY <1>1, <1>3, <1>4, <1>5, <1>6, <1>7 DEF Control

LEMMA TypeReceiver ==
  ASSUME TypeOK, Receiver
  PROVE  TypeOK'
<1> USE ReceiverAssumption DEF TypeOK, ctlVars, envVars, loopVars
<1>0. sock # <<>> => Head(sock) \in Frames /\ Tail(sock) \in Seq(Frames)
  OBVIOUS
<1>1. rest # <<>> => Tail(rest) \in Frames
  BY FrameTail
<1>2. CASE RecvFrame
  BY <1>0, <1>2 DEF RecvFrame
<1>3. CASE RecvEmpty \/ RecvNothing
  BY <1>0, <1>3 DEF RecvEmpty, RecvNothing, WhenEmpty
<1>4. CASE ParseMessage
  BY <1>1, <1>4 DEF ParseMessage, AfterParse
<1>5. CASE ParseHeartbeat
  BY <1>1, <1>5 DEF ParseHeartbeat, AfterParse
<1>6. CASE ParseUnknown
  BY <1>6, EmptyFrame DEF ParseUnknown
<1>7. CASE ReportIfDue \/ NoCmd \/ CheckStop \/ FinalReport
  <2>1. CASE ReportIfDue \/ FinalReport
    BY <1>7, <2>1 DEF ReportIfDue, FinalReport
  <2>2. CASE NoCmd \/ CheckStop
    BY <1>7, <2>2 DEF NoCmd, CheckStop, UnlessStopping
  <2> QED BY <1>7, <2>1, <2>2
<1>8. CASE ProcCmdQ
  <2> DEFINE k == IF Len(cmdQ) < CmdBatch THEN Len(cmdQ) ELSE CmdBatch
  <2>1. k \in 0..Len(cmdQ)
    OBVIOUS
  <2>2. SubSeq(cmdQ, k + 1, Len(cmdQ)) \in Seq(Commands)
    BY <2>1
  <2>3. cmdQ' = SubSeq(cmdQ, k + 1, Len(cmdQ))
    BY <1>8 DEF ProcCmdQ
  <2>4. live' \subseteq {c.code : c \in Commands}
    BY <1>8 DEF ProcCmdQ
  <2> HIDE DEF k
  <2> QED BY <1>8, <2>2, <2>3, <2>4 DEF ProcCmdQ
<1>9. CASE CloseSocket
  BY <1>9 DEF CloseSocket, Closed
<1> QED BY <1>2, <1>3, <1>4, <1>5, <1>6, <1>7, <1>8, <1>9 DEF Receiver

LEMMA TypeWorld ==
  ASSUME TypeOK, World \/ UNCHANGED lvars
  PROVE  TypeOK'
<1> USE DEF TypeOK, ctlVars, envVars, loopVars
<1>1. ASSUME NEW f \in Frames, Arrive(f) PROVE TypeOK'
  BY <1>1 DEF Arrive
<1>2. CASE Elapse
  BY <1>2 DEF Elapse
<1>3. ASSUME NEW c \in Commands, Command(c) PROVE TypeOK'
  BY <1>3 DEF Command
<1>4. ASSUME NEW k \in Runs, AppTakes(k) PROVE TypeOK'
  BY <1>4 DEF AppTakes
<1>5. CASE UNCHANGED lvars
  BY <1>5 DEF lvars
<1> QED BY <1>1, <1>2, <1>3, <1>4, <1>5 DEF World

LEMMA TypeNext == TypeOK /\ SocketInv /\ [Next]_lvars => TypeOK'
BY TypeControl, TypeReceiver, TypeWorld DEF Next

(* Every variable that has a type keeps it, in particular a datagram being *)
(* parsed stays one of the datagrams the bounds admit, and the thread is   *)
(* in the inner loop of recv_thread exactly while some of it is left.      *)
THEOREM TypeCorrect == Spec => []TypeOK
<1>1. Spec => [](TypeOK /\ SocketInv)
  <2>1. Init => TypeOK /\ SocketInv
    BY TypeInit, SocketInit
  <2>2. TypeOK /\ SocketInv /\ [Next]_lvars => TypeOK' /\ SocketInv'
    BY TypeNext, SocketNext
  <2> QED BY <2>1, <2>2, PTL DEF Spec
<1> QED BY <1>1, PTL

-----------------------------------------------------------------------------
(* Arithmetic modulo w: the counters of the reports and the totals of the  *)
(* application wrap around, and stay congruent.                            *)

LEMMA MulAtLeast ==
  ASSUME NEW w \in Nat \ {0}, NEW d \in Int, d > 0
  PROVE  w * d >= w
BY SMT

LEMMA MulMinus ==
  ASSUME NEW w \in Int, NEW d \in Int, NEW e \in Int
  PROVE  w * (d - e) = w*d - w*e
BY SMT

LEMMA DivMod ==
  ASSUME NEW w \in Nat \ {0}, NEW a \in Int
  PROVE  a \div w \in Int /\ a % w \in 0..(w-1) /\ a = w * (a \div w) + (a % w)
BY SMT

LEMMA ModUnique ==
  ASSUME NEW w \in Nat \ {0}, NEW q \in Int, NEW r \in 0..(w-1), NEW a \in Int, a = w * q + r
  PROVE  a % w = r
<1> DEFINE p == a \div w
           s == a % w
           d == q - p
           e == p - q
<1>1. p \in Int /\ s \in 0..(w-1) /\ a = w * p + s
  BY DivMod
<1>2. w * d = w * q - w * p /\ w * e = w * p - w * q
  <2> HIDE DEF p
  <2> QED BY <1>1, MulMinus
<1> HIDE DEF p, s
<1>3. CASE q > p
  <2>1. d \in Int /\ d > 0
    BY <1>1, <1>3
  <2>2. w * d >= w
    BY <2>1, MulAtLeast
  <2> HIDE DEF d
  <2> QED BY <1>1, <1>2, <2>1, <2>2
<1>4. CASE p > q
  <2>1. e \in Int /\ e > 0
    BY <1>1, <1>4
  <2>2. w * e >= w
    BY <2>1, MulAtLeast
  <2> HIDE DEF e
  <2> QED BY <1>1, <1>2, <2>1, <2>2
<1>5. CASE p = q
  <2>1. s = r
    BY <1>1, <1>5
  <2> QED BY <2>1 DEF s
<1> QED BY <1>1, <1>3, <1>4, <1>5

LEMMA ModAdd ==
  ASSUME NEW w \in Nat \ {0}, NEW a \in Int
  PROVE  (a + w) % w = a % w
<1> DEFINE p == a \div w
           s == a % w
<1>1. p \in Int /\ s \in 0..(w-1) /\ a = w * p + s
  BY DivMod
<1>2. w * (p + 1) = w * p + w
  <2> HIDE DEF p
  <2> QED BY <1>1
<1> HIDE DEF p, s
<1>3. (a + w) % w = s
  BY <1>1, <1>2, ModUnique
<1> QED BY <1>3 DEF s

LEMMA ModSmall ==
  ASSUME NEW w \in Nat \ {0}, NEW a \in 0..(w-1)
  PROVE  a % w = a
BY SMT

LEMMA ModSucc ==
  ASSUME NEW w \in Nat \ {0}, NEW a \in Int
  PROVE  ((a % w) + 1) % w = (a+1) % w
<1> DEFINE p == a \div w
           s == a % w
<1>1. p \in Int /\ s \in 0..(w-1) /\ a = w * p + s
  BY DivMod
<1> HIDE DEF p, s
<1>2. CASE s + 1 < w
  <2>1. (a + 1) % w = s + 1
    BY <1>1, <1>2, ModUnique
  <2> QED BY <1>1, <1>2, <2>1, ModSmall DEF s
<1>3. CASE s + 1 = w
  <2>1. w * (p + 1) = w * p + w
    BY <1>1
  <2>2. (a + 1) % w = 0
    BY <1>1, <1>3, <2>1, ModUnique
  <2>3. (0 + w) % w = 0 % w /\ 0 % w = 0
    BY ModAdd, ModSmall
  <2>4. s + 1 = 0 + w
    BY <1>1, <1>3
  <2>5. (s + 1) % w = 0
    BY <2>3, <2>4
  <2> QED BY <2>2, <2>5 DEF s
<1> QED BY <1>1, <1>2, <1>3

LEMMA ModShift ==
  ASSUME NEW w \in Nat \ {0}, NEW a \in 0..(w-1), NEW c \in Nat
  PROVE  (((a+1) % w) + c) % w = (a+c+1) % w
<1>1. CASE a+1 < w
  <2>1. (a + 1) % w = a + 1
    BY <1>1, ModSmall
  <2>2. (a + 1) + c = a + c + 1
    OBVIOUS
  <2> QED BY <2>1, <2>2
<1>2. CASE a+1 = w
  <2>1. (0 + w) % w = 0 % w /\ 0 % w = 0
    BY ModAdd, ModSmall
  <2>2. a + 1 = 0 + w /\ a + c + 1 = c + w /\ 0 + c = c
    BY <1>2
  <2>3. c \in Int => (c + w) % w = c % w
    BY ModAdd
  <2> QED BY <2>1, <2>2, <2>3
<1> QED BY <1>1,<1>2

-----------------------------------------------------------------------------
(* Counting the market data frames in a lane. *)

(* What a lane holds: market data frames of a counted type, and reports,   *)
(* whose number of codes is that of some set of codes.                     *)
AllCodes == {c.code : c \in Commands}
CodeNumbers == {0} \cup {Cardinality(L) : L \in SUBSET AllCodes}
DataFrames ==
  [kind : {"market"}, type : Counted] \cup [kind : {"stats"}, stats : UNION {Stats(c) : c \in CodeNumbers}]

(* MarketBefore for any lane q, and the counts n that are right for what   *)
(* lies before position i of q when t is what was taken from it.           *)
IsSent(f, y) == f.kind = "market" /\ f.type = y
Sent(q, i, y) == {j \in 1..(i - 1) : IsSent(q[j], y)}
NumSent(q, i, y) == Cardinality(Sent(q, i, y))
Exact(n, q, t, i) == \A y \in Counted : n[y] = (t[y] + NumSent(q, i, y)) % Wrap
LaneExact(q, t) == \A i \in 1..Len(q) : q[i].kind = "stats" => Exact(q[i].stats.live, q, t, i)

Lanes == Seq(DataFrames)
Totals == [Counted -> 0..(Wrap - 1)]

LEMMA SentType ==
  ASSUME NEW q \in Lanes, NEW i \in Nat, NEW y
  PROVE  IsFiniteSet(Sent(q, i, y)) /\ NumSent(q, i, y) \in Nat
<1>1. IsFiniteSet(1..(i - 1))
  BY FS_Interval
<1>2. Sent(q, i, y) \in SUBSET (1..(i - 1))
  BY DEF Sent
<1> QED BY <1>1, <1>2, FS_Subset, FS_CardinalityType DEF NumSent

(* A frame put at the end is counted behind it and nowhere else. *)
LEMMA SentAppend ==
  ASSUME NEW q \in Lanes, NEW f \in DataFrames, NEW y
  PROVE  /\ \A i \in 1..(Len(q) + 1) : NumSent(Append(q, f), i, y) = NumSent(q, i, y)
         /\ NumSent(Append(q, f), Len(q) + 2, y)
              = NumSent(q, Len(q) + 1, y) + (IF IsSent(f, y) THEN 1 ELSE 0)
<1> DEFINE n == Len(q)
           p == Append(q, f)
<1>0. n \in Nat /\ Len(p) = n + 1 /\ p[n + 1] = f /\ \A j \in 1..n : p[j] = q[j]
  BY DEF Lanes
<1> HIDE DEF p, n
<1>1. ASSUME NEW i \in 1..(n + 1)
      PROVE  Sent(p, i, y) = Sent(q, i, y)
  BY <1>0, <1>1 DEF Sent
<1>2. Sent(p, n + 2, y) = Sent(p, n + 1, y) \cup (IF IsSent(f, y) THEN {n + 1} ELSE {})
  <2>1. 1..(n + 2 - 1) = (1..(n + 1 - 1)) \cup {n + 1}
    BY <1>0
  <2> QED BY <1>0, <2>1 DEF Sent
<1>3. IsFiniteSet(Sent(q, n + 1, y)) /\ NumSent(q, n + 1, y) \in Nat
  BY <1>0, SentType
<1>4. n + 1 \notin Sent(q, n + 1, y)
  BY <1>0 DEF Sent
<1>5. NumSent(p, n + 2, y) = NumSent(q, n + 1, y) + (IF IsSent(f, y) THEN 1 ELSE 0)
  <2>1. Sent(p, n + 1, y) = Sent(q, n + 1, y)
    BY <1>0, <1>1
  <2>2. CASE IsSent(f, y)
    BY <1>2, <1>3, <1>4, <2>1, <2>2, FS_AddElement DEF NumSent
  <2>3. CASE ~IsSent(f, y)
    <3>1. Sent(p, n + 2, y) = Sent(q, n + 1, y)
      BY <1>2, <2>1, <2>3
    <3> QED BY <1>3, <2>3, <3>1 DEF NumSent
  <2> QED BY <2>2, <2>3
<1> QED BY <1>1, <1>5 DEF NumSent, n, p

(* Taking the head moves each position one down and its frame out of the   *)
(* count.                                                                  *)
LEMMA SentTail ==
  ASSUME NEW q \in Lanes, q # <<>>, NEW i \in 1..Len(q), NEW y
  PROVE  NumSent(q, i + 1, y) = NumSent(Tail(q), i, y) + (IF IsSent(Head(q), y) THEN 1 ELSE 0)
<1> DEFINE p == Tail(q)
           A == Sent(p, i, y)
           B == {j \in 2..i : IsSent(q[j], y)}
<1>0. /\ i \in Nat /\ p \in Lanes /\ Len(p) = Len(q) - 1
      /\ Head(q) = q[1] /\ \A j \in 1..Len(p) : p[j] = q[j + 1]
  BY DEF Lanes
<1>1. IsFiniteSet(A) /\ Cardinality(A) \in Nat /\ Cardinality(A) = NumSent(p, i, y)
  <2> HIDE DEF p
  <2> QED BY <1>0, SentType DEF NumSent
<1>2. IsFiniteSet(B) /\ Cardinality(B) = Cardinality(A)
  <2> DEFINE f == [j \in A |-> j + 1]
  <2> HIDE DEF p
  <2>0. ASSUME NEW j PROVE j \in A <=> j \in 1..(i-1) /\ IsSent(p[j], y)
    BY DEF Sent
  <2>1. \A j \in A : j + 1 \in B
    BY <1>0, <2>0
  <2>2. \A j \in B : j - 1 \in A /\ (j - 1) + 1 = j
    BY <1>0, <2>0
  <2>3. \A j, k \in A : f[j] = f[k] => j = k
    BY <2>0
  <2> HIDE DEF A, B
  <2>4. f \in Bijection(A, B)
    BY <2>1, <2>2, <2>3 DEF Bijection, Injection, Surjection, IsInjective
  <2>5. ExistsBijection(A, B)
    BY <2>4 DEF ExistsBijection
  <2> QED BY <1>1, <2>5, FS_Bijection
<1>3. Sent(q, i + 1, y) = B \cup (IF IsSent(Head(q), y) THEN {1} ELSE {})
  <2> HIDE DEF p
  <2>1. 1..(i + 1 - 1) = (2..i) \cup {1}
    BY <1>0
  <2> QED BY <1>0, <2>1 DEF Sent
<1>4. 1 \notin B
  OBVIOUS
<1> HIDE DEF A, B, p
<1>5. CASE IsSent(Head(q), y)
  BY <1>1, <1>2, <1>3, <1>4, <1>5, FS_AddElement DEF NumSent, p
<1>6. CASE ~IsSent(Head(q), y)
  BY <1>1, <1>2, <1>3, <1>6 DEF NumSent, p
<1> QED BY <1>5, <1>6

LEMMA BumpRange == \A k \in Nat : Bump(k) \in 0..(Wrap - 1)
BY ReceiverAssumption DEF Bump

(* A report put at the end of an exact lane has to be exact there. *)
LEMMA LaneAppend ==
  ASSUME NEW q \in Lanes, NEW t \in Totals, NEW f \in DataFrames, LaneExact(q, t),
         f.kind = "stats" => Exact(f.stats.live, q, t, Len(q) + 1)
  PROVE  Append(q, f) \in Lanes /\ LaneExact(Append(q, f), t)
<1> DEFINE p == Append(q, f)
<1>1. /\ p \in Lanes /\ Len(q) \in Nat /\ Len(p) = Len(q) + 1
      /\ p[Len(q) + 1] = f /\ \A i \in 1..Len(q) : p[i] = q[i]
  BY DEF Lanes
<1>2. \A i \in 1..(Len(q) + 1) : \A y \in Counted : NumSent(p, i, y) = NumSent(q, i, y)
  BY SentAppend
<1> HIDE DEF p
<1>3. ASSUME NEW i \in 1..Len(p), p[i].kind = "stats"
      PROVE  Exact(p[i].stats.live, p, t, i)
  <2>1. Exact(p[i].stats.live, q, t, i)
    <3>1. CASE i = Len(q) + 1
      BY <1>1, <1>3, <3>1
    <3>2. CASE i \in 1..Len(q)
      BY <1>1, <1>3, <3>2 DEF LaneExact
    <3> QED BY <1>1, <3>1, <3>2
  <2> QED BY <1>1, <1>2, <2>1 DEF Exact
<1>4. LaneExact(p, t)
  BY <1>3 DEF LaneExact
<1> QED BY <1>1, <1>4 DEF p

(* What AppTakes makes of the totals when it takes the head of q. *)
Total(q, t) == IF Head(q).kind = "market" THEN [t EXCEPT ![Head(q).type] = Bump(@)] ELSE t

(* Counts that are right stay right when the head moves into the totals. *)
LEMMA ExactTail ==
  ASSUME NEW q \in Lanes, q # <<>>, NEW t \in Totals, NEW i \in 1..Len(q), NEW n, Exact(n, q, t, i + 1)
  PROVE  Exact(n, Tail(q), Total(q, t), i)
<1> DEFINE u == Total(q, t)
           p == Tail(q)
<1> SUFFICES ASSUME NEW y \in Counted
             PROVE  n[y] = (u[y] + NumSent(p, i, y)) % Wrap
  BY DEF Exact
<1>0. p \in Lanes /\ Head(q) \in DataFrames /\ i \in Nat
  BY DEF Lanes
<1>1. NumSent(q, i + 1, y) = NumSent(p, i, y) + (IF IsSent(Head(q), y) THEN 1 ELSE 0)
  BY SentTail
<1>2. n[y] = (t[y] + NumSent(q, i + 1, y)) % Wrap /\ t[y] \in 0..(Wrap - 1)
  BY DEF Exact, Totals
<1>3. NumSent(p, i, y) \in Nat
  BY <1>0, SentType
<1> HIDE DEF p
<1>4. CASE IsSent(Head(q), y)
  <2>1. u[y] = (t[y] + 1) % Wrap
    BY <1>4 DEF IsSent, Total, Totals, Bump
  <2>2. (((t[y] + 1) % Wrap) + NumSent(p, i, y)) % Wrap = (t[y] + NumSent(p, i, y) + 1) % Wrap
    BY <1>2, <1>3, ModShift, ReceiverAssumption
  <2>3. t[y] + NumSent(q, i + 1, y) = t[y] + NumSent(p, i, y) + 1
    BY <1>1, <1>2, <1>3, <1>4, ReceiverAssumption
  <2> QED BY <1>2, <2>1, <2>2, <2>3
<1>5. CASE ~IsSent(Head(q), y)
  <2>1. u[y] = t[y]
    BY <1>5 DEF IsSent, Total, Totals
  <2>2. NumSent(q, i + 1, y) = NumSent(p, i, y)
    BY <1>1, <1>3, <1>5
  <2> QED BY <1>2, <2>1, <2>2
<1> QED BY <1>4, <1>5

LEMMA LaneTail ==
  ASSUME NEW q \in Lanes, q # <<>>, NEW t \in Totals, LaneExact(q, t)
  PROVE  Tail(q) \in Lanes /\ Total(q, t) \in Totals /\ LaneExact(Tail(q), Total(q, t))
<1>1. /\ Tail(q) \in Lanes /\ Head(q) \in DataFrames /\ Len(q) \in Nat /\ Len(Tail(q)) = Len(q) - 1
      /\ \A i \in 1..Len(Tail(q)) : Tail(q)[i] = q[i + 1]
  BY DEF Lanes
<1>2. Total(q, t) \in Totals
  <2>1. CASE Head(q).kind = "market"
    <3>1. Head(q).type \in Counted
      BY <1>1, <2>1 DEF DataFrames
    <3>2. t[Head(q).type] \in Nat
      BY <3>1, ReceiverAssumption DEF Totals
    <3> QED BY <2>1, <3>1, <3>2, BumpRange DEF Total, Totals
  <2> QED BY <2>1 DEF Total
<1>3. ASSUME NEW i \in 1..Len(Tail(q)), Tail(q)[i].kind = "stats"
      PROVE  Exact(Tail(q)[i].stats.live, Tail(q), Total(q, t), i)
  <2>1. i + 1 \in 1..Len(q) /\ i \in 1..Len(q) /\ q[i + 1] = Tail(q)[i]
    BY <1>1
  <2>2. Exact(q[i + 1].stats.live, q, t, i + 1)
    BY <1>3, <2>1 DEF LaneExact
  <2> QED BY <2>1, <2>2, ExactTail
<1> QED BY <1>1, <1>2, <1>3 DEF LaneExact

-----------------------------------------------------------------------------
(* The invariant behind ReportsAreExact: besides what lies in the lanes,   *)
(* the counters of a running thread are exact at the end of its lane, and  *)
(* the lanes of the runs to come are empty, so that the thread of the next *)
(* start, which begins with cleared counters, is exact there too.          *)
LaneInv ==
  /\ dataQ \in [Runs -> Lanes] /\ taken \in [Runs -> Totals]
  /\ \A k \in Runs : starts < k => dataQ[k] = <<>> /\ taken[k] = Zero
  /\ thread => fd \in Runs /\ Exact(stats.live, dataQ[fd], taken[fd], Len(dataQ[fd]) + 1)
  /\ \A k \in Runs : LaneExact(dataQ[k], taken[k])

LEMMA EmptyLane == <<>> \in Lanes /\ Zero \in Totals /\ LaneExact(<<>>, Zero) /\ Exact(Zero, <<>>, Zero, 1)
<1>1. <<>> \in Lanes /\ Zero \in Totals /\ LaneExact(<<>>, Zero)
  BY ReceiverAssumption DEF Lanes, Zero, Totals, LaneExact
<1>2. \A y : NumSent(<<>>, 1, y) = 0
  <2>1. \A y : Sent(<<>>, 1, y) = {}
    BY DEF Sent
  <2> QED BY <2>1, FS_EmptySet DEF NumSent
<1>3. (0 + 0) % Wrap = 0
  BY ModSmall, ReceiverAssumption
<1> QED BY <1>1, <1>2, <1>3 DEF Exact, Zero

LEMMA LaneInit == Init => LaneInv
BY EmptyLane DEF Init, LaneInv

LEMMA LaneKept ==
  ASSUME LaneInv, UNCHANGED <<starts, fd, dataQ, taken, stats>>, thread' => thread
  PROVE  LaneInv'
BY DEF LaneInv, Exact, LaneExact

LEMMA LaneControl ==
  ASSUME TypeOK, SocketInv, LaneInv, Control
  PROVE  LaneInv'
<1> USE DEF MayStart, envVars
<1>1. ASSUME ~thread', UNCHANGED <<dataQ, taken>>, starts' \in Int, starts' >= starts
      PROVE  LaneInv'
  BY <1>1 DEF LaneInv, TypeOK, Runs
<1>2. starts \in Int
  BY DEF TypeOK
<1>3. CASE StartBindFails
  BY <1>1, <1>2, <1>3 DEF StartBindFails
<1>4. CASE StartRouteFails
  BY <1>1, <1>2, <1>4 DEF StartRouteFails, OpenSocket
<1>5. ASSUME NEW nic \in BOOLEAN, StartJoinFails(nic) PROVE LaneInv'
  BY <1>1, <1>2, <1>5 DEF StartJoinFails, OpenSocket
<1>6. ASSUME NEW nic \in BOOLEAN, NEW kind \in {"multicast", "other"}, StartWorks(kind, nic)
      PROVE  LaneInv'
  <2>1. /\ UNCHANGED <<dataQ, taken>> /\ starts' = starts + 1
        /\ fd' = starts + 1 /\ fd' \in Runs /\ stats'.live = Zero
    <3>1. starts + 1 \in Runs
      BY <1>6, ReceiverAssumption DEF StartWorks, OpenSocket, TypeOK, Runs
    <3> QED BY <1>6, <3>1 DEF StartWorks, OpenSocket, ClearedStats, NoStats
  <2>2. dataQ[fd'] = <<>> /\ taken[fd'] = Zero
    BY <1>2, <2>1 DEF LaneInv
  <2>3. Exact(stats'.live, dataQ'[fd'], taken'[fd'], Len(dataQ'[fd']) + 1)
    BY <2>1, <2>2, EmptyLane
  <2>4. \A k \in Runs : starts' < k => starts < k
    BY <1>2, <2>1 DEF Runs
  <2> QED BY <2>1, <2>3, <2>4 DEF LaneInv
<1>7. CASE StopCalled \/ Joined
  <2>1. UNCHANGED <<starts, dataQ, taken, stats>> /\ (thread' => fd' = fd /\ thread)
    BY <1>7 DEF StopCalled, Joined, loopVars
  <2> QED BY <2>1 DEF LaneInv
<1> QED BY <1>3, <1>4, <1>5, <1>6, <1>7 DEF Control

LEMMA LayoutTypes == \A m : Accepted(m) /\ m.type # "heartbeat" => m.type \in Counted
BY DEF Accepted, Layouts, Counted

(* A thread that sends a frame, and counts it if it is market data. *)
LEMMA LaneSend ==
  ASSUME TypeOK, SocketInv, LaneInv, thread, UNCHANGED <<starts, fd, taken, thread>>,
         NEW f \in DataFrames, Send(f),
         f.kind = "stats" => f.stats.live = stats.live,
         \A y \in Counted : stats'.live[y] = IF IsSent(f, y) THEN Bump(stats.live[y]) ELSE stats.live[y]
  PROVE  LaneInv'
<1> DEFINE q == dataQ[fd]
           t == taken[fd]
           p == Append(q, f)
<1>1. q \in Lanes /\ t \in Totals /\ fd \in Runs /\ LaneExact(q, t) /\ Exact(stats.live, q, t, Len(q) + 1)
  BY DEF LaneInv
<1>2. p \in Lanes /\ LaneExact(p, t)
  BY <1>1, LaneAppend
<1>3. Len(p) = Len(q) + 1 /\ Len(q) \in Nat
  BY <1>1 DEF Lanes
<1>4. Exact(stats'.live, p, t, Len(p) + 1)
  <2> SUFFICES ASSUME NEW y \in Counted
               PROVE  stats'.live[y] = (t[y] + NumSent(p, Len(p) + 1, y)) % Wrap
    BY DEF Exact
  <2>1. NumSent(p, Len(q) + 2, y) = NumSent(q, Len(q) + 1, y) + (IF IsSent(f, y) THEN 1 ELSE 0)
    BY <1>1, SentAppend
  <2>2. Len(p) + 1 = Len(q) + 2
    BY <1>3
  <2>3. stats.live[y] = (t[y] + NumSent(q, Len(q) + 1, y)) % Wrap
    BY <1>1 DEF Exact
  <2>4. NumSent(q, Len(q) + 1, y) \in Nat /\ t[y] \in Nat
    BY <1>1, <1>3, SentType, ReceiverAssumption DEF Totals
  <2> DEFINE a == t[y] + NumSent(q, Len(q) + 1, y)
  <2>5. a \in Int /\ ((a % Wrap) + 1) % Wrap = (a + 1) % Wrap
    <3>1. a \in Int
      BY <2>4
    <3> HIDE DEF a
    <3> QED BY <3>1, ModSucc, ReceiverAssumption
  <2> HIDE DEF p, q, t
  <2>6. CASE IsSent(f, y)
    <3>1. t[y] + NumSent(p, Len(p) + 1, y) = a + 1
      BY <2>1, <2>2, <2>4, <2>6
    <3> QED BY <2>3, <2>5, <2>6, <3>1 DEF Bump
  <2>7. CASE ~IsSent(f, y)
    <3>1. t[y] + NumSent(p, Len(p) + 1, y) = a
      BY <2>1, <2>2, <2>4, <2>7
    <3> QED BY <2>3, <2>7, <3>1
  <2> QED BY <2>6, <2>7
<1>5. dataQ' = [dataQ EXCEPT ![fd] = p]
  BY DEF Send
<1>6. dataQ' \in [Runs -> Lanes] /\ dataQ'[fd] = p /\ \A k \in Runs : k # fd => dataQ'[k] = dataQ[k]
  BY <1>1, <1>2, <1>5 DEF LaneInv
<1>7. \A k \in Runs : starts < k => k # fd
  BY DEF Runs, TypeOK, SocketInv
<1> HIDE DEF p, q, t
<1>8. \A k \in Runs : LaneExact(dataQ'[k], taken'[k])
  BY <1>2, <1>6 DEF LaneInv, t
<1>9. thread' => fd' \in Runs /\ Exact(stats'.live, dataQ'[fd'], taken'[fd'], Len(dataQ'[fd']) + 1)
  BY <1>1, <1>4, <1>6 DEF t
<1> QED BY <1>6, <1>7, <1>8, <1>9 DEF LaneInv

LEMMA LaneReceiver ==
  ASSUME TypeOK, SocketInv, StatsInv, LaneInv, Receiver
  PROVE  LaneInv'
<1> USE DEF ctlVars, loopVars, envVars
<1>0. stats \in Stats(stats.codes) /\ stats.codes \in CodeNumbers
  BY DEF StatsInv, CodeCountIsReal, CodeNumbers, TypeOK, AllCodes
<1>1. ASSUME UNCHANGED <<starts, fd, dataQ, taken, thread>>, stats'.live = stats.live
      PROVE  LaneInv'
  BY <1>1 DEF LaneInv, Exact, LaneExact
<1>2. CASE RecvFrame \/ RecvEmpty \/ RecvNothing \/ ParseHeartbeat \/ ParseUnknown
  BY <1>0, <1>1, <1>2 DEF RecvFrame, RecvEmpty, RecvNothing, ParseHeartbeat, ParseUnknown, Stats
<1>3. CASE ProcCmdQ \/ NoCmd \/ CheckStop \/ CloseSocket
  BY <1>0, <1>1, <1>3 DEF ProcCmdQ, NoCmd, CheckStop, CloseSocket, Stats
<1>4. CASE ParseMessage
  <2> DEFINE y0 == Head(rest).type
             f == [kind |-> "market", type |-> y0]
  <2>1. y0 \in Counted /\ f \in DataFrames /\ thread
    BY <1>4, LayoutTypes DEF ParseMessage, DataFrames, SocketInv
  <2>2. CASE CodeOf(Head(rest)) \in live
    <3>1. Send(f) /\ stats' = [stats EXCEPT !.recv[y0] = Bump(@), !.live[y0] = Bump(@)]
          /\ UNCHANGED <<starts, fd, taken, thread>>
      BY <1>4, <2>2 DEF ParseMessage
    <3>2. stats'.live = [stats.live EXCEPT ![y0] = Bump(@)] /\ stats.live \in [Counted -> Nat]
      BY <1>0, <3>1 DEF Stats
    <3>3. \A y \in Counted : stats'.live[y] = IF IsSent(f, y) THEN Bump(stats.live[y]) ELSE stats.live[y]
      BY <2>1, <3>2 DEF IsSent
    <3>4. f.kind # "stats"
      OBVIOUS
    <3> HIDE DEF f
    <3> QED BY <2>1, <3>1, <3>3, <3>4, LaneSend
  <2>3. CASE CodeOf(Head(rest)) \notin live
    <3>1. stats'.live = stats.live /\ UNCHANGED <<starts, fd, dataQ, taken, thread>>
      BY <1>0, <1>4, <2>3 DEF ParseMessage, Stats
    <3> QED BY <1>1, <3>1
  <2> QED BY <2>2, <2>3
<1>5. ASSUME Report, thread, UNCHANGED <<starts, fd, stats, taken, thread>>
      PROVE  LaneInv'
  <2> DEFINE f == [kind |-> "stats", stats |-> stats]
  <2>1. f \in DataFrames
    BY <1>0 DEF DataFrames
  <2>2. Send(f) /\ f.stats = stats /\ \A y : ~IsSent(f, y)
    BY <1>5 DEF Report, IsSent
  <2> HIDE DEF f
  <2> QED BY <1>5, <2>1, <2>2, LaneSend
<1>6. CASE ReportIfDue \/ FinalReport
  BY <1>1, <1>5, <1>6 DEF ReportIfDue, FinalReport, SocketInv
<1> QED BY <1>2, <1>3, <1>4, <1>6 DEF Receiver

LEMMA LaneWorld ==
  ASSUME TypeOK, SocketInv, LaneInv, World \/ UNCHANGED lvars
  PROVE  LaneInv'
<1> USE DEF ctlVars, loopVars, envVars
<1>1. CASE Elapse \/ UNCHANGED lvars \/ (\E f \in Frames : Arrive(f)) \/ (\E c \in Commands : Command(c))
  BY <1>1, LaneKept DEF Elapse, Arrive, Command, lvars
<1>2. ASSUME NEW k \in Runs, AppTakes(k)
      PROVE  LaneInv'
  <2> DEFINE q == dataQ[k]
             t == taken[k]
  <2>1. q \in Lanes /\ t \in Totals /\ LaneExact(q, t) /\ q # <<>> /\ ~(starts < k)
    BY <1>2 DEF LaneInv, AppTakes
  <2>2. Tail(q) \in Lanes /\ Total(q, t) \in Totals /\ LaneExact(Tail(q), Total(q, t))
    BY <2>1, LaneTail
  <2>3. dataQ' = [dataQ EXCEPT ![k] = Tail(q)] /\ taken' = [taken EXCEPT ![k] = Total(q, t)]
    <3>1. taken = [taken EXCEPT ![k] = t]
      BY DEF LaneInv
    <3> QED BY <1>2, <3>1 DEF AppTakes, Total
  <2>4. /\ dataQ' \in [Runs -> Lanes] /\ taken' \in [Runs -> Totals]
        /\ dataQ'[k] = Tail(q) /\ taken'[k] = Total(q, t)
        /\ \A j \in Runs : j # k => dataQ'[j] = dataQ[j] /\ taken'[j] = taken[j]
    BY <2>2, <2>3 DEF LaneInv
  <2>5. UNCHANGED <<starts, fd, thread, stats>>
    BY <1>2 DEF AppTakes
  <2>6. ASSUME thread, fd = k
        PROVE  Exact(stats.live, Tail(q), Total(q, t), Len(Tail(q)) + 1)
    <3>1. Len(q) \in 1..Len(q) /\ Len(Tail(q)) + 1 = Len(q) /\ Len(q) \in Nat
      BY <2>1 DEF Lanes
    <3>2. Exact(stats.live, q, t, Len(q) + 1)
      BY <2>6 DEF LaneInv
    <3>3. Exact(stats.live, Tail(q), Total(q, t), Len(q))
      BY <2>1, <3>1, <3>2, ExactTail
    <3> QED BY <3>1, <3>3
  <2> HIDE DEF q, t
  <2>7. thread' => fd' \in Runs /\ Exact(stats'.live, dataQ'[fd'], taken'[fd'], Len(dataQ'[fd']) + 1)
    <3>1. CASE thread /\ fd = k
      BY <2>4, <2>5, <2>6, <3>1
    <3>2. CASE thread /\ fd # k
      BY <2>4, <2>5, <3>2 DEF LaneInv
    <3> QED BY <2>5, <3>1, <3>2
  <2>8. \A j \in Runs : LaneExact(dataQ'[j], taken'[j])
    BY <2>2, <2>4 DEF LaneInv
  <2>9. \A j \in Runs : starts' < j => dataQ'[j] = <<>> /\ taken'[j] = Zero
    BY <2>1, <2>4, <2>5 DEF LaneInv
  <2> QED BY <2>4, <2>7, <2>8, <2>9 DEF LaneInv
<1> QED BY <1>1, <1>2 DEF World

(* Every report gives, for each type, exactly the market data frames its   *)
(* run sent before it, whatever is taken meanwhile and however often the   *)
(* receiver was stopped and started before.                                *)
THEOREM ReportsExact == Spec => []ReportsAreExact
<1> DEFINE Inv == TypeOK /\ SocketInv /\ StatsInv /\ LaneInv
<1>1. Init => Inv
  BY TypeInit, SocketInit, StatsInit, LaneInit
<1>2. Inv /\ [Next]_lvars => Inv'
  <2>1. Inv /\ [Next]_lvars => LaneInv'
    BY LaneControl, LaneReceiver, LaneWorld DEF Next
  <2> QED BY <2>1, TypeNext, SocketNext, StatsNext
<1>3. Inv => ReportsAreExact
  <2> SUFFICES ASSUME LaneInv, NEW k \in Runs, NEW i \in 1..Len(dataQ[k]), dataQ[k][i].kind = "stats",
                      NEW y \in Counted
               PROVE  dataQ[k][i].stats.live[y] = (taken[k][y] + MarketBefore(k, i, y)) % Wrap
    BY DEF ReportsAreExact
  <2>1. MarketBefore(k, i, y) = NumSent(dataQ[k], i, y)
    BY DEF MarketBefore, NumSent, Sent, IsSent
  <2>2. Exact(dataQ[k][i].stats.live, dataQ[k], taken[k], i)
    BY DEF LaneInv, LaneExact
  <2> QED BY <2>1, <2>2 DEF Exact
<1> QED BY <1>1, <1>2, <1>3, PTL DEF Spec
===============================================================================
