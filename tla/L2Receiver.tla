------------------------------ MODULE L2Receiver ------------------------------
(***************************************************************************)
(* The level-2 market data receiver: L2_udp_recver_th_native, its base     *)
(* class L2_udp_recver_th, and the socket and route operations it uses.    *)
(*                                                                         *)
(* A control thread starts and stops the receiver; each start that works   *)
(* makes a thread that reads datagrams from a non-blocking socket, counts  *)
(* their messages, forwards those about codes in _live_list to the data    *)
(* queue, and, when there is nothing to read, sends a report of the        *)
(* counters and applies commands from the command queue.                   *)
(*                                                                         *)
(* The data queue is taken as ParticleQueue and FrameOrder show it: frames *)
(* of one thread arrive once and in order, those of two threads in any     *)
(* order; there is one lane per receiver thread.  Growing it succeeds.     *)
(***************************************************************************)
EXTENDS Integers, Sequences, FiniteSets

CONSTANTS
  Messages,    \* the messages a datagram can carry: [type, src, id, ok]
  MaxMessages, \* bound: messages in a datagram
  Commands,    \* the commands an application sends: [add, code]
  CmdBatch,    \* commands taken at a time (8)
  Wrap,        \* counters are taken modulo this (2^64 for size_t)
  MaxStarts,   \* bound: calls of start that get as far as a socket
  MaxPending   \* bound: frames in the data queue, datagrams in the socket, commands

ASSUME ReceiverAssumption ==
  /\ MaxMessages \in Nat /\ CmdBatch \in Nat \ {0} /\ Wrap \in Nat \ {0}
  /\ MaxStarts \in Nat /\ MaxPending \in Nat

(* The layouts the switch of recv_thread accepts: which exchange sends     *)
(* which message type.  Everything else, bonds included, is unknown.       *)
Counted == {"instrument_snap", "index_snap", "option_snap", "fund_snap", "order", "exec",
            "instrument_snapx5", "fund_snapx5", "index_snapx5", "option_snapx5"}
Layouts ==
  ({"instrument_snap", "index_snap", "order", "exec", "heartbeat"} \X {"SSH", "SSZ"})
  \cup ({"option_snap", "fund_snap"} \X {"SSZ"})
  \cup ({"instrument_snapx5", "fund_snapx5", "index_snapx5", "option_snapx5"} \X {"SSH"})

(* m.ok: MsgLen is the size of the layout and so much is left of the datagram. *)
Accepted(m) == <<m.type, m.src>> \in Layouts /\ m.ok

(* liveTrans: whatever does not come from SSH is taken for SSZ. *)
CodeOf(m) == <<IF m.src = "SSH" THEN "SH" ELSE "SZ", m.id>>

VARIABLES
  ctl,       \* "idle", or "joining" while stop waits inside the mutex
  thread,    \* _pThread is set
  stopping,  \* _stop
  fd,        \* _fd, 0 for -1
  open,      \* the sockets this object has opened and nobody has closed
  starts,    \* sockets opened so far: the number of the last one
  route,     \* the kernel routes the group through the interface of pLocalIp
  group,     \* what _multicastIp holds: "none", "multicast" or "other"
  viaNic,    \* pLocalIp names an interface (is not 0.0.0.0)
  sock,      \* datagrams in the kernel's buffer of socket fd
  pc,        \* the receiver thread
  rest,      \* messages of the current datagram not parsed yet
  stats,     \* _stats
  live,      \* _live_list
  applied,   \* history: this run has applied a command (a start that resets _stats begins one)
  due,       \* the report interval has passed since the last report
  cmdQ,      \* the command queue
  dataQ,     \* dataQ[k]: the lane of the k-th socket's thread
  taken      \* taken[k]: market data frames the application took from lane k

ctlVars == <<ctl, thread, stopping, fd, starts, route, group, viaNic>>
loopVars == <<rest, stats, live, applied>>
envVars == <<cmdQ, taken>>
lvars == <<ctlVars, open, sock, pc, loopVars, due, dataQ, envVars>>

Runs == 1..MaxStarts
Zero == [y \in Counted |-> 0]
NoStats == [frames |-> 0, recv |-> Zero, live |-> Zero, heartbeat |-> 0, unknown |-> 0, codes |-> 0]
Bump(k) == (k + 1) % Wrap

Init ==
  /\ ctl = "idle" /\ thread = FALSE /\ stopping = FALSE
  /\ fd = 0 /\ open = {} /\ starts = 0
  /\ route = FALSE /\ group = "none" /\ viaNic = FALSE
  /\ sock = <<>> /\ pc = "none" /\ rest = <<>>
  /\ stats = NoStats /\ live = {} /\ applied = FALSE /\ due = TRUE
  /\ cmdQ = <<>>
  /\ dataQ = [k \in Runs |-> <<>>]
  /\ taken = [k \in Runs |-> Zero]

-----------------------------------------------------------------------------
(* start(): the mutex is held throughout and no thread runs, so each way   *)
(* through it is one step.  A running receiver is not started again.       *)
StartsTwice == ctl = "idle"      \* mutant: no test of _pThread
MayStart == ctl = "idle" /\ ~thread

(* bindUdpSock fails, and closes what it opened. *)
StartBindFails ==
  /\ MayStart
  /\ fd' = 0 /\ stats' = NoStats /\ applied' = FALSE /\ group' = "none"
  /\ UNCHANGED <<ctl, thread, stopping, starts, route, viaNic, open, sock, pc,
                 rest, live, due, dataQ, envVars>>

OldStats == stats                \* mutant: the memset is missing
ClearedStats == NoStats

OpenSocket ==
  /\ starts < MaxStarts
  /\ starts' = starts + 1
  /\ fd' = starts + 1
  /\ open' = open \cup {starts + 1}
  /\ sock' = <<>>
  /\ stats' = ClearedStats /\ applied' = FALSE

(* addRouteViaIP fails (no such interface, or the ioctl): return false. *)
StartRouteFails ==
  /\ MayStart
  /\ OpenSocket
  /\ group' = "none"
  /\ UNCHANGED <<ctl, thread, stopping, route, viaNic, pc, rest, live, due, dataQ, envVars>>

(* joinMultiAddr fails after the route has been added: return false. *)
StartJoinFails(nic) ==
  /\ MayStart
  /\ OpenSocket
  /\ group' = "multicast" /\ viaNic' = nic
  /\ route' = (route \/ nic)
  /\ UNCHANGED <<ctl, thread, stopping, pc, rest, live, due, dataQ, envVars>>

(* Everything works; an address that is no multicast group is bound as it  *)
(* is, and remembered all the same.                                        *)
StartWorks(kind, nic) ==
  /\ MayStart
  /\ OpenSocket
  /\ group' = kind /\ viaNic' = nic
  /\ route' = (route \/ (nic /\ kind = "multicast"))
  /\ thread' = TRUE
  /\ pc' = "recv"
  /\ UNCHANGED <<ctl, stopping, rest, live, due, dataQ, envVars>>

(* stop(): sets the flag and joins; without a thread it does nothing. *)
StopCalled ==
  /\ ctl = "idle" /\ thread
  /\ stopping' = TRUE
  /\ ctl' = "joining"
  /\ UNCHANGED <<thread, fd, starts, route, group, viaNic, open, sock, pc, loopVars, due, dataQ, envVars>>

Joined ==
  /\ ctl = "joining" /\ pc = "ended"
  /\ thread' = FALSE /\ stopping' = FALSE
  /\ route' = (route /\ ~(viaNic /\ group = "multicast"))
  /\ fd' = 0
  /\ ctl' = "idle" /\ pc' = "none"
  /\ UNCHANGED <<starts, group, viaNic, open, sock, loopVars, due, dataQ, envVars>>

Control ==
  \/ StartBindFails \/ StartRouteFails
  \/ \E nic \in BOOLEAN : StartJoinFails(nic) \/ \E kind \in {"multicast", "other"} : StartWorks(kind, nic)
  \/ StopCalled \/ Joined

-----------------------------------------------------------------------------
(* recv_thread *)

(* recv() > 0: count the datagram, then parse it. *)
RecvFrame ==
  /\ pc = "recv" /\ sock # <<>> /\ Head(sock) # <<>>
  /\ stats' = [stats EXCEPT !.frames = Bump(@)]
  /\ rest' = Head(sock)
  /\ sock' = Tail(sock)
  /\ pc' = "parse"
  /\ UNCHANGED <<ctlVars, open, live, applied, due, dataQ, envVars>>

(* recv() = 0: an empty datagram. *)
RecvEmpty ==
  /\ pc = "recv" /\ sock # <<>> /\ Head(sock) = <<>>
  /\ sock' = Tail(sock)
  /\ pc' = "check"
  /\ UNCHANGED <<ctlVars, open, loopVars, due, dataQ, envVars>>

(* recv() = -1: nothing to read. *)
Ignored == "check"               \* mutant: only data is handled
WhenEmpty == "report"

RecvNothing ==
  /\ pc = "recv" /\ sock = <<>>
  /\ pc' = WhenEmpty
  /\ UNCHANGED <<ctlVars, open, sock, loopVars, due, dataQ, envVars>>

Send(frame) == dataQ' = [dataQ EXCEPT ![fd] = Append(@, frame)]
OnceMore == "parse"              \* mutant: while (len >= 0)
AfterParse == IF Tail(rest) = <<>> THEN "check" ELSE "parse"

(* One turn of the inner loop on a message of an accepted layout, with     *)
(* liveTrans, which sends a frame if the code is wanted.                   *)
ParseMessage ==
  LET m == Head(rest) IN
  /\ pc = "parse" /\ Accepted(m) /\ m.type # "heartbeat"
  /\ IF CodeOf(m) \in live
     THEN /\ Send([kind |-> "market", type |-> m.type])
          /\ stats' = [stats EXCEPT !.recv[m.type] = Bump(@), !.live[m.type] = Bump(@)]
     ELSE /\ stats' = [stats EXCEPT !.recv[m.type] = Bump(@)]
          /\ UNCHANGED dataQ
  /\ rest' = Tail(rest)
  /\ pc' = AfterParse
  /\ UNCHANGED <<ctlVars, open, sock, live, applied, due, envVars>>

ParseHeartbeat ==
  LET m == Head(rest) IN
  /\ pc = "parse" /\ Accepted(m) /\ m.type = "heartbeat"
  /\ stats' = [stats EXCEPT !.heartbeat = Bump(@)]
  /\ rest' = Tail(rest)
  /\ pc' = AfterParse
  /\ UNCHANGED <<ctlVars, open, sock, live, applied, due, dataQ, envVars>>

(* Anything else: one unknown message, and the rest of the datagram with it. *)
ParseUnknown ==
  /\ pc = "parse" /\ ~Accepted(Head(rest))
  /\ stats' = [stats EXCEPT !.unknown = Bump(@)]
  /\ rest' = <<>>
  /\ pc' = "check"
  /\ UNCHANGED <<ctlVars, open, sock, live, applied, due, dataQ, envVars>>

Report == Send([kind |-> "stats", stats |-> stats])

(* report_stats(): only if the interval has passed. *)
ReportIfDue ==
  /\ pc = "report"
  /\ IF due THEN Report /\ due' = FALSE ELSE UNCHANGED <<dataQ, due>>
  /\ pc' = "cmds"
  /\ UNCHANGED <<ctlVars, open, sock, loopVars, envVars>>

(* proc_cmdQ(): the last command of the batch about a code decides; the    *)
(* number of codes is set only when there was a command.                   *)
Decided(batch, code) == {i \in 1..Len(batch) : batch[i].code = code}
Wanted(batch, code) ==
  IF Decided(batch, code) = {} THEN code \in live
  ELSE batch[CHOOSE i \in Decided(batch, code) : \A j \in Decided(batch, code) : j <= i].add

OldCodes == Cardinality(live)    \* mutant: counted before the commands apply
Codes == Cardinality(live')

ProcCmdQ ==
  LET k == IF Len(cmdQ) < CmdBatch THEN Len(cmdQ) ELSE CmdBatch
      batch == SubSeq(cmdQ, 1, k)
      codes == live \cup {c.code : c \in Commands}
  IN
  /\ pc = "cmds" /\ cmdQ # <<>>
  /\ live' = {code \in codes : Wanted(batch, code)}
  /\ stats' = [stats EXCEPT !.codes = Codes] /\ applied' = TRUE
  /\ cmdQ' = SubSeq(cmdQ, k + 1, Len(cmdQ))
  /\ pc' = "check"
  /\ UNCHANGED <<ctlVars, open, sock, rest, due, dataQ, taken>>

NoCmd ==
  /\ pc = "cmds" /\ cmdQ = <<>>
  /\ pc' = "check"
  /\ UNCHANGED <<ctlVars, open, sock, loopVars, due, dataQ, envVars>>

(* while (!_stop) *)
IfQuiet == IF stopping /\ sock = <<>> THEN "close" ELSE "recv"   \* mutant: data first
UnlessStopping == IF stopping THEN "close" ELSE "recv"

CheckStop ==
  /\ pc = "check"
  /\ pc' = UnlessStopping
  /\ UNCHANGED <<ctlVars, open, sock, loopVars, due, dataQ, envVars>>

LeftOpen == open                 \* mutant: close(_fd) is missing
Closed == open \ {fd}

CloseSocket ==
  /\ pc = "close"
  /\ open' = Closed
  /\ sock' = <<>>
  /\ pc' = "final"
  /\ UNCHANGED <<ctlVars, loopVars, due, dataQ, envVars>>

(* report_stats(true) *)
FinalReport ==
  /\ pc = "final"
  /\ Report
  /\ due' = FALSE
  /\ pc' = "ended"
  /\ UNCHANGED <<ctlVars, open, sock, loopVars, envVars>>

Receiver ==
  \/ RecvFrame \/ RecvEmpty \/ RecvNothing
  \/ ParseMessage \/ ParseHeartbeat \/ ParseUnknown
  \/ ReportIfDue \/ ProcCmdQ \/ NoCmd \/ CheckStop \/ CloseSocket \/ FinalReport

-----------------------------------------------------------------------------
(* The rest of the world, within the bounds. *)

Frames == UNION {[1..k -> Messages] : k \in 0..MaxMessages}
Pending == {<<k, i>> : k \in Runs, i \in 1..MaxPending + 2}
Backlog == Cardinality({x \in Pending : x[2] <= Len(dataQ[x[1]])})

Arrive(frame) ==
  /\ pc \notin {"none", "final", "ended"}
  /\ Len(sock) < MaxPending /\ Backlog < MaxPending
  /\ sock' = Append(sock, frame)
  /\ UNCHANGED <<ctlVars, open, pc, loopVars, due, dataQ, envVars>>

Elapse ==
  /\ ~due /\ Backlog < MaxPending
  /\ due' = TRUE
  /\ UNCHANGED <<ctlVars, open, sock, pc, loopVars, dataQ, envVars>>

Command(c) ==
  /\ Len(cmdQ) < MaxPending
  /\ cmdQ' = Append(cmdQ, c)
  /\ UNCHANGED <<ctlVars, open, sock, pc, loopVars, due, dataQ, taken>>

(* The application takes the next frame of some lane. *)
AppTakes(k) ==
  /\ dataQ[k] # <<>>
  /\ dataQ' = [dataQ EXCEPT ![k] = Tail(@)]
  /\ taken' = IF Head(dataQ[k]).kind = "market"
              THEN [taken EXCEPT ![k][Head(dataQ[k]).type] = Bump(@)]
              ELSE taken
  /\ UNCHANGED <<ctlVars, open, sock, pc, loopVars, due, cmdQ>>

World ==
  \/ \E f \in Frames : Arrive(f)
  \/ Elapse
  \/ \E c \in Commands : Command(c)
  \/ \E k \in Runs : AppTakes(k)

Next == Control \/ Receiver \/ World

Spec == Init /\ [][Next]_lvars

(* The receiver thread and the caller blocked in join are scheduled, the   *)
(* application keeps taking frames.  Nothing is assumed of the network.    *)
FairSpec ==
  /\ Spec
  /\ WF_lvars(Receiver) /\ WF_lvars(Joined)
  /\ \A k \in Runs : WF_lvars(AppTakes(k))

-----------------------------------------------------------------------------
(* Properties. *)

MarketBefore(k, i, type) ==
  Cardinality({j \in 1..(i - 1) : dataQ[k][j].kind = "market" /\ dataQ[k][j].type = type})

TypeOK ==
  /\ ctl \in {"idle", "joining"} /\ thread \in BOOLEAN /\ stopping \in BOOLEAN
  /\ fd \in 0..MaxStarts /\ open \subseteq Runs /\ starts \in 0..MaxStarts
  /\ route \in BOOLEAN /\ viaNic \in BOOLEAN
  /\ group \in {"none", "multicast", "other"}
  /\ sock \in Seq(Frames) /\ rest \in Frames
  /\ pc \in {"none", "recv", "parse", "report", "cmds", "check", "close", "final", "ended"}
  /\ live \subseteq {c.code : c \in Commands}
  /\ applied \in BOOLEAN /\ due \in BOOLEAN /\ cmdQ \in Seq(Commands)
  /\ pc = "parse" <=> rest # <<>>

(* A report tells the application exactly how many market data frames of   *)
(* each type this run of the receiver sent before it: it is neither early  *)
(* nor late, and a restart does not mix the counts of two runs.            *)
ReportsAreExact ==
  \A k \in Runs : \A i \in 1..Len(dataQ[k]) :
    dataQ[k][i].kind = "stats" =>
      \A y \in Counted :
        dataQ[k][i].stats.live[y] = (taken[k][y] + MarketBefore(k, i, y)) % Wrap

(* The thread reads and closes only the socket its own start opened: no    *)
(* stop or further start takes the number or the socket away from it, and  *)
(* the route its group needs is there as long as it reads.                 *)
Reading == pc \notin {"none", "final", "ended"}
ThreadOwnsSocket ==
  Reading => /\ thread /\ fd = starts /\ fd \in open
             /\ group = "multicast" /\ viaNic => route

(* When stop() has ended a thread, its socket is closed and the number     *)
(* forgotten, and all of that is done when the next start may begin.       *)
StopClosesThreadSocket == [][ctl = "joining" /\ ctl' = "idle" => fd \notin open /\ fd' = 0]_lvars

(* stop() is documented to close the socket: when it returns no socket of  *)
(* the receiver is left open.                                              *)
StopClosesSocket == [][ctl = "joining" /\ ctl' = "idle" => open' = {}]_lvars

(* Once a run has applied a command, the number of codes in its reports is *)
(* the number of codes it forwards, and it stays so while datagrams are    *)
(* counted and reports sent.  Before that it is 0, also when the list is   *)
(* not empty: start() resets the number and not the list, so that a        *)
(* restarted receiver reports no codes and forwards those of the run       *)
(* before.                                                                 *)
CodeCountIsReal == stats.codes = IF applied THEN Cardinality(live) ELSE 0

(* stop() returns, however busy the network is.                            *)
StopReturns == ctl = "joining" ~> ctl = "idle"

(* Reports are documented to come at regular intervals.  recv_thread sends *)
(* them only when recv finds nothing, so what holds is that they keep      *)
(* coming once the network has gone quiet.                                 *)
ReportsWhenQuiet == <>[](sock = <<>> /\ thread /\ ~stopping) => []<>~due
=============================================================================
