------------------------------- MODULE SockUtil -------------------------------
(***************************************************************************)
(* The helpers of source/network/sockutil.cpp that open sockets, called by *)
(* several threads of one process, and what the process's descriptor table *)
(* holds meanwhile.  connect, listen and bindUdpSock hand their descriptor *)
(* to the caller; the helpers that ask about interfaces or edit routes     *)
(* open one for an ioctl and close it.  Numbers are reused: the kernel     *)
(* gives out the lowest free one, so a descriptor closed twice, or used    *)
(* after it was closed, may by then be somebody else's.                    *)
(*                                                                         *)
(* Options of a socket are left out: the helpers ignore whether setting    *)
(* one worked, and none of what is said here depends on one, but that      *)
(* connect's socket is blocking unless bAsync.  Every other system call    *)
(* may fail.                                                               *)
(***************************************************************************)
EXTENDS DnsCache, Sequences

CONSTANTS
  FDs,         \* the descriptor numbers the process has left
  Async        \* the values of bAsync connect is called with

ASSUME SockAssumption ==
  FDs \subseteq Nat \ {0} /\ Async \subseteq BOOLEAN /\ Threads \cap {"caller", "nobody"} = {}

VARIABLES
  table,       \* the descriptor table: who holds it, and the state of its socket
  call         \* the helper each thread is in

sockVars == <<table, call>>
uvars == <<dnsVars, sockVars>>

Caller == "caller"
Fresh(t) == [holder |-> t, conn |-> "none"]
Closed == Fresh("nobody")
Free == {f \in FDs : table[f] = Closed}
NoCall == [op |-> "none", async |-> FALSE, todo |-> <<>>, then |-> <<>>, fd |-> 0, ok |-> TRUE]

(* The calls of each helper that matter, in order.  askInterface stands    *)
(* for for_each_netAdapter_posix, which all the searches for a name or an  *)
(* address go through, get_ifr_mask, get_ifr_brdaddr and listNIC.          *)
AskInterface == <<"socket", "ioctl", "close">>
Plan ==
  [connect |-> <<"getDomainIP", "socket", "bind", "connect">>,
   listen |-> <<"socket", "bind", "listen">>,
   bindUdpSock |-> <<"socket", "bind">>,
   askInterface |-> AskInterface,
   in_same_lan |-> AskInterface,
   editRouteViaIP |-> AskInterface]

(* What two helpers call when they have the name of the interface. *)
Then(op) ==
  CASE op = "in_same_lan" -> AskInterface        \* get_ifr_mask
    [] op = "editRouteViaIP" -> AskInterface     \* editRouteViaNIC
    [] OTHER -> <<>>

SockInit ==
  /\ DnsInit
  /\ table = [f \in FDs |-> Closed]
  /\ call = [t \in Threads |-> NoCall]

Next1(t) == IF call[t].todo = <<>> THEN "end" ELSE Head(call[t].todo)
Proceed(t) == [call[t] EXCEPT !.todo = Tail(@)]
Becomes(t, c) == call' = [call EXCEPT ![t] = c]

(* After a failure: a helper that holds a descriptor closes it first. *)
GiveUpOpen(t) == [call[t] EXCEPT !.ok = FALSE, !.todo = <<>>, !.fd = 0]  \* mutant: no close
GiveUp(t) ==
  [call[t] EXCEPT !.ok = FALSE, !.todo = IF call[t].fd = 0 THEN <<>> ELSE <<"close">>]

-----------------------------------------------------------------------------
Start(t, op, async) ==
  /\ call[t] = NoCall
  /\ Becomes(t, [op |-> op, async |-> async, todo |-> Plan[op], then |-> Then(op), fd |-> 0, ok |-> TRUE])
  /\ UNCHANGED <<dnsVars, table>>

(* connect resolves the host through the cache. *)
Resolve(t) ==
  /\ Next1(t) = "getDomainIP"
  /\ \/ (\E h \in Hosts : Ask(t, h)) /\ UNCHANGED call
     \/ DnsStep(t) /\ UNCHANGED call
     \/ At(t, "found") /\ Return(t) /\ Becomes(t, Proceed(t))
     \/ At(t, "failed") /\ Return(t) /\ Becomes(t, GiveUp(t))
  /\ UNCHANGED table

(* socket(): listNIC tries two kinds, and closes -1 when both fail. *)
Socket(t) ==
  /\ Next1(t) = "socket"
  /\ \/ \E f \in Free :
          /\ \A g \in Free : f <= g
          /\ table' = [table EXCEPT ![f] = Fresh(t)]
          /\ Becomes(t, [Proceed(t) EXCEPT !.fd = f])
     \/ /\ Becomes(t, GiveUp(t))
        /\ UNCHANGED table
  /\ UNCHANGED dnsVars

(* bind, listen, or an ioctl about interfaces or routes.  listNIC makes    *)
(* three more for each interface, and any that fails ends it the same way. *)
(* Adding a route that is there fails with EEXIST, which counts as success.*)
Try(t) ==
  /\ Next1(t) \in {"bind", "listen", "ioctl"}
  /\ Becomes(t, Proceed(t)) \/ Becomes(t, GiveUp(t))
  /\ UNCHANGED <<dnsVars, table>>

(* uv_translate_posix_error makes one code, UV_EAGAIN, of these. *)
TakenForEAGAIN == {"EINPROGRESS", "EAGAIN", "ENOBUFS"}

(* connect(2) on a socket that is non-blocking iff bAsync. *)
ConnectErrno(async) ==
  {"EAGAIN", "ENOBUFS", "ECONNREFUSED"} \cup IF async THEN {"EINPROGRESS"} ELSE {}

IsUnderWayAlways(t, errno) == errno \in TakenForEAGAIN           \* mutant: bAsync is not asked
IsUnderWay(t, errno) == call[t].async /\ errno \in TakenForEAGAIN

Connect(t) ==
  LET f == call[t].fd
  IN /\ Next1(t) = "connect"
     /\ \/ /\ table' = [table EXCEPT ![f].conn = "connected"]
           /\ Becomes(t, Proceed(t))
        \/ \E errno \in ConnectErrno(call[t].async) :
             /\ table' = [table EXCEPT ![f].conn = errno]
             /\ Becomes(t, IF IsUnderWay(t, errno) THEN Proceed(t) ELSE GiveUp(t))
     /\ UNCHANGED dnsVars

Close(t) ==
  /\ Next1(t) = "close"
  /\ table' = [table EXCEPT ![call[t].fd] = Closed]
  /\ Becomes(t, [Proceed(t) EXCEPT !.fd = 0])
  /\ UNCHANGED dnsVars

(* in_same_lan goes on whatever came of the name (it asks for the mask of  *)
(* the interface called ""); a route is edited only via an interface that  *)
(* was found.                                                              *)
GoOn(t) ==
  /\ Next1(t) = "end" /\ call[t].then # <<>>
  /\ call[t].ok \/ call[t].op = "in_same_lan"
  /\ Becomes(t, [call[t] EXCEPT !.todo = call[t].then, !.then = <<>>])
  /\ UNCHANGED <<dnsVars, table>>

(* The helper returns; a descriptor it has kept goes to the caller. *)
Finish(t) ==
  /\ call[t].op # "none" /\ Next1(t) = "end"
  /\ \/ call[t].then = <<>>
     \/ call[t].op = "editRouteViaIP"            \* no such interface
  /\ table' = IF call[t].fd = 0 THEN table ELSE [table EXCEPT ![call[t].fd].holder = Caller]
  /\ Becomes(t, NoCall)
  /\ UNCHANGED dnsVars

-----------------------------------------------------------------------------
(* What callers do with the sockets they were given. *)

Usable(f) == table[f].holder = Caller /\ \A t \in Threads : call[t].fd # f

CallerCloses(f) ==
  /\ Usable(f)
  /\ table' = [table EXCEPT ![f] = Closed]
  /\ UNCHANGED <<dnsVars, call>>

SockNext ==
  \/ Tick /\ UNCHANGED sockVars
  \/ \E t \in Threads :
       \/ \E op \in DOMAIN Plan, async \in Async : (op # "connect" => ~async) /\ Start(t, op, async)
       \/ Resolve(t) \/ Socket(t) \/ Try(t) \/ Connect(t) \/ Close(t) \/ GoOn(t) \/ Finish(t)
  \/ \E f \in FDs : CallerCloses(f)

SockSpec == SockInit /\ [][SockNext]_uvars

-----------------------------------------------------------------------------
(* Every open descriptor is with the helper that opened it or with the     *)
(* caller it was returned to, so nothing leaks on any way out; and what a  *)
(* helper works on and closes is its own, never a number that was given    *)
(* out again.                                                              *)
Held(t) == {call[t].fd} \ {0}
OneHolder ==
  /\ \A f \in FDs : table[f] # Closed =>
       table[f].holder = Caller \/ \E t \in Threads : table[f].holder = t /\ call[t].fd = f
  /\ \A t \in Threads : \A f \in Held(t) : table[f].holder = t

(* A connect that was not asynchronous hands back a socket only when it is *)
(* connected, whatever the error of ::connect is translated to.            *)
Returning(t) == call[t].op = "connect" /\ Next1(t) = "end" /\ call[t].fd # 0
SyncConnectIsConnected ==
  \A t \in Threads : Returning(t) /\ ~call[t].async => table[call[t].fd].conn = "connected"

(* The comment of line 289, "the asynchronous connection succeeded": what  *)
(* is handed back is connected or being connected.                         *)
AsyncConnectIsUnderWay ==
  \A t \in Threads : Returning(t) => table[call[t].fd].conn \in {"connected", "EINPROGRESS"}
=============================================================================
