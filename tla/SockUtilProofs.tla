---------------------------- MODULE SockUtilProofs -----------------------------
(***************************************************************************)
(* Theorems about source/network/sockutil.cpp for any number of threads,   *)
(* hosts and descriptors, any expiry and any delay of an answer: the       *)
(* addresses handed out are fresh, every descriptor has one holder, and a  *)
(* synchronous connect hands out connected sockets only.                   *)
(***************************************************************************)
EXTENDS SockUtil, TLAPS

-----------------------------------------------------------------------------
(* DnsInv is inductive.                                                    *)

LEMMA DnsInitInv == DnsInit => DnsInv
BY DnsAssumption
DEF DnsInit, DnsInv, DnsTypeOK, AddressesAreFresh, EntriesAreDated, AnswersOnTheirWay,
    Times, Idle, NotCached, At

(* A thread's own lookup is of one of four shapes. *)
LEMMA LookupShape ==
  ASSUME DnsTypeOK, NEW t \in Threads
  PROVE  /\ DOMAIN lookup = Threads
         /\ At(t, "idle") => lookup[t] = Idle
         /\ ~At(t, "idle") => lookup[t].host \in Hosts
         /\ lookup[t] = [at |-> lookup[t].at, host |-> lookup[t].host, _addr |-> lookup[t]._addr]
         /\ lookup[t].at \in {"setCache", "found"} => lookup[t]._addr \in Times
BY DEF DnsTypeOK, Idle, At

(* What a step does to one thread's lookup. *)
LookupBecomes(t, r) == lookup' = [lookup EXCEPT ![t] = r]
LookupTypes ==
  [at : {"getCache", "getSystem", "failed"}, host : Hosts, _addr : {-1}]
    \cup [at : {"setCache", "found"}, host : Hosts, _addr : Times] \cup {Idle}

LEMMA GotoBecomes ==
  ASSUME DnsTypeOK, NEW t \in Threads, NEW label, NEW addr, Goto(t, label, addr)
  PROVE  LookupBecomes(t, [at |-> label, host |-> lookup[t].host, _addr |-> addr])
BY DEF Goto, LookupBecomes, DnsTypeOK

LEMMA LookupUpdate ==
  ASSUME DnsInv, NEW t \in Threads, NEW r \in LookupTypes, LookupBecomes(t, r), now' = now,
         r.at = "found" => now - r._addr <= expireSec + Slow,
         r.at = "setCache" => now - r._addr \in 0..Slow
  PROVE  /\ lookup' \in [Threads -> LookupTypes]
         /\ AddressesAreFresh' /\ AnswersOnTheirWay'
<1>1. lookup \in [Threads -> LookupTypes]
  BY DEF DnsInv, DnsTypeOK, LookupTypes
<1>2. lookup' \in [Threads -> LookupTypes]
  BY <1>1 DEF LookupBecomes
<1>3. \A u \in Threads : lookup'[u] = IF u = t THEN r ELSE lookup[u]
  BY <1>1 DEF LookupBecomes
<1>4. AddressesAreFresh'
  BY <1>3 DEF DnsInv, AddressesAreFresh, At
<1>5. AnswersOnTheirWay'
  BY <1>3 DEF DnsInv, AnswersOnTheirWay, At
<1> QED BY <1>2, <1>4, <1>5

LEMMA DnsAskInv ==
  ASSUME DnsInv, NEW t \in Threads, NEW h \in Hosts, Ask(t, h)
  PROVE  DnsInv'
BY DEF Ask, DnsInv, DnsTypeOK, AddressesAreFresh, EntriesAreDated, AnswersOnTheirWay, Times, At, Idle, NotCached

LEMMA DnsGetCacheInv ==
  ASSUME DnsInv, NEW t \in Threads, GetCacheDomainIP(t)
  PROVE  DnsInv'
<1> DEFINE h == lookup[t].host
           item == _mapDns[h]
<1> USE DnsAssumption DEF DnsInv
<1>1. h \in Hosts /\ lookup[t] = [at |-> lookup[t].at, host |-> h, _addr |-> lookup[t]._addr]
      /\ DOMAIN lookup = Threads
  BY LookupShape DEF GetCacheDomainIP, At
<1>2. now' = now
  BY DEF GetCacheDomainIP
<1>3. ASSUME Goto(t, "getSystem", -1)
      PROVE  lookup' \in [Threads -> LookupTypes] /\ AddressesAreFresh' /\ AnswersOnTheirWay'
  <2> DEFINE r == [at |-> "getSystem", host |-> h, _addr |-> -1]
  <2>1. LookupBecomes(t, r)
    BY <1>3, GotoBecomes
  <2>2. r \in LookupTypes /\ r.at # "found" /\ r.at # "setCache"
    BY <1>1 DEF LookupTypes
  <2> HIDE DEF r
  <2> QED BY <1>2, <2>1, <2>2, LookupUpdate
<1>4. CASE item = NotCached /\ Goto(t, "getSystem", -1) /\ UNCHANGED _mapDns
  BY <1>2, <1>3, <1>4 DEF DnsTypeOK, LookupTypes, EntriesAreDated
<1>5. CASE item # NotCached /\ _mapDns' = [_mapDns EXCEPT ![h] = NotCached] /\ Goto(t, "getSystem", -1)
  <2>1. DnsTypeOK'
    BY <1>1, <1>2, <1>3, <1>5 DEF DnsTypeOK, LookupTypes
  <2>2. EntriesAreDated'
    BY <1>1, <1>2, <1>5 DEF EntriesAreDated, DnsTypeOK
  <2> QED BY <1>3, <1>5, <2>1, <2>2
<1>6. CASE item # NotCached /\ ~Expired(item) /\ Goto(t, "found", item._addr) /\ UNCHANGED _mapDns
  <2> DEFINE r == [at |-> "found", host |-> h, _addr |-> item._addr]
  <2>1. item._addr \in Times /\ item._create_time \in Times
    BY <1>1, <1>6 DEF DnsTypeOK
  <2>2. now - item._addr <= expireSec + Slow
    BY <1>1, <1>6, <2>1 DEF EntriesAreDated, Expired, DnsTypeOK, Times
  <2>3. LookupBecomes(t, r)
    BY <1>6, GotoBecomes
  <2>4. r \in LookupTypes /\ r.at # "setCache" /\ r._addr = item._addr
    BY <1>1, <2>1 DEF LookupTypes
  <2>5. lookup' \in [Threads -> LookupTypes] /\ AddressesAreFresh' /\ AnswersOnTheirWay'
    <3> HIDE DEF r
    <3> QED BY <1>2, <2>2, <2>3, <2>4, LookupUpdate
  <2> QED BY <1>2, <1>6, <2>5 DEF DnsTypeOK, LookupTypes, EntriesAreDated
<1> QED BY <1>4, <1>5, <1>6 DEF GetCacheDomainIP

LEMMA DnsAnswerInv ==
  ASSUME DnsInv, NEW t \in Threads, Answered(t) \/ NoAnswer(t)
  PROVE  DnsInv'
<1> USE DnsAssumption DEF DnsInv
<1> DEFINE h == lookup[t].host
           r == IF Answered(t) THEN [at |-> "setCache", host |-> h, _addr |-> now]
                ELSE [at |-> "failed", host |-> h, _addr |-> -1]
<1>1. h \in Hosts /\ lookup[t] = [at |-> lookup[t].at, host |-> h, _addr |-> lookup[t]._addr]
      /\ DOMAIN lookup = Threads
  BY LookupShape DEF Answered, NoAnswer, At
<1>2. LookupBecomes(t, r) /\ now' = now /\ _mapDns' = _mapDns
  BY <1>1 DEF Answered, NoAnswer, Goto, LookupBecomes
<1>3. now \in Times
  BY DEF DnsTypeOK
<1>4. r \in LookupTypes /\ r.at # "found" /\ (r.at = "setCache" => now - r._addr \in 0..Slow)
  BY <1>1, <1>3 DEF LookupTypes, Times
<1>5. lookup' \in [Threads -> LookupTypes] /\ AddressesAreFresh' /\ AnswersOnTheirWay'
  <2> HIDE DEF r
  <2> QED BY <1>2, <1>4, LookupUpdate
<1> QED BY <1>2, <1>5 DEF DnsTypeOK, LookupTypes, EntriesAreDated

(* The age of the new entry counts from now, and its answer is Slow old at *)
(* most: this is where the bound of AddressesAreFresh comes from.          *)
LEMMA DnsSetCacheInv ==
  ASSUME DnsInv, NEW t \in Threads, SetCacheDomainIP(t)
  PROVE  DnsInv'
<1> USE DnsAssumption DEF DnsInv
<1> DEFINE h == lookup[t].host
           a == lookup[t]._addr
<1>1. h \in Hosts /\ a \in Times /\ lookup[t] = [at |-> lookup[t].at, host |-> h, _addr |-> a]
      /\ DOMAIN lookup = Threads
  BY LookupShape DEF SetCacheDomainIP, At
<1>2. now - a \in 0..Slow
  BY DEF SetCacheDomainIP, AnswersOnTheirWay
<1> DEFINE r == [at |-> "found", host |-> h, _addr |-> a]
<1>3. LookupBecomes(t, r) /\ r \in LookupTypes /\ r.at # "setCache" /\ r._addr = a
  BY <1>1, GotoBecomes DEF SetCacheDomainIP, LookupTypes
<1>4. _mapDns' = [_mapDns EXCEPT ![h] = [_addr |-> a, _create_time |-> now]] /\ now' = now
  BY DEF SetCacheDomainIP, Stored, Item
<1>5. lookup' \in [Threads -> LookupTypes] /\ AddressesAreFresh' /\ AnswersOnTheirWay'
  <2>1. now - a <= expireSec + Slow
    BY <1>1, <1>2 DEF DnsTypeOK, Times
  <2> HIDE DEF r
  <2> QED BY <1>3, <1>4, <2>1, LookupUpdate
<1>6. DnsTypeOK'
  BY <1>1, <1>4, <1>5 DEF DnsTypeOK, LookupTypes
<1>7. EntriesAreDated'
  BY <1>1, <1>2, <1>4 DEF EntriesAreDated, DnsTypeOK, Times
<1> QED BY <1>5, <1>6, <1>7

LEMMA DnsReturnInv ==
  ASSUME DnsInv, NEW t \in Threads, Return(t)
  PROVE  DnsInv'
BY DEF Return, DnsInv, DnsTypeOK, AddressesAreFresh, EntriesAreDated, AnswersOnTheirWay, At, Idle

LEMMA DnsTickInv ==
  ASSUME DnsInv, Tick
  PROVE  DnsInv'
<1> USE DnsAssumption DEF DnsInv
<1>1. now \in Nat /\ now' = now + 1 /\ now' \in Times /\ _mapDns' = _mapDns /\ lookup' = lookup
  BY DEF Tick, DnsTypeOK, Times
<1>2. DnsTypeOK'
  BY <1>1 DEF DnsTypeOK
<1>3. AddressesAreFresh'
  BY <1>1 DEF Tick, AddressesAreFresh, At
<1>4. EntriesAreDated'
  BY <1>1 DEF EntriesAreDated, DnsTypeOK, Times
<1>5. AnswersOnTheirWay'
  <2> SUFFICES ASSUME NEW t \in Threads, At(t, "setCache")'
               PROVE  (now - lookup[t]._addr \in 0..Slow)'
    BY DEF AnswersOnTheirWay
  <2>0. At(t, "setCache")
    BY <1>1 DEF At
  <2>1. lookup[t]._addr \in Times
    BY <2>0, LookupShape DEF At
  <2>2. now < lookup[t]._addr + Slow
    BY <2>0 DEF Tick
  <2>3. now - lookup[t]._addr \in 0..Slow
    BY <2>0 DEF AnswersOnTheirWay
  <2> QED BY <1>1, <2>1, <2>2, <2>3 DEF Times
<1> QED BY <1>2, <1>3, <1>4, <1>5

LEMMA DnsNextInv == DnsInv /\ [DnsNext]_dnsVars => DnsInv'
<1> SUFFICES ASSUME DnsInv, [DnsNext]_dnsVars PROVE DnsInv'
  OBVIOUS
<1>1. CASE UNCHANGED dnsVars
  BY <1>1 DEF dnsVars, DnsInv, DnsTypeOK, AddressesAreFresh, EntriesAreDated, AnswersOnTheirWay, At
<1>2. CASE DnsNext
  BY <1>2, DnsTickInv, DnsAskInv, DnsGetCacheInv, DnsAnswerInv, DnsSetCacheInv, DnsReturnInv DEF DnsNext, DnsStep
<1> QED BY <1>1, <1>2

(* Every step of the socket helpers is one of the cache, or none.          *)
LEMMA SockNextIsDnsNext == [SockNext]_uvars => [DnsNext]_dnsVars
<1> SUFFICES ASSUME SockNext \/ UNCHANGED uvars PROVE DnsNext \/ UNCHANGED dnsVars
  OBVIOUS
<1>1. CASE UNCHANGED uvars
  BY <1>1 DEF uvars
<1>2. CASE Tick
  BY <1>2 DEF DnsNext
<1>3. ASSUME NEW t \in Threads, Resolve(t) PROVE DnsNext
  BY <1>3 DEF Resolve, DnsNext
<1>4. ASSUME NEW t \in Threads,
             \/ \E op \in DOMAIN Plan, async \in Async : (op # "connect" => ~async) /\ Start(t, op, async)
             \/ Socket(t) \/ Try(t) \/ Connect(t) \/ Close(t) \/ GoOn(t) \/ Finish(t)
      PROVE  UNCHANGED dnsVars
  BY <1>4 DEF Start, Socket, Try, Connect, Close, GoOn, Finish
<1>5. ASSUME NEW f \in FDs, CallerCloses(f)
      PROVE  UNCHANGED dnsVars
  BY <1>5 DEF CallerCloses
<1> QED BY <1>1, <1>2, <1>3, <1>4, <1>5 DEF SockNext

(* The cache keeps to its types, whatever the callers do between its       *)
(* critical sections.                                                      *)
THEOREM DnsTypes == SockSpec => []DnsTypeOK
<1>1. SockInit => DnsInv
  BY DnsInitInv DEF SockInit
<1>2. DnsInv /\ [SockNext]_uvars => DnsInv'
  BY DnsNextInv, SockNextIsDnsNext
<1>3. DnsInv => DnsTypeOK
  BY DEF DnsInv
<1> QED BY <1>1, <1>2, <1>3, PTL DEF SockSpec

(* An address that connect gets from the cache is never older than the     *)
(* expiry and the delay of an answer together, although lookup, resolution *)
(* and storing are separate critical sections.                             *)
THEOREM FreshAddresses == SockSpec => []AddressesAreFresh
<1>1. SockInit => DnsInv
  BY DnsInitInv DEF SockInit
<1>2. DnsInv /\ [SockNext]_uvars => DnsInv'
  BY DnsNextInv, SockNextIsDnsNext
<1>3. DnsInv => AddressesAreFresh
  BY DEF DnsInv
<1> QED BY <1>1, <1>2, <1>3, PTL DEF SockSpec
-----------------------------------------------------------------------------
(* What the helpers do with their descriptors.  Before and After are what  *)
(* may be left to do of a helper without and with a descriptor.            *)

Before ==
  {<<"getDomainIP", "socket", "bind", "connect">>, <<"socket", "bind", "connect">>,
   <<"socket", "bind", "listen">>, <<"socket", "bind">>, <<"socket", "ioctl", "close">>, <<>>}
After ==
  {<<"bind", "connect">>, <<"connect">>, <<"bind", "listen">>, <<"listen">>, <<"bind">>,
   <<"ioctl", "close">>, <<"close">>, <<>>}
Connecting ==
  {<<"getDomainIP", "socket", "bind", "connect">>, <<"socket", "bind", "connect">>,
   <<"bind", "connect">>, <<"connect">>, <<"close">>, <<>>}
Asking == {<<"socket", "ioctl", "close">>, <<"ioctl", "close">>, <<"close">>, <<>>}

Ops == {"none", "connect", "listen", "bindUdpSock", "askInterface", "in_same_lan", "editRouteViaIP"}
Calls ==
  [op : Ops, async : BOOLEAN, todo : Before \cup After, then : {<<>>, AskInterface},
   fd : FDs \cup {0}, ok : BOOLEAN]
Conns == {"none", "connected", "EINPROGRESS", "EAGAIN", "ENOBUFS", "ECONNREFUSED"}
Sockets == [holder : Threads \cup {"caller", "nobody"}, conn : Conns]

(* A helper with a descriptor has still something to do with it, or it is  *)
(* on its way to the caller and no second search follows.                  *)
Shape(c) ==
  /\ c.fd = 0 => c.todo \in Before
  /\ c.fd # 0 => c.todo \in After
  /\ c.then # <<>> => c.todo \in Asking
  /\ c.fd # 0 /\ c.todo = <<>> => c.then = <<>>
  /\ c.op = "connect" => c.then = <<>> /\ c.todo \in Connecting

SockTypes == table \in [FDs -> Sockets] /\ call \in [Threads -> Calls]
Shapes == \A t \in Threads : Shape(call[t])
(* A connect that returns a descriptor it was not asked to hurry with. *)
Synchronous(c) == c.op = "connect" /\ c.todo = <<>> /\ c.fd # 0 /\ ~c.async
Connected == \A t \in Threads : Synchronous(call[t]) => table[call[t].fd].conn = "connected"

SockInv == SockTypes /\ Shapes /\ OneHolder /\ Connected

LEMMA TodoFacts ==
  /\ \A x : <<x>> # <<>> /\ Head(<<x>>) = x /\ Tail(<<x>>) = <<>>
  /\ \A x, y : <<x, y>> # <<>> /\ Head(<<x, y>>) = x /\ Tail(<<x, y>>) = <<y>>
  /\ \A x, y, z : <<x, y, z>> # <<>> /\ Head(<<x, y, z>>) = x /\ Tail(<<x, y, z>>) = <<y, z>>
  /\ \A x, y, z, w :
       <<x, y, z, w>> # <<>> /\ Head(<<x, y, z, w>>) = x /\ Tail(<<x, y, z, w>>) = <<y, z, w>>
OBVIOUS

(* What is left of a todo by its first call. *)
LEMMA TodoTails ==
  ASSUME NEW s \in Before \cup After, s # <<>>
  PROVE  /\ Head(s) \in {"getDomainIP", "socket"} => s \in Before \ After
         /\ Head(s) \in {"bind", "listen", "ioctl", "connect", "close"} => s \in After \ Before
         /\ Head(s) = "getDomainIP" => Tail(s) \in Before \cap Connecting /\ s \notin Asking
         /\ Head(s) = "socket" => Tail(s) \in After /\ Tail(s) # <<>>
         /\ Head(s) \in {"bind", "listen", "ioctl", "connect", "close"} => Tail(s) \in After
         /\ Head(s) \in {"bind", "listen", "connect"} => s \notin Asking
         /\ Head(s) = "ioctl" => Tail(s) # <<>>
         /\ Head(s) = "close" => Tail(s) = <<>>
         /\ s \in Connecting => Tail(s) \in Connecting
         /\ s \in Asking => Tail(s) \in Asking
         /\ s \in Connecting /\ Head(s) \in {"bind", "listen", "ioctl"} => Tail(s) # <<>>
<1> USE TodoFacts
<1>1. CASE s = <<"getDomainIP", "socket", "bind", "connect">>
  BY <1>1 DEF Before, After, Connecting, Asking
<1>2. CASE s = <<"socket", "bind", "connect">>
  BY <1>2 DEF Before, After, Connecting, Asking
<1>3. CASE s = <<"socket", "bind", "listen">>
  BY <1>3 DEF Before, After, Connecting, Asking
<1>4. CASE s = <<"socket", "bind">>
  BY <1>4 DEF Before, After, Connecting, Asking
<1>5. CASE s = <<"socket", "ioctl", "close">>
  BY <1>5 DEF Before, After, Connecting, Asking
<1>6. CASE s = <<"bind", "connect">>
  BY <1>6 DEF Before, After, Connecting, Asking
<1>7. CASE s = <<"connect">>
  BY <1>7 DEF Before, After, Connecting, Asking
<1>8. CASE s = <<"bind", "listen">>
  BY <1>8 DEF Before, After, Connecting, Asking
<1>9. CASE s = <<"listen">>
  BY <1>9 DEF Before, After, Connecting, Asking
<1>10. CASE s = <<"bind">>
  BY <1>10 DEF Before, After, Connecting, Asking
<1>11. CASE s = <<"ioctl", "close">>
  BY <1>11 DEF Before, After, Connecting, Asking
<1>12. CASE s = <<"close">>
  BY <1>12 DEF Before, After, Connecting, Asking
<1> QED
  BY <1>1, <1>2, <1>3, <1>4, <1>5, <1>6, <1>7, <1>8, <1>9, <1>10, <1>11, <1>12 DEF Before, After

(* The record of a call after one of its steps.  c and d are what they are *)
(* as constants: the call before and after.                                *)
LEMMA ProceedShape ==
  ASSUME NEW c \in Calls, Shape(c), c.todo # <<>>, NEW f \in FDs \cup {0},
         \/ Head(c.todo) = "getDomainIP" /\ f = c.fd
         \/ Head(c.todo) = "socket" /\ f \in FDs
         \/ Head(c.todo) \in {"bind", "listen", "ioctl", "connect"} /\ f = c.fd
         \/ Head(c.todo) = "close" /\ f = 0,
         NEW d, d = [[c EXCEPT !.todo = Tail(c.todo)] EXCEPT !.fd = f]
  PROVE  d \in Calls /\ Shape(d)
<1>1. c.todo \in Before \cup After /\ c.fd \in FDs \cup {0} /\ 0 \notin FDs /\ c.then \in {<<>>, AskInterface}
  BY SockAssumption DEF Calls
<1>2. Tail(c.todo) \in Before \cup After
  BY <1>1, TodoTails DEF Before, After
<1>3. d \in Calls
  BY <1>2 DEF Calls
<1>4. d.todo = Tail(c.todo) /\ d.fd = f /\ d.then = c.then /\ d.op = c.op
  BY <1>2 DEF Calls
<1>5. Head(c.todo) \in {"getDomainIP", "socket", "bind", "listen", "ioctl", "connect", "close"}
  OBVIOUS
<1>6. /\ Head(c.todo) \in {"getDomainIP", "socket"} => c.fd = 0
      /\ Head(c.todo) \in {"bind", "listen", "ioctl", "connect", "close"} => c.fd # 0
  BY <1>1, TodoTails DEF Shape
<1>7. <<>> \in Before
  BY DEF Before
<1> HIDE DEF Calls
<1>8. (d.fd = 0 => d.todo \in Before) /\ (d.fd # 0 => d.todo \in After)
  <2>1. CASE Head(c.todo) = "getDomainIP"
    BY <1>1, <1>4, <1>6, <2>1, TodoTails
  <2>2. CASE Head(c.todo) = "socket"
    <3>1. Tail(c.todo) \in After
      BY <1>1, <2>2, TodoTails
    <3>2. f \in FDs
      BY <2>2
    <3> QED BY <1>1, <1>4, <3>1, <3>2
  <2>3. CASE Head(c.todo) \in {"bind", "listen", "ioctl", "connect"}
    BY <1>1, <1>4, <1>6, <2>3, TodoTails
  <2>4. CASE Head(c.todo) = "close"
    <3>1. Tail(c.todo) = <<>>
      BY <1>1, <2>4, TodoTails
    <3>2. f = 0
      BY <2>4
    <3> QED BY <1>4, <1>7, <3>1, <3>2
  <2> QED BY <2>1, <2>2, <2>3, <2>4
<1>9. d.then # <<>> => d.todo \in Asking
  BY <1>1, <1>4, TodoTails DEF Shape
<1>10. d.fd # 0 /\ d.todo = <<>> => d.then = <<>>
  BY <1>1, <1>4, <1>5, <1>6, TodoTails DEF Shape
<1>11. d.op = "connect" => d.then = <<>> /\ d.todo \in Connecting
  BY <1>1, <1>4, TodoTails DEF Shape
<1> QED BY <1>3, <1>8, <1>9, <1>10, <1>11 DEF Shape

LEMMA GiveUpShape ==
  ASSUME NEW c \in Calls, Shape(c), NEW d,
         d = [c EXCEPT !.ok = FALSE, !.todo = IF c.fd = 0 THEN <<>> ELSE <<"close">>]
  PROVE  d \in Calls /\ Shape(d) /\ d.fd = c.fd /\ d.op = c.op /\ (d.fd # 0 => d.todo # <<>>)
<1>1. /\ <<>> \in Before /\ <<"close">> \in After
      /\ {<<>>, <<"close">>} \subseteq Asking \cap Connecting /\ <<"close">> # <<>>
  BY TodoFacts DEF Before, After, Asking, Connecting
<1>2. d \in Calls
  BY <1>1 DEF Calls
<1>3. d.todo = (IF c.fd = 0 THEN <<>> ELSE <<"close">>) /\ d.fd = c.fd /\ d.then = c.then /\ d.op = c.op
  BY <1>1 DEF Calls
<1> QED BY <1>1, <1>2, <1>3 DEF Shape

-----------------------------------------------------------------------------
(* A step that changes one thread's call. *)
LEMMA CallBecomes ==
  ASSUME SockTypes, Shapes, NEW t \in Threads, NEW c \in Calls, Shape(c), Becomes(t, c)
  PROVE  /\ call' \in [Threads -> Calls]
         /\ Shapes'
         /\ \A u \in Threads : call'[u] = IF u = t THEN c ELSE call[u]
<1> HIDE DEF Calls
<1>1. \A u \in Threads : call'[u] = IF u = t THEN c ELSE call[u]
  BY DEF Becomes, SockTypes
<1>2. call' \in [Threads -> Calls]
  BY DEF Becomes, SockTypes
<1>3. Shapes'
  BY <1>1 DEF Shapes
<1> QED BY <1>1, <1>2, <1>3

(* When neither the table nor the thread's own descriptor changes. *)
LEMMA SameDescriptor ==
  ASSUME SockInv, NEW t \in Threads, NEW c \in Calls, Shape(c), Becomes(t, c), table' = table,
         c.fd = call[t].fd, ~Synchronous(c)
  PROVE  SockInv'
<1>1. /\ call' \in [Threads -> Calls] /\ Shapes'
      /\ \A u \in Threads : call'[u] = IF u = t THEN c ELSE call[u]
  BY CallBecomes DEF SockInv
<1>2. OneHolder'
  BY <1>1 DEF SockInv, OneHolder, Held
<1>3. Connected'
  BY <1>1 DEF SockInv, Connected
<1> QED BY <1>1, <1>2, <1>3 DEF SockInv, SockTypes

LEMMA SockInitInv == SockInit => SockInv
<1> SUFFICES ASSUME SockInit PROVE SockInv
  OBVIOUS
<1>1. table \in [FDs -> Sockets]
  BY DEF SockInit, Closed, Fresh, Sockets, Conns
<1>2. call \in [Threads -> Calls] /\ Shapes
  BY DEF SockInit, NoCall, Calls, Ops, Before, After, Shapes, Shape
<1>3. OneHolder /\ Connected
  BY SockAssumption DEF SockInit, OneHolder, Held, NoCall, Closed, Fresh, Connected, Synchronous
<1> QED BY <1>1, <1>2, <1>3 DEF SockInv, SockTypes

LEMMA StartInv ==
  ASSUME SockInv, NEW t \in Threads, NEW op \in DOMAIN Plan, NEW async \in Async, Start(t, op, async)
  PROVE  SockInv'
<1> DEFINE c == [op |-> op, async |-> async, todo |-> Plan[op], then |-> Then(op), fd |-> 0, ok |-> TRUE]
<1>1. Becomes(t, c) /\ table' = table /\ call[t].fd = 0
  BY DEF Start, NoCall
<1>2. op \in Ops \ {"none"}
  BY DEF Plan, Ops
<1>3. /\ Plan[op] \in Before
      /\ Plan[op] # <<>>
      /\ op \in {"in_same_lan", "editRouteViaIP"} => Plan[op] \in Asking
      /\ op = "connect" => Plan[op] \in Connecting
  <2>2. CASE op = "connect"
    BY <2>2, TodoFacts DEF Plan, Before, Connecting
  <2>3. CASE op \in {"listen", "bindUdpSock"}
    BY <2>3, TodoFacts DEF Plan, Before
  <2>4. CASE op \in {"askInterface", "in_same_lan", "editRouteViaIP"}
    BY <2>4, TodoFacts DEF Plan, Before, AskInterface, Asking
  <2> QED BY <1>2, <2>2, <2>3, <2>4 DEF Ops
<1>4. /\ Then(op) \in {<<>>, AskInterface}
      /\ Then(op) # <<>> => op \in {"in_same_lan", "editRouteViaIP"}
  BY DEF Then
<1>5. c \in Calls
  BY <1>2, <1>3, <1>4, SockAssumption DEF Calls
<1>6. Shape(c) /\ ~Synchronous(c)
  BY <1>3, <1>4 DEF Shape, Synchronous
<1> HIDE DEF c
<1>7. c.fd = call[t].fd
  BY <1>1 DEF c
<1> QED BY <1>1, <1>5, <1>6, <1>7, SameDescriptor

(* The resolver's steps leave the call alone, or end like any other. *)
LEMMA CallShape ==
  ASSUME SockInv, NEW t \in Threads
  PROVE  /\ call[t] \in Calls /\ Shape(call[t])
         /\ Next1(t) # "end" <=> call[t].todo # <<>>
         /\ Next1(t) # "end" => Head(call[t].todo) = Next1(t)
<1>1. call[t] \in Calls /\ Shape(call[t])
  <2> HIDE DEF Calls
  <2> QED BY DEF SockInv, SockTypes, Shapes
<1>2. ASSUME call[t].todo # <<>> PROVE Head(call[t].todo) # "end"
  <2> DEFINE s == call[t].todo
  <2>1. s \in Before \cup After
    BY <1>1 DEF Calls
  <2> HIDE DEF s
  <2>2. s # <<>> => Head(s) # "end"
    BY <2>1, TodoFacts DEF Before, After
  <2> QED BY <1>2, <2>2 DEF s
<1> QED BY <1>1, <1>2 DEF Next1

(* What a thread holds is a descriptor of the table. *)
LEMMA HeldIs ==
  ASSUME NEW k \in [Threads -> Calls]
  PROVE  \A t \in Threads : k[t].fd \in FDs \cup {0}
BY DEF Calls

LEMMA ProceedInv ==
  ASSUME SockInv, NEW t \in Threads, Next1(t) \in {"getDomainIP", "bind", "listen", "ioctl"},
         Becomes(t, Proceed(t)), table' = table
  PROVE  SockInv'
<1> DEFINE c == call[t]
           d == Proceed(t)
<1>1. c \in Calls /\ Shape(c) /\ c.todo # <<>> /\ Head(c.todo) = Next1(t)
  BY CallShape
<1>2. c.todo \in Before \cup After /\ c.fd \in FDs \cup {0}
  BY <1>1 DEF Calls
<1>3. d = [[c EXCEPT !.todo = Tail(c.todo)] EXCEPT !.fd = c.fd]
  <2>1. Tail(c.todo) \in Before \cup After
    BY <1>1, <1>2, TodoTails DEF Before, After
  <2> QED BY <1>1, <2>1 DEF Proceed, Calls
<1>4. d \in Calls /\ Shape(d)
  <2> HIDE DEF c, d, Calls
  <2> QED BY <1>1, <1>2, <1>3, ProceedShape
<1>5. d.fd = c.fd /\ d.op = c.op /\ d.todo = Tail(c.todo)
  BY <1>1 DEF Proceed, Calls
<1>6. ~Synchronous(d)
  <2>1. CASE Next1(t) = "getDomainIP"
    <3>1. c.fd = 0
      BY <1>1, <1>2, <2>1, TodoTails DEF Shape
    <3> QED BY <1>5, <3>1 DEF Synchronous
  <2>2. CASE Next1(t) \in {"bind", "listen", "ioctl"}
    <3>1. c.op = "connect" => c.todo \in Connecting
      BY <1>1 DEF Shape
    <3>2. c.op = "connect" => Tail(c.todo) # <<>>
      BY <1>1, <1>2, <2>2, <3>1, TodoTails
    <3> QED BY <1>5, <3>2 DEF Synchronous
  <2> QED BY <2>1, <2>2
<1> HIDE DEF d
<1> QED BY <1>4, <1>5, <1>6, SameDescriptor DEF d

LEMMA GiveUpInv ==
  ASSUME SockInv, NEW t \in Threads, Becomes(t, GiveUp(t)), table' = table
  PROVE  SockInv'
<1> DEFINE c == call[t]
           d == GiveUp(t)
<1>1. c \in Calls /\ Shape(c)
  BY CallShape
<1>2. d = [c EXCEPT !.ok = FALSE, !.todo = IF c.fd = 0 THEN <<>> ELSE <<"close">>]
  BY DEF GiveUp
<1>3. d \in Calls /\ Shape(d) /\ d.fd = c.fd /\ (d.fd # 0 => d.todo # <<>>)
  <2> HIDE DEF c, d, Calls
  <2> QED BY <1>1, <1>2, GiveUpShape
<1>4. ~Synchronous(d)
  BY <1>3 DEF Synchronous
<1> HIDE DEF d, Calls
<1> QED BY <1>3, <1>4, SameDescriptor DEF d

LEMMA ResolveInv ==
  ASSUME SockInv, NEW t \in Threads, Resolve(t)
  PROVE  SockInv'
<1>1. CASE UNCHANGED sockVars
  BY <1>1 DEF sockVars, SockInv, SockTypes, Shapes, OneHolder, Held, Connected
<1>2. CASE Becomes(t, Proceed(t)) /\ table' = table
  BY <1>2, ProceedInv DEF Resolve
<1>3. CASE Becomes(t, GiveUp(t)) /\ table' = table
  BY <1>3, GiveUpInv
<1> QED BY <1>1, <1>2, <1>3 DEF Resolve, sockVars

LEMMA TryInv ==
  ASSUME SockInv, NEW t \in Threads, Try(t)
  PROVE  SockInv'
BY ProceedInv, GiveUpInv DEF Try

LEMMA SocketInv ==
  ASSUME SockInv, NEW t \in Threads, Socket(t)
  PROVE  SockInv'
<1> DEFINE c == call[t]
<1>1. c \in Calls /\ Shape(c) /\ c.todo # <<>> /\ Head(c.todo) = "socket"
  BY CallShape DEF Socket
<1>2. c.todo \in Before \cup After /\ c.fd \in FDs \cup {0}
  BY <1>1 DEF Calls
<1>3. c.fd = 0
  BY <1>1, <1>2, TodoTails DEF Shape
<1>4. CASE Becomes(t, GiveUp(t)) /\ table' = table
  BY <1>4, GiveUpInv
<1>5. ASSUME NEW f \in Free, table' = [table EXCEPT ![f] = Fresh(t)], Becomes(t, [Proceed(t) EXCEPT !.fd = f])
      PROVE  SockInv'
  <2> DEFINE d == [Proceed(t) EXCEPT !.fd = f]
  <2>1. f \in FDs /\ f # 0 /\ table[f] = Closed
    BY SockAssumption DEF Free
  <2>2. d = [[c EXCEPT !.todo = Tail(c.todo)] EXCEPT !.fd = f]
    BY DEF Proceed
  <2>3. d \in Calls /\ Shape(d)
    <3> HIDE DEF c, d, Calls
    <3> QED BY <1>1, <2>1, <2>2, ProceedShape
  <2>4. d.fd = f /\ d.todo = Tail(c.todo) /\ d.todo # <<>>
    <3>1. Tail(c.todo) \in After /\ Tail(c.todo) # <<>>
      BY <1>1, <1>2, TodoTails
    <3> QED BY <1>1, <2>1, <3>1 DEF Proceed, Calls
  <2> HIDE DEF d
  <2>5. call' \in [Threads -> Calls] /\ Shapes' /\ \A u \in Threads : call'[u] = IF u = t THEN d ELSE call[u]
    <3> HIDE DEF Calls
    <3> QED BY <1>5, <2>3, CallBecomes DEF d, SockInv
  <2> DEFINE x == [holder |-> t, conn |-> "none"]
  <2>6. Fresh(t) = x /\ x \in Sockets
    BY DEF Fresh, Sockets, Conns
  <2>7. table' \in [FDs -> Sockets] /\ \A g \in FDs : table'[g] = IF g = f THEN x ELSE table[g]
    BY <1>5, <2>1, <2>6 DEF SockInv, SockTypes
  <2>8. \A u \in Threads : call[u].fd # f
    BY <2>1, SockAssumption DEF SockInv, OneHolder, Held, Closed, Fresh
  <2>9. OneHolder'
    <3>1. ASSUME NEW g \in FDs, table'[g] # Closed
          PROVE  table'[g].holder = Caller \/ \E u \in Threads : table'[g].holder = u /\ call'[u].fd = g
      <4>1. CASE g = f
        BY <2>4, <2>5, <2>7, <4>1
      <4>2. CASE g # f
        <5>1. table[g] # Closed
          BY <2>7, <3>1, <4>2
        <5> QED BY <1>3, <2>5, <2>7, <4>2, <5>1, SockAssumption DEF SockInv, OneHolder
      <4> QED BY <4>1, <4>2
    <3>2. ASSUME NEW u \in Threads, NEW g \in FDs, call'[u].fd = g
          PROVE  table'[g].holder = u
      BY <2>4, <2>5, <2>7, <2>8, <3>2, SockAssumption DEF SockInv, OneHolder, Held
    <3>3. \A u \in Threads : call'[u].fd \in FDs \cup {0}
      BY <2>5, HeldIs
    <3> QED BY <3>1, <3>2, <3>3 DEF OneHolder, Held
  <2>10. Connected'
    <3>1. \A u \in Threads : call[u].fd \in FDs \cup {0}
      BY HeldIs DEF SockInv, SockTypes
    <3>2. ~Synchronous(d)
      BY <2>4 DEF Synchronous
    <3> QED BY <2>5, <2>7, <2>8, <3>1, <3>2 DEF SockInv, Connected, Synchronous
  <2> QED BY <2>5, <2>7, <2>9, <2>10 DEF SockInv, SockTypes
<1> QED BY <1>4, <1>5 DEF Socket

(* One socket of the table changes. *)
LEMMA SocketBecomes ==
  ASSUME SockTypes, NEW f \in FDs, NEW x \in Sockets, table' = [table EXCEPT ![f] = x]
  PROVE  table' \in [FDs -> Sockets] /\ \A g \in FDs : table'[g] = IF g = f THEN x ELSE table[g]
<1> HIDE DEF Sockets
<1> QED BY DEF SockTypes

(* A descriptor belongs to one thread at most, and not to the caller too. *)
LEMMA HoldsAlone ==
  ASSUME SockInv, NEW t \in Threads, call[t].fd # 0
  PROVE  /\ call[t].fd \in FDs /\ table[call[t].fd] \in Sockets /\ table[call[t].fd].holder = t
         /\ t # "caller" /\ t # "nobody"
         /\ \A u \in Threads : u # t => call[u].fd # call[t].fd
<1>1. call[t].fd \in FDs
  BY HeldIs DEF SockInv, SockTypes
<1>2. table[call[t].fd] \in Sockets
  BY <1>1 DEF SockInv, SockTypes
<1>3. \A u \in Threads : call[u].fd = call[t].fd => table[call[t].fd].holder = u
  BY <1>1 DEF SockInv, OneHolder, Held
<1> QED BY <1>1, <1>2, <1>3, SockAssumption

(* The thread goes on with its socket. *)
LEMMA OwnSocketChanges ==
  ASSUME SockInv, NEW t \in Threads, NEW x \in Sockets, NEW c \in Calls, Shape(c), Becomes(t, c),
         call[t].fd # 0, c.fd = call[t].fd, table' = [table EXCEPT ![call[t].fd] = x],
         x.holder = t, Synchronous(c) => x.conn = "connected"
  PROVE  SockInv'
<1> DEFINE f == call[t].fd
<1> HIDE DEF Calls, Sockets
<1>1. /\ f \in FDs /\ table[f].holder = t /\ t # "caller" /\ t # "nobody"
      /\ \A u \in Threads : u # t => call[u].fd # f
  BY HoldsAlone
<1>2. table' \in [FDs -> Sockets] /\ \A g \in FDs : table'[g] = IF g = f THEN x ELSE table[g]
  BY <1>1, SocketBecomes DEF SockInv
<1>3. /\ call' \in [Threads -> Calls] /\ Shapes'
      /\ \A u \in Threads : call'[u] = IF u = t THEN c ELSE call[u]
  BY CallBecomes DEF SockInv
<1>4. \A u \in Threads : call[u].fd \in FDs \cup {0}
  BY HeldIs DEF SockInv, SockTypes
<1> HIDE DEF f
<1>5. c.fd = f /\ f # 0
  BY DEF f
<1>6. OneHolder'
  <2>1. ASSUME NEW g \in FDs, table'[g] # Closed
        PROVE  table'[g].holder = Caller \/ \E u \in Threads : table'[g].holder = u /\ call'[u].fd = g
    <3>1. CASE g = f
      BY <1>2, <1>3, <1>5, <3>1
    <3>2. CASE g # f
      <4>1. table'[g] = table[g]
        BY <1>2, <3>2
      <4>2. table[g].holder = Caller \/ \E u \in Threads : table[g].holder = u /\ call[u].fd = g
        BY <2>1, <4>1 DEF SockInv, OneHolder
      <4>3. call[t].fd = f
        BY DEF f
      <4> QED BY <1>3, <3>2, <4>1, <4>2, <4>3
    <3> QED BY <3>1, <3>2
  <2>2. ASSUME NEW u \in Threads, NEW g \in Held(u)'
        PROVE  table'[g].holder = u
    BY <1>1, <1>2, <1>3, <1>4, <1>5, <2>2 DEF SockInv, OneHolder, Held
  <2> QED BY <2>1, <2>2 DEF OneHolder
<1>7. Connected'
  BY <1>1, <1>2, <1>3, <1>4, <1>5 DEF SockInv, Connected, Synchronous
<1> QED BY <1>2, <1>3, <1>6, <1>7 DEF SockInv, SockTypes

(* The thread parts with its socket: closed, or the caller's. *)
LEMMA OwnSocketLeft ==
  ASSUME SockInv, NEW t \in Threads, NEW x \in Sockets, NEW c \in Calls, Shape(c), Becomes(t, c),
         call[t].fd # 0, c.fd = 0, table' = [table EXCEPT ![call[t].fd] = x],
         x = Closed \/ x.holder = Caller
  PROVE  SockInv'
<1> DEFINE f == call[t].fd
<1> HIDE DEF Calls, Sockets
<1>1. /\ f \in FDs /\ table[f].holder = t /\ t # "caller" /\ t # "nobody"
      /\ \A u \in Threads : u # t => call[u].fd # f
  BY HoldsAlone
<1>2. table' \in [FDs -> Sockets] /\ \A g \in FDs : table'[g] = IF g = f THEN x ELSE table[g]
  BY <1>1, SocketBecomes DEF SockInv
<1>3. /\ call' \in [Threads -> Calls] /\ Shapes'
      /\ \A u \in Threads : call'[u] = IF u = t THEN c ELSE call[u]
  BY CallBecomes DEF SockInv
<1>4. \A u \in Threads : call[u].fd \in FDs \cup {0}
  BY HeldIs DEF SockInv, SockTypes
<1> HIDE DEF f
<1>6. OneHolder'
  <2>1. ASSUME NEW g \in FDs, table'[g] # Closed
        PROVE  table'[g].holder = Caller \/ \E u \in Threads : table'[g].holder = u /\ call'[u].fd = g
    <3>1. CASE g = f
      BY <1>2, <2>1, <3>1
    <3>2. CASE g # f
      <4>1. table'[g] = table[g]
        BY <1>2, <3>2
      <4>2. table[g].holder = Caller \/ \E u \in Threads : table[g].holder = u /\ call[u].fd = g
        BY <2>1, <4>1 DEF SockInv, OneHolder
      <4>3. call[t].fd = f
        BY DEF f
      <4> QED BY <1>3, <3>2, <4>1, <4>2, <4>3
    <3> QED BY <3>1, <3>2
  <2>2. ASSUME NEW u \in Threads, NEW g \in Held(u)'
        PROVE  table'[g].holder = u
    BY <1>1, <1>2, <1>3, <1>4, <2>2 DEF SockInv, OneHolder, Held
  <2> QED BY <2>1, <2>2 DEF OneHolder
<1>7. Connected'
  BY <1>1, <1>2, <1>3, <1>4 DEF SockInv, Connected, Synchronous
<1> QED BY <1>2, <1>3, <1>6, <1>7 DEF SockInv, SockTypes

(* A caller does something to a socket no helper works on. *)
LEMMA CallersSocketChanges ==
  ASSUME SockInv, NEW f \in FDs, Usable(f), NEW x \in Sockets, table' = [table EXCEPT ![f] = x], call' = call,
         x = Closed \/ x.holder = Caller
  PROVE  SockInv'
<1> HIDE DEF Calls, Sockets
<1>1. table' \in [FDs -> Sockets] /\ \A g \in FDs : table'[g] = IF g = f THEN x ELSE table[g]
  BY SocketBecomes DEF SockInv
<1>2. \A u \in Threads : call[u].fd \in FDs \cup {0} /\ call[u].fd # f
  BY HeldIs DEF SockInv, SockTypes, Usable
<1>3. OneHolder'
  BY <1>1, <1>2 DEF SockInv, OneHolder, Held
<1>4. Connected'
  BY <1>1, <1>2 DEF SockInv, Connected, Synchronous
<1> QED BY <1>1, <1>3, <1>4 DEF SockInv, SockTypes, Shapes

LEMMA ConnectInv ==
  ASSUME SockInv, NEW t \in Threads, Connect(t)
  PROVE  SockInv'
<1> DEFINE c == call[t]
           f == c.fd
<1>1. c \in Calls /\ Shape(c) /\ c.todo # <<>> /\ Head(c.todo) = "connect"
  BY CallShape DEF Connect
<1>2. c.todo \in Before \cup After /\ c.fd \in FDs \cup {0} /\ f # 0 /\ Tail(c.todo) \in After
  <2>1. c.todo \in Before \cup After /\ c.fd \in FDs \cup {0}
    BY <1>1 DEF Calls
  <2> QED BY <1>1, <2>1, TodoTails DEF Shape
<1>3. f \in FDs /\ table[f] \in Sockets /\ table[f].holder = t
  BY <1>2, HoldsAlone
<1>4. ASSUME NEW conn \in Conns, NEW x, x = [table[f] EXCEPT !.conn = conn]
      PROVE  x \in Sockets /\ x.holder = t /\ x.conn = conn
  <2>1. x \in Sockets /\ x.holder = t /\ x.conn = conn
    BY <1>3, <1>4 DEF Sockets
  <2> QED BY <1>3, <2>1 DEF SockInv
<1>5. Proceed(t) \in Calls /\ Shape(Proceed(t)) /\ Proceed(t).fd = f /\ Proceed(t).async = c.async
  <2>1. Proceed(t) = [[c EXCEPT !.todo = Tail(c.todo)] EXCEPT !.fd = c.fd]
    BY <1>1, <1>2 DEF Proceed, Calls
  <2>2. Proceed(t).fd = f /\ Proceed(t).async = c.async
    BY <1>1 DEF Proceed, Calls
  <2>3. ASSUME NEW d, d = [[c EXCEPT !.todo = Tail(c.todo)] EXCEPT !.fd = c.fd]
        PROVE  d \in Calls /\ Shape(d)
    <3> HIDE DEF c, Calls
    <3> QED BY <1>1, <1>2, <2>3, ProceedShape
  <2> HIDE DEF Calls
  <2> QED BY <2>1, <2>2, <2>3
<1>6. GiveUp(t) \in Calls /\ Shape(GiveUp(t)) /\ GiveUp(t).fd = f /\ ~Synchronous(GiveUp(t))
  <2> HIDE DEF Calls
  <2> QED BY <1>1, <1>2, GiveUpShape DEF GiveUp, Synchronous
<1> DEFINE X(conn) == [table[f] EXCEPT !.conn = conn]
<1>7. CASE table' = [table EXCEPT ![f].conn = "connected"] /\ Becomes(t, Proceed(t))
  <2>1. table' = [table EXCEPT ![f] = X("connected")]
    BY <1>7
  <2>2. X("connected") \in Sockets /\ X("connected").holder = t /\ X("connected").conn = "connected"
    BY <1>4 DEF Conns
  <2> HIDE DEF X, Calls, Sockets
  <2> QED BY <1>2, <1>5, <1>7, <2>1, <2>2, OwnSocketChanges
<1>8. ASSUME NEW errno \in ConnectErrno(c.async), table' = [table EXCEPT ![f].conn = errno],
             Becomes(t, IF IsUnderWay(t, errno) THEN Proceed(t) ELSE GiveUp(t))
      PROVE  SockInv'
  <2> DEFINE d == IF IsUnderWay(t, errno) THEN Proceed(t) ELSE GiveUp(t)
  <2>1. table' = [table EXCEPT ![f] = X(errno)]
    BY <1>8
  <2>2. errno \in Conns
    BY DEF ConnectErrno, Conns
  <2>3. X(errno) \in Sockets /\ X(errno).holder = t
    BY <1>4, <2>2
  <2>4. d \in Calls /\ Shape(d) /\ d.fd = f /\ ~Synchronous(d)
    <3>1. IsUnderWay(t, errno) => ~Synchronous(Proceed(t))
      BY <1>5 DEF IsUnderWay, Synchronous
    <3> HIDE DEF Calls
    <3> QED BY <1>5, <1>6, <3>1
  <2> HIDE DEF X, Calls, Sockets
  <2> QED BY <1>2, <1>8, <2>1, <2>3, <2>4, OwnSocketChanges
<1> QED BY <1>7, <1>8 DEF Connect

LEMMA CloseInv ==
  ASSUME SockInv, NEW t \in Threads, Close(t)
  PROVE  SockInv'
<1> DEFINE c == call[t]
           d == [Proceed(t) EXCEPT !.fd = 0]
<1>1. c \in Calls /\ Shape(c) /\ c.todo # <<>> /\ Head(c.todo) = "close"
  BY CallShape DEF Close
<1>2. c.todo \in Before \cup After /\ c.fd \in FDs \cup {0} /\ c.fd # 0
  <2>1. c.todo \in Before \cup After /\ c.fd \in FDs \cup {0}
    BY <1>1 DEF Calls
  <2> QED BY <1>1, <2>1, TodoTails DEF Shape
<1>3. d = [[c EXCEPT !.todo = Tail(c.todo)] EXCEPT !.fd = 0]
  BY DEF Proceed
<1>4. d \in Calls /\ Shape(d)
  <2> HIDE DEF c, d, Calls
  <2> QED BY <1>1, <1>3, ProceedShape
<1>5. d.fd = 0
  <2>1. Tail(c.todo) \in Before \cup After
    BY <1>1, <1>2, TodoTails DEF After
  <2> QED BY <1>1, <2>1 DEF Proceed, Calls
<1>6. Closed \in Sockets
  BY DEF Closed, Fresh, Sockets, Conns
<1>7. Becomes(t, d) /\ table' = [table EXCEPT ![c.fd] = Closed]
  BY DEF Close
<1> HIDE DEF d, Calls, Sockets
<1> QED BY <1>2, <1>4, <1>5, <1>6, <1>7, OwnSocketLeft

LEMMA GoOnInv ==
  ASSUME SockInv, NEW t \in Threads, GoOn(t)
  PROVE  SockInv'
<1> DEFINE c == call[t]
           d == [c EXCEPT !.todo = c.then, !.then = <<>>]
<1>1. c \in Calls /\ Shape(c) /\ c.todo = <<>> /\ c.then # <<>>
  BY CallShape DEF GoOn
<1>2. c.fd = 0 /\ c.op # "connect" /\ c.then = AskInterface /\ AskInterface \in Before \cap Asking
  BY <1>1 DEF Shape, Calls, Before, Asking, AskInterface
<1>3. d \in Calls /\ d.op = c.op /\ d.fd = 0 /\ d.then = <<>> /\ d.todo = AskInterface
  BY <1>1, <1>2 DEF Calls
<1>4. Shape(d) /\ ~Synchronous(d)
  BY <1>2, <1>3 DEF Shape, Synchronous
<1>5. Becomes(t, d) /\ table' = table
  BY DEF GoOn
<1> HIDE DEF d, Calls
<1> QED BY <1>2, <1>3, <1>4, <1>5, SameDescriptor

LEMMA FinishInv ==
  ASSUME SockInv, NEW t \in Threads, Finish(t)
  PROVE  SockInv'
<1> DEFINE f == call[t].fd
<1>1. NoCall \in Calls /\ Shape(NoCall) /\ ~Synchronous(NoCall) /\ NoCall.fd = 0
  BY DEF NoCall, Calls, Ops, Before, Shape, Synchronous
<1>2. Becomes(t, NoCall) /\ table' = IF f = 0 THEN table ELSE [table EXCEPT ![f].holder = Caller]
  BY DEF Finish
<1>3. CASE f = 0
  <2> HIDE DEF Calls
  <2> QED BY <1>1, <1>2, <1>3, SameDescriptor
<1>4. CASE f # 0
  <2> DEFINE x == [table[f] EXCEPT !.holder = Caller]
  <2>1. f \in FDs /\ table[f] \in Sockets
    BY <1>4, HoldsAlone
  <2>2. x \in Sockets /\ x.holder = Caller
    BY <2>1 DEF Sockets, Caller
  <2>4. table' = [table EXCEPT ![f] = x]
    BY <1>2, <1>4
  <2> HIDE DEF x, Calls, Sockets
  <2> QED BY <1>1, <1>2, <1>4, <2>2, <2>4, OwnSocketLeft
<1> QED BY <1>3, <1>4

LEMMA CallersInv ==
  ASSUME SockInv, NEW f \in FDs, CallerCloses(f)
  PROVE  SockInv'
<1>1. Closed \in Sockets
  BY DEF Closed, Fresh, Sockets, Conns
<1> HIDE DEF Sockets
<1> QED BY <1>1, CallersSocketChanges DEF CallerCloses

LEMMA SockNextInv == SockInv /\ [SockNext]_uvars => SockInv'
<1> SUFFICES ASSUME SockInv, SockNext \/ UNCHANGED uvars PROVE SockInv'
  OBVIOUS
<1>1. CASE UNCHANGED sockVars
  BY <1>1 DEF sockVars, SockInv, SockTypes, Shapes, OneHolder, Held, Connected
<1>2. ASSUME NEW t \in Threads,
             \/ \E op \in DOMAIN Plan, async \in Async : (op # "connect" => ~async) /\ Start(t, op, async)
             \/ Resolve(t) \/ Socket(t) \/ Try(t) \/ Connect(t) \/ Close(t) \/ GoOn(t) \/ Finish(t)
      PROVE  SockInv'
  BY <1>2, StartInv, ResolveInv, SocketInv, TryInv, ConnectInv, CloseInv, GoOnInv, FinishInv
<1> QED BY <1>1, <1>2, CallersInv DEF SockNext, uvars

(* No helper leaks a descriptor, and none closes one that is somebody      *)
(* else's by then, however many threads open and close sockets.            *)
THEOREM DescriptorsHaveOneHolder == SockSpec => []OneHolder
<1>1. SockInv => OneHolder
  BY DEF SockInv
<1> QED BY SockInitInv, SockNextInv, <1>1, PTL DEF SockSpec

(* What a synchronous connect returns is connected. *)
THEOREM SyncConnects == SockSpec => []SyncConnectIsConnected
<1>1. SockInv => SyncConnectIsConnected
  <2> SUFFICES ASSUME SockInv, NEW t \in Threads, Returning(t), ~call[t].async
               PROVE  table[call[t].fd].conn = "connected"
    BY DEF SyncConnectIsConnected
  <2>1. Synchronous(call[t])
    BY CallShape DEF Returning, Synchronous
  <2> QED BY <2>1 DEF SockInv, Connected
<1> QED BY SockInitInv, SockNextInv, <1>1, PTL DEF SockSpec
===============================================================================
