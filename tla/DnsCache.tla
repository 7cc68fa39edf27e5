------------------------------- MODULE DnsCache -------------------------------
(***************************************************************************)
(* class DnsCache of source/network/sockutil.cpp: resolved addresses kept  *)
(* for a while, shared by every thread that connects.  The cache is looked *)
(* up, the resolver is asked and the answer is stored in three steps, the  *)
(* first and the last with _mtx held, the middle one without.              *)
(*                                                                         *)
(* An address is represented by the time at which the resolver answered    *)
(* it, which is all that tells a good answer from one gone stale.          *)
(***************************************************************************)
EXTENDS Integers

CONSTANTS
  Threads,
  Hosts,
  expireSec,   \* 60 seconds, the default nobody overrides
  Slow,        \* bound: what may pass between the resolver's answer and its storing
  MaxTime      \* bound: the clock stops here

ASSUME DnsAssumption ==
  expireSec \in Nat /\ Slow \in Nat /\ MaxTime \in Nat

VARIABLES
  now,         \* time(NULL)
  _mapDns,     \* the cached hosts: [_addr, _create_time], or NotCached
  lookup       \* each thread's getDomainIP: [at, host, _addr]

dnsVars == <<now, _mapDns, lookup>>

NotCached == [_addr |-> -1, _create_time |-> -1]
Idle == [at |-> "idle", host |-> "none", _addr |-> -1]
At(t, label) == lookup[t].at = label
Item(a, c) == [_addr |-> a, _create_time |-> c]

DnsInit ==
  /\ now = 0
  /\ _mapDns = [h \in Hosts |-> NotCached]
  /\ lookup = [t \in Threads |-> Idle]

Goto(t, label, addr) ==
  lookup' = [lookup EXCEPT ![t] = [at |-> label, host |-> @.host, _addr |-> addr]]

-----------------------------------------------------------------------------
Ask(t, h) ==
  /\ At(t, "idle")
  /\ lookup' = [lookup EXCEPT ![t] = [at |-> "getCache", host |-> h, _addr |-> -1]]
  /\ UNCHANGED <<now, _mapDns>>

NeverExpired(item) == FALSE              \* mutant: the age is not looked at
Expired(item) == item._create_time + expireSec < now

(* getCacheDomainIP, in one critical section. *)
GetCacheDomainIP(t) ==
  LET h == lookup[t].host
      item == _mapDns[h]
  IN /\ At(t, "getCache")
     /\ \/ /\ item = NotCached
           /\ Goto(t, "getSystem", -1)
           /\ UNCHANGED _mapDns
        \/ /\ item # NotCached /\ Expired(item)
           /\ _mapDns' = [_mapDns EXCEPT ![h] = NotCached]
           /\ Goto(t, "getSystem", -1)
        \/ /\ item # NotCached /\ ~Expired(item)
           /\ Goto(t, "found", item._addr)
           /\ UNCHANGED _mapDns
     /\ UNCHANGED now

(* getSystemDomainIP: the resolver answers now; the caller runs on later.  *)
(* The loop around getaddrinfo repeats only for the result -1, which is    *)
(* not what an interrupted call returns: there every failure is final.     *)
Answered(t) ==
  /\ At(t, "getSystem")
  /\ Goto(t, "setCache", now)
  /\ UNCHANGED <<now, _mapDns>>

NoAnswer(t) ==
  /\ At(t, "getSystem")
  /\ Goto(t, "failed", -1)
  /\ UNCHANGED <<now, _mapDns>>

Stored(t) == Item(lookup[t]._addr, now)

(* setCacheDomainIP: the age of an entry counts from here. *)
SetCacheDomainIP(t) ==
  /\ At(t, "setCache")
  /\ _mapDns' = [_mapDns EXCEPT ![lookup[t].host] = Stored(t)]
  /\ Goto(t, "found", lookup[t]._addr)
  /\ UNCHANGED now

(* The caller has its address, or the failure. *)
Return(t) ==
  /\ lookup[t].at \in {"found", "failed"}
  /\ lookup' = [lookup EXCEPT ![t] = Idle]
  /\ UNCHANGED <<now, _mapDns>>

(* Time passes; an answer on its way to the cache is delayed by Slow at    *)
(* most.  An address handed over is used at once.                          *)
Tick ==
  /\ now < MaxTime
  /\ \A t \in Threads :
       /\ At(t, "setCache") => now < lookup[t]._addr + Slow
       /\ ~At(t, "found")
  /\ now' = now + 1
  /\ UNCHANGED <<_mapDns, lookup>>

DnsStep(t) == GetCacheDomainIP(t) \/ Answered(t) \/ NoAnswer(t) \/ SetCacheDomainIP(t)

DnsNext ==
  \/ Tick
  \/ \E t \in Threads : DnsStep(t) \/ Return(t) \/ \E h \in Hosts : Ask(t, h)

DnsSpec == DnsInit /\ [][DnsNext]_dnsVars

-----------------------------------------------------------------------------
Times == 0..MaxTime

DnsTypeOK ==
  /\ now \in Times
  /\ _mapDns \in [Hosts -> [_addr : Times, _create_time : Times] \cup {NotCached}]
  /\ lookup \in [Threads -> [at : {"getCache", "getSystem", "failed"}, host : Hosts, _addr : {-1}]
                            \cup [at : {"setCache", "found"}, host : Hosts, _addr : Times]
                            \cup {Idle}]

(* An address is never older than the time an entry may stay plus the time *)
(* an answer may be on its way, although the answers of two threads may be *)
(* stored in the wrong order and the age counts from storing.              *)
AddressesAreFresh ==
  \A t \in Threads : At(t, "found") => now - lookup[t]._addr <= expireSec + Slow

(* What is needed for that: an entry was stored soon after its answer, and *)
(* not in the future.                                                      *)
EntriesAreDated ==
  \A h \in Hosts : _mapDns[h] # NotCached =>
    /\ _mapDns[h]._create_time <= now
    /\ _mapDns[h]._create_time - _mapDns[h]._addr \in 0..Slow

AnswersOnTheirWay ==
  \A t \in Threads : At(t, "setCache") => now - lookup[t]._addr \in 0..Slow

DnsInv == DnsTypeOK /\ AddressesAreFresh /\ EntriesAreDated /\ AnswersOnTheirWay
=============================================================================
