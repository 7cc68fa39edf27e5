# A verification of s4-libLite in TLA+

s4-libLite is a C++ library for market-data programs: a lock-free frame queue
whose buffers recycle themselves, a receiver of level-2 market data over UDP
built on it, and helpers (semaphore, logger, sockets, time, codes, texts,
numbers). This directory holds TLA+ modules that model its concurrent core, its
stateful helpers and its algorithms, TLC configurations that check them on
small instances, and proofs checked by TLAPS for every instance. All paths
below are relative to the repository; `include/` and `source/` are under
`src/`.

## 1. Inventory

| Component | State | Operations | Interacts with | What is hard | What makes it correct |
|---|---|---|---|---|---|
| frame queue, `include/queue/simpleQ*.h` | two moodycamel queues (`_dataPool`, `_dataPtoC`), `_mem_hoster`, `_depth`; carriers held by clients | `P_get`, `P_get_timeout`, `P_get_tryBest`, `P_send`, `P_send_bulk`, `C_recv`, `C_recv_try`, `C_recv_timeout`, `C_getBulk_timeout`, `C_return`; the carrier's destructor; growth | clients through shared pointers | release by destructor at any overwrite; many threads; failing allocations; waiting while holding | one owner per buffer, nothing lost, order, calls return |
| its test, `application/test_udp.cpp` | counters, signal flag, one carrier per thread | receive loop, process loop, end | frame queue, signal flag | ending two threads; stale contents | every received frame is counted, no more than arrived are, both threads end |
| semaphore, `include/common/s4semaphore.h`, `application/test_semaphore.cpp` | `_count`, `_ready`, shared position, stop flag | `setReady`, `clrReady`, `getReady`, `notify`, `wait` | producer and workers | permits without owner, a counter reset by another thread | rounds do not overlap, every slot once per round, all end |
| level-2 receiver, `network/L2_udp_recver_th*` | socket, thread, stop flag, statistics, list of codes, report time | `start`, `stop`, receiver thread | frame queue, command queue, kernel routes | stop and restart, failing start, busy network | exact reports, ownership of the socket, stop returns |
| socket helpers, `network/sockutil.*` | DNS cache; the process's descriptor table | resolve, `connect`, `listen`, `bindUdpSock`, interface and route requests, options and memberships of a socket | kernel, every thread that connects | check-then-act on the cache; a failure at any system call; reused numbers; two meanings of EAGAIN | answers are fresh, one holder per descriptor, a connected socket is connected |
| logger, `common/s4logger.*` | configuration, map of loggers, four pointers to those in use, console, buffers | `init`, the level macros and functions, `flush` | spdlog's registry, files | configuration over a configuration, exceptions in the middle | map and registry agree, the configured files and no others, saved messages are saved |
| market codes, `common/s4mktCode.*` | none | conversions between four forms, classes | | boundaries of ranges | a code survives, classes are disjoint |
| calendar, `common/s4time.*`, `offtime.cpp` | none | seconds, dates, times, texts | | leap years, negative days | the same time in every form |
| JSON search and chat framing, `common/s4json_util.cpp`, `network/chat_message.h` | none; a message's header and body | find an object, encode, decode | each other | text that is still arriving, quotes and escapes | the object that was sent is found, a header's length arrives |
| texts and URLs, `common/s4string.*`, `network/parse_url.h` | none | replace, strip, split, group, parse | | overlapping matches, missing parts | nothing is lost, added or left behind |
| value convertors, `types/s4convertors.*`, and `types/double-conversion/*` | a big number; otherwise none | numbers to texts and back, by fast and exact ways | | rounding, fast paths that must give up, boundaries of a binade | digits are the shortest or nearest, numbers are read as the nearest double |
| intrusive pointers, `queue/catch_ptr.h` | reference count | addRef, release | threads | non-atomic count | freed once, not early |
| signal flags, `common/s4signalhandle.*` | three flags | hook, unhook, handler | polling threads | | |
| files, exceptions, once-token, error names, message layouts, type tables | none | wrappers, tables | | | |
| build files, tests that print | | | | | not ours to model |

`PROJECT.json` lists the components with their status and, under `hazards`,
every place where the code is hard to test, with the properties that cover it
or the reason why none does.

## 2. Modules

| Module | Models | Extends / refines |
|---|---|---|
| `ParticleQueue` | the frame queue, both variants, with the carriers' destructor and growth as steps of threads | refines `FrameHandoff` |
| `FrameHandoff` | abstract: what `simpleQ.h` lines 11-18 promise, a frame is free, filled, sent, read and free again | |
| `FrameOrder` | a client that numbers its frames | extends `ParticleQueue` |
| `BlockingLoop` | clients that use only the blocking calls, explicit release optional | extends `ParticleQueue` |
| `UdpQueueTest` | `queue_test` of `test_udp.cpp` | extends `ParticleQueue` |
| `PoolGrowth` | `malloc_particle` access by access: mutex, vector, counter, exception | refines `AtomicGrowth` |
| `AtomicGrowth` | abstract: growth as `ParticleQueue` assumes it, at one instant | |
| `SemaRounds` | `semaphore_t` and the protocol of its test | refines `WorkRounds` |
| `WorkRounds` | abstract: work done in rounds | |
| `L2Receiver` | receiver, its control thread and what it uses of `sockutil` | uses the result of `ParticleQueue` |
| `DnsCache` | the cache of resolved addresses, shared by threads | |
| `SockUtil` | the helpers that open sockets, over one descriptor table | extends `DnsCache` |
| `Logger` | `s4logger` beside spdlog's registry | |
| `MarketCodes`, `MarketTexts` | codes as numbers; the same as texts | `MarketTexts` extends both `MarketCodes` and `Text` |
| `Calendar`, `Text`, `ChatMessage` | times, texts and URLs, JSON search with framing | |
| `Bignum`, `Ieee`, `CachedPowers` | numbers of many bits; doubles and DiyFps; powers of ten | |
| `BignumDtoa`, `FastDtoa`, `FixedDtoa` | digits of a double: exact, fast, down to a place | extend `Ieee`; `FastDtoa` extends `CachedPowers` |
| `Strtod` | the double for decimal digits | extends `CachedPowers` |
| `NumberText`, `Convertors` | `double-conversion.cc` as the convertors configure it; the convertors | extend the modules above |
| `CommonValues` | one call of a function of `Calendar`, `Text`, `MarketTexts` or `ChatMessage`, with any input it may be given | extends those four |
| `ParticleQueueProofs`, `FrameOrderProofs`, `UdpQueueTestProofs`, `PoolGrowthProofs`, `L2ReceiverProofs`, `SockUtilProofs` | theorems about the module of that name | each extends it, the two clients of the queue also `ParticleQueueProofs` |
| `CommonProofs` | theorems about `SemaRounds`, `Logger`, `Calendar` and `Text` | extends them |
| `CommonValuesProofs` | theorems about `MarketCodes`, `MarketTexts`, `ChatMessage`, the URLs of `Text`, and `CommonValues` as a whole | extends `CommonValues` and `CommonProofs` |
| `MC*` | model values and small sets for TLC; `MCValues` composes `CommonValues` with the numbers | |

How the state corresponds to the code:

* **ParticleQueue.** `pool` is `_dataPool`, `ptoc[l]` the sub-queue ("lane") of
  `_dataPtoC` that a thread or the producer token enqueues to; moodycamel keeps
  the order within a lane and promises nothing between lanes. A carrier is
  `[data, host]`, `slot[t]` the carrier in the client's variable, `bulk[t]` its
  vector, `local[t]` the particles in the locals of the running call. A queue
  operation is one step and the thread-local code next to it belongs to it;
  `Release` is the destructor, and every assignment to a carrier includes it
  *after* the new value is in place, as the assignment of a `shared_ptr` does.
  `created` is the memory in `_mem_hoster`; `leaked` is what has memory but no
  `shared_ptr` any more.
* **PoolGrowth** splits an increment of the plain `_depth` into load and store;
  the mutex `_mem_mux` orders only those under it. Both branches
  (`all_memalign`) are chosen in `Init`.
* **SemaRounds.** `count` is `_count`, `ready` is `_ready`; `wait` is one step
  since the mutex is held from the test to the decrement, and spurious wake-ups
  change nothing. `Todo` and `WorkerOf` say which slots are left and who works
  on one, for the refinement of `WorkRounds`.
* **L2Receiver.** `start` runs under `_mux` with no thread alive, so each way
  through it is one step; `stop` is the call and the end of the `join`. The
  receiver thread is one step per `recv`, message, report, command batch and
  loop test. `open` and the numbering of sockets stand for the kernel's
  descriptor table, `route` for its routing table. A message is its type,
  source, id and whether its length fits; a counter is taken modulo `Wrap`.
* **DnsCache.** `now` is `time(NULL)`, `_mapDns` the cache, `lookup[t]` the
  call a thread is in. Checking, resolving and storing are separate steps, as
  they are separate critical sections. An address is the time at which the
  resolver answered, which is all that freshness needs to tell apart.
* **SockUtil.** `table` is the kernel's descriptor table: for each number its
  holder and how far its socket is connected. `call[t]` is the helper a thread
  is in, with the system calls it still has to make; each is a step that may
  fail, and the way out of a failure is the code's. The kernel reuses numbers,
  so that a second close would hit another holder.
* **UdpQueueTest.** `step[t]` is where a thread of `queue_test` is. A growth
  that finds no memory throws out of a thread without a `try`, which ends the
  program (`Aborted`).
* **Calendar.** A time is the pair of its days and the seconds of the day. An
  assertion that fails is the result `Aborts`; a build with `NDEBUG` would go on
  and convert those dates like the later ones.
* **Logger.** `registry` is spdlog's (with the folder each file is in),
  `_file_loggers` the map of the logger, `sinks` what its four pointers point
  to, `buffered` how much of each file waits to be written, `quiet` that less
  than a minute has passed since a file failed, `state` how far `init` is or
  how it ended. A configuration is one step since one thread makes it, with
  each way spdlog may throw.
* **The floating-point modules** take the format as constants: `p` bits of
  significand, `w` of exponent, DiyFps of `q` bits (53, 11 and 64 in the code),
  `Bignum` its `kBigitSize`, `kChunkSize` and `kBigitCapacity` (28, 32, 128). A
  double is the number its bits make. `BignumDtoa` and `Strtod` calculate with
  integers where the code calls a big number, which `Bignum` shows to be the
  integer it should be. The algorithms keep the width of every word where it
  can overflow.

## 3. Runs

No run takes much more than three minutes with two workers.

| Run | Shows | Bounds and why they suffice |
|---|---|---|
| `queue_particles` | types, one owner, nothing lost; refinement of `FrameHandoff`; calls return | thread `a` produces, `b` produces and consumes, so every pair of roles meets; 3 particles of which 1 initial, growth by 2, so that growing, sharing and failing to grow all happen; enqueues may fail; vectors up to 2 so that shrinking, padding and overwriting happen |
| `frame_order` | every taken frame is the one after the last taken, for one producer and one consumer | 4 numbers in 2 to 3 buffers: every buffer is recycled |
| `udp_queue_test` | the test's threads end, or an exception ends the program; no received datagram is lost before the count; at most one frame is counted too many | 4 datagrams, 2 initial particles and room for 4, so that particles are recycled, growth happens, and growth throws while a written frame is in the carrier |
| `blocking_loop` | frames keep flowing, hence no deadlock | one producer, two consumers, 4 particles: one more than threads, the least that works (with 3, TLC finds the deadlock) |
| `pool_growth` | the counter is never too high, growth is atomic (and so leaves the mutex free) | three growers of 2 particles with memory for 5: the third fails half way |
| `sema_rounds` | rounds, permits, end of all threads | 3 workers, 3 slots, 2 rounds and the stop: a worker can overtake another by a round |
| `l2_receiver` | reports, socket, number of codes before and after the first command of a run | one message per datagram of four kinds, two starts, one pending item of each kind, counters modulo 2 |
| `l2_stop` | stop returns, reports when quiet | two messages per datagram, endless traffic |
| `l2_socket_left` | **violated**: `stop` leaves no socket open | two starts |
| `sock_util` | fresh addresses, one holder, synchronous connections | two threads, one host, two descriptors, so that a number is reused by the other thread and runs out; entries expire after 1, an answer takes up to 1, time up to 3: an entry is stored, read, expires and is stored again |
| `logger` | map and registry, configured files, saved messages | two folders and two preambles, so that a configuration can keep, add, drop and move files; six sets of files, every kind in some and missing in some; one buffered message |
| `values` | the algorithms against reference definitions | below |

`values` holds one call in each state. A reference definition says what the
result must be without saying how it is found: a date is the day that is so
many days after 1970, digits are right if no shorter ones lie between the
middles to the two neighbours, a number is read as the double no other double
is nearer to.

* Doubles are enumerated *completely* at narrow formats: 6 bits of significand
  with 4 of exponent for shortest and counted digits, which has binade
  boundaries, denormals and values where the fast way gives up; 6 with 6 for
  fixed digits, since the shortcut for wide integers needs exponents beyond; 4
  with 3 for reading, where all middles between doubles are short enough to
  write; 8 with 5 for texts, where two decimal digits are exact, as 15 are with
  53 bits.
* `Bignum`: bigits of 4 bits in chunks of 5, nine of them, numbers up to 4095,
  and every sequence of operations on them: carries cross bigits, and shifts by
  whole bigits leave the exponent that comparison and subtraction have to
  align.
* Market codes: every range boundary, and samples between; the theorems of
  `CommonValuesProofs` cover the rest. Days: 27 centuries in samples, all days
  around leap years and ends of centuries; dates on both sides of the end of
  1980, and pairs on both sides of 24855 days. Texts over two letters up to six
  long; messages of nested, quoted and escaped objects between other text; all
  lengths a header may carry, and some it may not.

`CHECK_DEADLOCK FALSE` is set where the system may stop: clients of the queue
may all wait for frames, and the bounds on frames, starts, time and calls end
the other runs. `udp_queue_test`, `blocking_loop`, `pool_growth` and
`sema_rounds` check deadlock.

Every property has a mutant in `PROJECT.json`: a plausible slip in the code,
written as an operator next to the definition it replaces (marked `mutant:`),
under which TLC finds the property violated.

**Fairness.** `ParticleQueue.FairSpec`: weak fairness of each thread's steps
inside a call, that is, the operating system schedules a runnable thread.
Nothing makes a client call again. `BlockingLoop` adds that clients keep
calling, since that is the loop it models. `CallsReturn` needs no more than
this: a producer in `P_get_tryBest` that is robbed of its new particles grows
again, which the finite memory of the process bounds. `UdpQueueTest` also
assumes that `main` gets to its `dummyInt`. `SemaRounds` assumes fair threads,
`L2Receiver` that the receiver thread and the joining caller run and that the
application keeps taking frames; nothing is assumed about the network.
`SockUtil` and `Logger` state no liveness: a system call may block for ever.

**Findings**, places where the code does something else than its documentation
says. One has a run, the socket a failed `start` leaves open. The others follow
from the modelled steps and are described in `PROJECT.json`. Four are stated in
a module as the documentation has it, without a run:
`UdpQueueTest.UnusedFrameIsRecognised` (the stale frame of `queue_test`, whose
damage `AtMostOneStaleFrame` bounds), `PoolGrowth.DepthIsPoolDepth` (`_depth`
counts twice), `SockUtil.AsyncConnectIsUnderWay` (a connect that failed for
lack of buffers is handed back as under way) and `Logger.RedirectWorks` (a file
that moves makes `spdlog::create` throw). Three are part of what a property
says, so that TLC checks and the prover proves what the code does instead:
`mktCodeStr_to_pureCodeStr` looks at the second digit and throws for
"sh600997", the header's own example; `mktCodeInt_to_mktCodeStr` writes eight
digits in Shenzhen (both in `PathsAgree`); and `days_in` is negative beyond
24855 days (`DaysBetween`). The rest concern the colons of `utc_to_strMinu`,
padding behind an exponent, numeric Shenzhen index codes and the result of
`__offtime`.

## 4. Proofs

Every theorem holds for all values of the constants that the `ASSUME` of its
component's module allows; the exceptions are named below. Every inductive
invariant was checked with TLC on the instance of its run before it was proved.

### The frame queue

`ParticleQueueProofs` proves for every set of threads and particles, every
growth and bulk size and both variants of the queue, from `ConstantAssumption`
alone:

* `TypeCorrect == Spec => []TypeOK`. `TypeOK` is not inductive: that `P_assign`
  finds a particle to wrap, or that `bulk_assign` writes inside the vector,
  depends on what the call has kept in its locals. `Inv` adds `CallState`,
  which says for each `pc` what `local`, `bulk` and `fresh` hold. `InitInv` and
  `NextInv` are the two induction steps, `NextInv` with one step per action;
  `ReleaseType` deals with the destructor once for all of them.
* `NeverTwoOwners == Spec => []OneOwner` and `NeverLost == Spec =>
  []NothingLost`. Neither property is inductive, and the two need each other: a
  new particle has no second owner because whatever is not in `created` is
  nowhere, and a released one is not lost because it was at just one place
  before. `Owned` says both at once through `IsAt(d, k, o)`, "particle d is at
  the place of kind k that belongs to o": `OnePlace` (at most one place),
  `Accounted` (some place exactly for the created ones) and `NoneTwice` (no
  duplicate within a sequence). `Moved(D, k1, o1, E, k2, o2)` says what a step
  does to the places: the particles of D and E go to theirs and all others
  stay. `MoveKeeps` shows once that any such step preserves the invariant, so
  that the lemma of an action has to show only which move the action is.
  `Released` states the destructor as such a move; `Wrap`, `DropKeeps` and
  `DropFromBulkKeeps` serve the actions in which a carrier dies.
* `HandoffImplemented == Spec => HandsOver`, the refinement of `FrameHandoff`.
  `Stands(d, s, h)` says through the places at which stage of its life frame d
  is and who holds it; `OneStage`, which follows from `Owned`, makes that the
  value the refinement mapping computes (`Mapped`). `AllRoles` says that a
  thread that makes a producer's call is a producer, and a carrier's host tells
  which side its thread is on. By `FramesMove`, a step that takes some frames
  to one stage and leaves all others where they are is a step of
  `FrameHandoff`; a lemma per action (`...Moves`) shows which frames it moves
  and where to, and `HandoffSteps` puts them together.

`FrameOrderProofs` proves `FramesArriveInOrder`: `OSpec => EveryFrameInOrder`
for one producer with the plain queue (`Only(p)`: `Producers = {p}` and not
`SingleProducer`) and any number of consumers, frames and particles. The
assumption on the constants is `OrderAssumption`, by which enqueues find
memory. The one-producer condition is needed: between lanes nothing orders the
frames. `OrderInv` adds to the invariants of the queue that the frames between
the producer's pen and the consumers are numbered without a gap, from the one
after the last taken, first the lane, then the vector, then the carrier
(`Numbering`), and what the producer may have where in its calls (`SendState`).
Taking from the pool adds an unwritten buffer behind them, every way of sending
moves the boundary between lane, vector and carrier, and a consumer takes the
first of the lane.

`UdpQueueTestProofs` proves `TestUsesQueue == TestSpec => Spec`, by which all
theorems above hold of `queue_test`, with `TestOwnsFrames` as a corollary, and
`OneStaleFrame == TestSpec => []AtMostOneStaleFrame` for any number of
datagrams and particles. It counts the frames `OnTheWay`, those that have
arrived and are not yet counted: in the queue, in the hands of the processing
thread, or written by the receiving one. `Counted` says that they and the
counted ones together are at most the received ones, and one more once the
receiving thread has dropped its last, unwritten frame. That a frame is not
counted twice rests on `Owned`. `FramesAreNotLost == TestSpec => []NoFrameLost`
is the other half: each received datagram has been counted or its frame is on
the way with the `info` that makes the processing thread count it, although
nothing sends a frame but the request for the next one, and although a growth
may throw in between. A call of either thread loses no frame that is on the way
(`RecverKeepsAll`, `ProcerKeepsAll`), writing one adds it (`OneMoreUncounted`)
and only counting it takes it out (`OneCounted`). The assumption is that of the
module: the test makes two threads, `recver # procer`.

`PoolGrowthProofs` proves `GrowthTypes`, `DepthIsNeverOver` and
`GrowthIsAtomic`, which is the refinement of `AtomicGrowth`: every step of any
number of growers is the abstract growth or a stutter. `GrowthInv` needs,
beside the types, `MutexHeld` (the holder is where the code holds the mutex)
and `LoadedIsOld`: a value of `_depth` loaded without the mutex is at most what
is there when it is stored, so that a lost update only lowers the counter.

### The semaphore

`CommonProofs` proves, for any number of workers, slots and rounds and any
stride:

* `TokensAreConserved` and `RoundsAreApart`. `RoundInv` counts workers by
  phase: `NobodyLeft`, `AllCalled` and `EverybodyWaits` say which phases are
  empty at each line of the producer, and the sum of permits, ready workers and
  workers in between does the rest, over cardinalities of sets of any size.
* `TypeCorrect` and `RoundsImplemented`, the refinement of `WorkRounds`, both
  from `WorkInv`. A worker is never outside the slots because the shared
  position stays a multiple of the stride (`AtMultiple`, with the arithmetic of
  `StrideMod` and `NextSlot`); no slot is drawn twice (`DrawnOnce`); and a
  round starts only when the last is used up, since a worker asks again only
  when it finds no slot left (`AllDrawn`). The first round and the stop, at
  which workers pass without a round, need `BeforeFirstRound` and `AfterStop`.

### The receiver

`L2ReceiverProofs` proves, for all messages, commands and bounds:

* `ThreadsOwnTheirSocket` and `StopCloses` from `SocketInv`, `CodeCounts`
  (the number of codes is exact after a command of the run, 0 before) from
  `StatsInv`, and `TypeCorrect`, whose induction uses `SocketInv`: a start
  finds no thread in the middle of a datagram.
* `ReportsExact == Spec => []ReportsAreExact`. The property speaks of reports
  that lie in the queue; `LaneInv` adds that the counters of the running thread
  are what a report at the end of its lane would have to say, and that a run
  that has not begun has sent nothing. Sending a frame increments one of two
  sums that must stay equal modulo `Wrap`, and taking one moves it from the
  lane to what was taken; the lemmas `SentAppend`, `SentTail`, `ModSucc` and
  `ModShift` say so for any lane and any width.

### Sockets and logger

* `SockUtilProofs`: `DnsInv` gives `DnsTypes` and `FreshAddresses`; an address
  is fresh because an entry is dated no later than the answer in it plus the
  time it was on its way (`EntriesAreDated`, `AnswersOnTheirWay`), although a
  slow answer may overwrite a newer one. `SockInv` gives
  `DescriptorsHaveOneHolder` and `SyncConnects`; its `Shapes` says which calls
  a helper can still have before it, and `Cleared` what a number looks like
  once closed.
* `CommonProofs`: `MapAndRegistryAgree`, `ConfigurationHolds` and
  `SavedIsSaved` from `LogInv`, in which `Registered` relates map, registry and
  the pointers, `NothingYet` describes a logger that has not been configured
  and `OthersEmpty` the buffers of files no longer in use.

### Loops

The functions of `CommonValues` loop over characters, digits, years or stacks
of brackets, and what a loop computes is an induction over its passes. The
library states induction with an operator as parameter, which the provers here
cannot instantiate, so `CommonProofs` states it with sets instead:
`LeastNumber` takes the least member of a set of numbers (from
`NatLessThanWellFounded` and `WFMin`), and `Induction` concludes from it that a
set of numbers which holds 0 and with each number the next holds them all. The
models write loops as recursive functions, which TLA+ defines by `CHOOSE`, so
that it has to be shown that there is one: `LoopStates` and `LoopFollows` show
it for loops that count their passes, `Recursion` and `RecursionIs` for those
in which some number gets smaller (`string_split`, `string_replace`; the
guesses of `__offtime` have a lemma of their own, `GuessLoop`). A loop then has
a lemma that names its states (`...Loop`), one that says what a pass keeps, and
an induction over the passes.

* **Calendar** (`CommonProofs`). `DaysAreFound`: the guessing loop of
  `__offtime` ends for every day number, since each guess leaves fewer years to
  go, and ends in the day that a count of leap years one by one gives; the
  closed count `LEAPS_THRU_END_OF` is shown to be that count by `%` and `\div`
  alone. `TimesAreTheSame`: a second comes back from its broken-down time, from
  its texts (`NumbersIn` reads what `Padded` writes) and from its date, for the
  years `tm_to_utc` is written for, 1970 to the end of February 2100; the date
  only from 1981 on, and before that the assertion of `date_to_utc` fails,
  which the theorem says too. `DaysBetweenDates`: `days_in` is right up to
  24855 days and negative beyond, by the arithmetic of 32 bits, and aborts
  before 1981.
* **Market codes** (`CommonValuesProofs`). As numbers: `PureCodesSurvive`,
  `MarketCodesDiffer`, `StockIsStockEitherWay` and `ClassesAreDisjoint`, for
  every number and every pair of prefixes whose ranges do not meet. Code 0 is
  left out of the third: it is no stock as a pure code, and "no code" as a
  market code. As texts: `EveryPathAgrees`, all ways through texts and numbers
  end in the same code, with the two exceptions named under Findings stated
  exactly.
* **Texts and URLs**. `PiecesReplaced`: `string_split` and `string_replace`
  find the same places in every text, whatever the old and the new value, and
  go on behind what they have put in; the pieces hold no old value.
  `CommasGroup`: grouping adds commas only, each with three digits or a
  multiple behind it and a digit before it, while the result fits the buffer
  (`FitsCommas`). `PartsAlwaysFound`: every URL that `IsUrl` describes is taken
  apart into the parts it was made of.
* **JSON and framing** (`CommonValuesProofs`). `JsonObjectsAreFound`: objects
  put together from plain characters, strings with escapes and matched
  brackets to any depth are found as they stand, by following the stack of
  `searchJson` through them. `LengthsArrive`: every length comes back from its
  header.
* **CommonValues** as a whole: `CodesAlwaysSurvive`, `TimesAlwaysSurvive`,
  `TextsAlwaysKept` and `MessagesAlwaysArrive` are the four invariants of the
  run, for all sets of inputs. `CommonAssumption` says which inputs those are:
  natural codes, days to the end of February 2100, old values that are not
  empty, numbers without commas that fit the buffer, and URLs; TLC evaluates it
  for the sets of the run.

### Only model-checked

* Liveness: `FramesFlow`, `CallsReturn`, `TestEnds`, `AllThreadsEnd`,
  `StopReturns`, `ReportsWhenQuiet`. Fairness is stated with `ENABLED`, which
  the prover does not handle.
* The numbers of `values`: `BignumsAreExact`, `DigitsAreRight`,
  `FixedDigitsAreRight`, `NumbersAreRead` and `ValuesSurvive`. The modules of
  double-conversion and the convertors are written with recursive operators,
  with which the prover loses its arithmetic.

## 5. Not modelled

* Frame queue: destruction, the approximate sizes. Growing the data queue
  succeeds in `L2Receiver`.
* Sockets: options set one at a time (their results are ignored), the multicast
  memberships (two options on the caller's socket, of which the code lets one
  fail; what then arrives is the kernel's), the formatting of addresses,
  queries for names; the Windows and macOS branches everywhere.
* Logger: levels below the configured one, wording, spdlog's inside.
* Time: the clock `nowTime_ms` and the busy wait `rptTime`.
* Conversions: character sets, texts to other radixes than ten, single
  precision, `EcmaScriptConverter` and spaces around numbers, none of which a
  convertor of the library uses.
* Intrusive pointers: the repository uses a count from one thread only, where
  it is addition.
* Contents of market data, byte counts, and undefined behaviour whose outcome
  no property depends on (the plain flags `_stop` and `g_stop`; the plain
  counter `_depth` *is* modelled).
* Files, exceptions, tables and layouts: no behaviour beyond one call.

What the modules say about the inputs they leave out, in each case because the
code's own answer is of no use there: `searchJson` without a `{` reads in front
of the text, a backslash at the end of it makes the search skip the terminator,
and brackets within strings count; `string_replace` and `string_split` do not
end for an empty pattern, and `string_strip` gives blanks back unstripped; the
buffer for grouping holds 50 characters; a text of an integer beyond 64 bits
wraps; `chk_stk_date_legal` accepts
February 29 of every year; fractions of a second are written without padding;
a length in a header
from elsewhere may be negative; padding beyond 15
digits is not honoured for small values.

## 6. Plan

What is left, in this order:

1. Proofs: the order of frames with a producer token, where single sends and
   vectors share a lane or do not; a bound on what a failing enqueue leaks; the
   big numbers, once their loops are written as functions.
2. `ChatMessage` read in pieces from a connection, composed with `SockUtil`.
3. `SharedPtr`: the reference count under interleaving, once a caller shares
   one.
4. Destruction of a queue while carriers are outstanding.
