------------------------------ MODULE FrameOrder ------------------------------
(***************************************************************************)
(* A client of ParticleQueue that numbers its frames: one producer writes  *)
(* 1, 2, 3, ... into the frames it gets and sends them in that order, by   *)
(* P_send, by overwriting its carrier, or in bulk; one consumer takes them *)
(* singly or in bulk.  The contents of ParticleQueue are the numbers, 0    *)
(* being the default.  The module asks in which order frames arrive.       *)
(***************************************************************************)
EXTENDS ParticleQueue

CONSTANT MaxFrame      \* bound: the last number written

VARIABLES
  next,      \* the number of the next frame
  written,   \* particles written since they were taken from the pool
  lastTaken  \* the number of the frame last taken from dataPtoC

ovars == <<vars, next, written, lastTaken>>

ASSUME OrderAssumption ==
  /\ MaxFrame \in Nat /\ Infos = 0..MaxFrame /\ DefaultInfo = 0
  /\ ~EnqueueMayFail
  /\ Producers \cap Consumers = {}

OInit ==
  /\ Init
  /\ next = 1 /\ written = {} /\ lastTaken = 0

(* The producer sends only frames it has numbered, and never one that is   *)
(* younger than the frames waiting in its vector.                          *)
ReadyToSend(t) ==
  slot[t] = Nil \/ (slot[t].data \in written /\ bulk[t] = <<>>)

Number(t) ==
  /\ t \in Producers
  /\ next <= MaxFrame
  /\ slot[t].data \notin written
  /\ Write(t, next)
  /\ next' = next + 1
  /\ written' = written \cup {slot[t].data}
  /\ UNCHANGED lastTaken

ProducerStep(t) ==
  /\ t \in Producers
  /\ \/ ReadyToSend(t) /\ (Reset(t) \/ \E op \in P_Calls : Call(t, op))
     \/ slot[t].data \in written /\ Stash(t)
     \/ slot[t] = Nil /\ P_SendBulk(t)
     \/ slot[t] = Nil /\ Call(t, "clear")
  /\ UNCHANGED <<next, written, lastTaken>>

ConsumerStep(t) ==
  /\ t \in Consumers
  /\ Reset(t) \/ Call(t, "clear") \/ \E op \in C_Calls : Call(t, op)
  /\ UNCHANGED <<next, written, lastTaken>>

(* A step of the queue; what leaves a lane is noted. *)
TakenFrom == {l \in Lanes : Len(ptoc'[l]) < Len(ptoc[l])}

QueueStep(t) ==
  /\ InCall(t)
  /\ lastTaken' = IF TakenFrom = {} THEN lastTaken
                  ELSE info[Head(ptoc[CHOOSE l \in TakenFrom : TRUE])]
  /\ written' = written \ (pool \ pool')
  /\ UNCHANGED next

ONext == \E t \in Threads :
  Number(t) \/ ProducerStep(t) \/ ConsumerStep(t) \/ QueueStep(t)

OSpec == OInit /\ [][ONext]_ovars

-----------------------------------------------------------------------------
(* With the plain queue every step that takes a frame from a lane takes    *)
(* the one numbered next after the frame taken before it: none is taken    *)
(* twice, none is passed over and none is taken that was never written,    *)
(* whether a frame was sent explicitly, by dropping its carrier, by asking *)
(* for the next one, or in bulk, and although its buffer has been recycled *)
(* any number of times.                                                    *)
EveryFrameInOrder == [][TakenFrom # {} => lastTaken' = lastTaken + 1]_ovars
=============================================================================
