----------------------------- MODULE FrameHandoff -----------------------------
(***************************************************************************)
(* What the frame queue promises its clients (the five steps of            *)
(* include/queue/simpleQ.h, lines 11-18), without saying how: a frame is   *)
(* free, then filled by one producer, then sent, then read by one          *)
(* consumer, then free again.  Only the thread that holds a frame writes   *)
(* it or passes it on, and frames are lost only when memory runs out.      *)
(***************************************************************************)
CONSTANTS Producers, Consumers, Frames, Infos, DefaultInfo, InitFrames, Nobody

VARIABLES
  stage,    \* where in its life each frame is
  holder,   \* the thread that fills or reads it, or Nobody
  info      \* its content

hvars == <<stage, holder, info>>

(* A stage is "absent", "free", "filling", "sent", "reading" or "lost". *)
HInit ==
  /\ stage = [f \in Frames |-> IF f \in InitFrames THEN "free" ELSE "absent"]
  /\ holder = [f \in Frames |-> Nobody]
  /\ info = [f \in Frames |-> DefaultInfo]

Held(t) == {f \in Frames : holder[f] = t}
InStage(s) == {f \in Frames : stage[f] = s}

(* All frames of F go to stage "to" and to the holder "next". *)
Move(F, to, next) ==
  /\ F # {}
  /\ stage' = [f \in Frames |-> IF f \in F THEN to ELSE stage[f]]
  /\ holder' = [f \in Frames |-> IF f \in F THEN next ELSE holder[f]]
  /\ UNCHANGED info

Offer == \E f \in InStage("absent") : Move({f}, "free", Nobody)
Acquire(t) == \E f \in InStage("free") : Move({f}, "filling", t)
Receive(t) == \E f \in InStage("sent") : Move({f}, "reading", t)
Recycle(t) == \E f \in Held(t) : stage[f] = "reading" /\ Move({f}, "free", Nobody)

Send(t) ==
  \E F \in SUBSET Held(t) : (\A f \in F : stage[f] = "filling") /\ Move(F, "sent", Nobody)

(* A consumer that is a producer too passes frames on without copying. *)
Forward(t) == \E F \in SUBSET Held(t) : Move(F, "filling", t)

(* Memory runs out: new frames are never offered, a release goes nowhere. *)
LoseNew == \E F \in SUBSET InStage("absent") : Move(F, "lost", Nobody)
LoseHeld(t) == \E F \in SUBSET Held(t) : Move(F, "lost", Nobody)

Fill(t) ==
  /\ \E f \in Held(t), x \in Infos : info' = [info EXCEPT ![f] = x]
  /\ UNCHANGED <<stage, holder>>

HNext ==
  \/ Offer \/ LoseNew
  \/ \E t \in Producers : Acquire(t) \/ Send(t) \/ Forward(t)
  \/ \E t \in Consumers : Receive(t) \/ Recycle(t)
  \/ \E t \in Producers \cup Consumers : LoseHeld(t) \/ Fill(t)

HSpec == HInit /\ [][HNext]_hvars

=============================================================================
