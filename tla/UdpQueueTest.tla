----------------------------- MODULE UdpQueueTest -----------------------------
(***************************************************************************)
(* queue_test of application/test_udp.cpp: a receiving thread puts UDP     *)
(* datagrams into frames of a simpleQ_spmc_ar_t, a processing thread takes *)
(* them out, and the main thread ends both through the signal flag.        *)
(* Composes ParticleQueue with its two clients.  The content of a frame is *)
(* whether its info says recv_fd = -1 ("none") or a real socket ("valid"). *)
(***************************************************************************)
EXTENDS ParticleQueue

CONSTANTS
  recver, procer,  \* the two threads
  MaxFrames        \* bound: datagrams that arrive

ASSUME ClientAssumption ==
  /\ Producers = {recver} /\ Consumers = {procer} /\ recver # procer
  /\ SingleProducer
  /\ Infos = {"none", "valid"} /\ DefaultInfo = "none"
  /\ MaxFrames \in Nat

VARIABLES
  step,            \* step[t]: the statement thread t is at
  sigint,          \* signalhandler_t::_got_sigint
  recv_frame_cnt, proc_frame_cnt

appVars == <<step, sigint, recv_frame_cnt, proc_frame_cnt>>
testVars == <<vars, appVars>>

(* Neither thread catches bad_alloc: an exception out of a growth ends the  *)
(* whole program.                                                          *)
Aborted == pc[recver] = "thrown"

At(t, s) == pc[t] = "idle" /\ step[t] = s
Then(t, s) == step' = [step EXCEPT ![t] = s]

TestInit ==
  /\ Init
  /\ step = [t \in Threads |-> IF t = recver THEN "begin" ELSE "loop"]
  /\ sigint = FALSE
  /\ recv_frame_cnt = 0 /\ proc_frame_cnt = 0

(* The first P_get_tryBest, before the loop. *)
FirstGet ==
  /\ At(recver, "begin")
  /\ Call(recver, "P_get_tryBest")
  /\ Then(recver, "recv")
  /\ UNCHANGED <<sigint, recv_frame_cnt, proc_frame_cnt>>

(* recv() > 0 writes the frame; asking for the next frame sends this one. *)
RecvFrame ==
  /\ At(recver, "recv")
  /\ recv_frame_cnt < MaxFrames
  /\ Write(recver, "valid")
  /\ recv_frame_cnt' = recv_frame_cnt + 1
  /\ Then(recver, "next")
  /\ UNCHANGED <<sigint, proc_frame_cnt>>

NextGet ==
  /\ At(recver, "next")
  /\ Call(recver, "P_get_tryBest")
  /\ Then(recver, "check")
  /\ UNCHANGED <<sigint, recv_frame_cnt, proc_frame_cnt>>

(* mutant: a new frame is asked for, and the unwritten one sent, all the same. *)
RecvNothingGets ==
  /\ At(recver, "recv")
  /\ Then(recver, "next") \/ Then(recver, "exit")
  /\ UNCHANGED <<vars, sigint, recv_frame_cnt, proc_frame_cnt>>

(* recv() = -1: nothing there.  Any other result breaks the loop. *)
RecvNothing ==
  /\ At(recver, "recv")
  /\ Then(recver, "check") \/ Then(recver, "exit")
  /\ UNCHANGED <<vars, sigint, recv_frame_cnt, proc_frame_cnt>>

(* while (!getSigint()) *)
Forever(again) == again                              \* mutant: while (true)
UnlessSigint(again) == IF sigint THEN "exit" ELSE again

RecvCheck ==
  /\ At(recver, "check")
  /\ Then(recver, UnlessSigint("recv"))
  /\ UNCHANGED <<vars, sigint, recv_frame_cnt, proc_frame_cnt>>

(* The thread ends and pData with it, which sends the frame in it. *)
RecvExit ==
  /\ At(recver, "exit")
  /\ Reset(recver)
  /\ Then(recver, "done")
  /\ UNCHANGED <<sigint, recv_frame_cnt, proc_frame_cnt>>

ProcCall ==
  /\ At(procer, "loop")
  /\ Call(procer, "C_recv_timeout")
  /\ Then(procer, "got")
  /\ UNCHANGED <<sigint, recv_frame_cnt, proc_frame_cnt>>

(* if (got_data && info.recv_fd != -1) the frame counts; then the check. *)
ProcFrame ==
  /\ At(procer, "got")
  /\ proc_frame_cnt' =
       IF slot[procer] # Nil /\ info[slot[procer].data] # "none"
       THEN proc_frame_cnt + 1 ELSE proc_frame_cnt
  /\ Then(procer, UnlessSigint("loop"))
  /\ UNCHANGED <<vars, sigint, recv_frame_cnt>>

ProcExit ==
  /\ At(procer, "exit")
  /\ IF slot[procer] = Nil THEN UNCHANGED vars ELSE Reset(procer)
  /\ Then(procer, "done")
  /\ UNCHANGED <<sigint, recv_frame_cnt, proc_frame_cnt>>

(* main: dummyInt() once everything has been sent. *)
Signal ==
  /\ ~Aborted
  /\ ~sigint
  /\ sigint' = TRUE
  /\ UNCHANGED <<vars, step, recv_frame_cnt, proc_frame_cnt>>

RecverStep ==
  /\ ~Aborted
  /\ \/ FirstGet \/ RecvFrame \/ NextGet \/ RecvNothing \/ RecvCheck \/ RecvExit
     \/ InCall(recver) /\ UNCHANGED appVars

ProcerStep ==
  /\ ~Aborted
  /\ \/ ProcCall \/ ProcFrame \/ ProcExit
     \/ InCall(procer) /\ UNCHANGED appVars

Ended == Aborted \/ \A t \in Threads : step[t] = "done"

(* main returns after joining both, or the program was aborted. *)
Stopped == Ended /\ UNCHANGED testVars

TestNext == RecverStep \/ ProcerStep \/ Signal \/ Stopped

TestSpec ==
  /\ TestInit /\ [][TestNext]_testVars
  /\ WF_testVars(RecverStep) /\ WF_testVars(ProcerStep) /\ WF_testVars(Signal)

-----------------------------------------------------------------------------
(* The comment at the first P_get_tryBest says that the consumer tells the *)
(* unused frame sent at the end by fd = -1, len = 0: it would never count  *)
(* more frames than arrived.                                               *)
UnusedFrameIsRecognised == proc_frame_cnt <= recv_frame_cnt

(* What holds: only the one frame sent without having been written can be  *)
(* counted twice, through the info a recycled particle still carries.      *)
AtMostOneStaleFrame == proc_frame_cnt <= recv_frame_cnt + 1

(* The datagrams that were received and not yet counted: those queued, the *)
(* one procer has dequeued or is about to look at, and the one recver has  *)
(* written and not yet sent.                                               *)
WrittenBy ==
  IF step[recver] = "next" \/ (step[recver] = "check" /\ pc[recver] # "idle")
  THEN SlotData(recver) ELSE {}
ReadBy == IF At(procer, "got") THEN SlotData(procer) ELSE {}
OnTheWay == InFlight \cup Elems(local[procer]) \cup WrittenBy \cup ReadBy
Uncounted == {d \in OnTheWay : info[d] # "none"}

(* While enqueues find memory no datagram is lost between recv() and the   *)
(* count: each one received was counted, or its frame is still on its way  *)
(* with the info that makes procer count it, although frames are sent by   *)
(* nothing but asking for the next one, and although a growth may throw    *)
(* while a written frame is in the carrier.                                *)
NoFrameLost ==
  EnqueueMayFail \/ recv_frame_cnt <= proc_frame_cnt + Cardinality(Uncounted)

(* join() returns: neither thread hangs on the queue after the signal.     *)
TestEnds == <>Ended
=============================================================================
