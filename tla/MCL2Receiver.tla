----------------------------- MODULE MCL2Receiver -----------------------------
(* TLC instances of L2Receiver: small sets of messages and commands. *)
EXTENDS L2Receiver

Message(type, src, id, ok) == [type |-> type, src |-> src, id |-> id, ok |-> ok]

(* A stock of Shanghai, the same cut short, a layout Shanghai does not     *)
(* have, and a heartbeat.                                                  *)
Snap == Message("instrument_snap", "SSH", 1, TRUE)
Truncated == [Snap EXCEPT !.ok = FALSE]
NoSuchLayout == Message("fund_snap", "SSH", 1, TRUE)
Heartbeat == Message("heartbeat", "SSZ", 0, TRUE)

AllMessages == {Snap, Truncated, NoSuchLayout, Heartbeat}
OneMessage == {Snap}

AddAndRemove == {[add |-> a, code |-> <<"SH", 1>>] : a \in BOOLEAN}
AddStock == {[add |-> TRUE, code |-> <<"SH", 1>>]}
===============================================================================
