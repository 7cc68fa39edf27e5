---------------------------- MODULE MCUdpQueueTest ----------------------------
(* TLC instance of UdpQueueTest. *)
EXTENDS UdpQueueTest
CONSTANTS d1, d2, d3, d4
RecvInfos == {"none", "valid"}
===============================================================================
