----------------------------- MODULE MCFrameOrder -----------------------------
(* TLC instances of FrameOrder: frames are numbered up to MaxFrame. *)
EXTENDS FrameOrder
CONSTANTS p, c, d1, d2, d3
Numbers == 0..MaxFrame
===============================================================================
