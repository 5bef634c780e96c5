------------------------ MODULE MCCircleBufferQueue ------------------------
(* An instance of CircleBufferQueue for TLC. *)
EXTENDS CircleBufferQueue

CONSTANTS wa, wb, b0, b1

TwoWriters == {wa, wb}
TwoBytes   == {b0, b1}
=============================================================================
