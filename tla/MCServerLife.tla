---------------------------- MODULE MCServerLife ---------------------------
(* Instances of ServerLife for TLC: model values for threads and tools. *)
EXTENDS ServerLife

CONSTANTS w1, w2

TwoWorkers == {w1, w2}
=============================================================================
