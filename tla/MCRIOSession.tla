---------------------------- MODULE MCRIOSession ---------------------------
(* Instances of RIOSession for TLC: model values for the threads. *)
EXTENDS RIOSession

CONSTANTS w1, s1

OneWorker  == {w1}
OneSender  == {s1}
NoThreads  == {}
=============================================================================
