---------------------------- MODULE MCIOSession ----------------------------
(* Instances of IOSession for TLC: model values for the threads. *)
EXTENDS IOSession

CONSTANTS w1, w2, s1, c1

TwoWorkers   == {w1, w2}
OneSender    == {s1}
OneCloser    == {c1}
OneWorker    == {w1}
NoThreads    == {}
=============================================================================
