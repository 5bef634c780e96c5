---------------------------- MODULE MCBenchmark ----------------------------
(* Instances of Benchmark for TLC: model values for the sessions. *)
EXTENDS Benchmark

CONSTANTS s1, s2

TwoSessions == {s1, s2}
=============================================================================
