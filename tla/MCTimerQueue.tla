---------------------------- MODULE MCTimerQueue ----------------------------
(* Instances of TimerQueue for TLC. *)
EXTENDS TimerQueue, TLC

CONSTANTS a, p, q

OneCaller   == {a}
TwoPool     == {p, q}
StopCalls   == {"cancel", "shutdown"}
AllCalls    == {"schedule", "cancel", "shutdown", "destroy"}
AnyWait     == {TRUE, FALSE}

(* Threads of a kind run the same code and are never compared. *)
Symmetry == Permutations(Callers) \cup Permutations(Pool)
=============================================================================
