--------------------------- MODULE MCServiceMode ---------------------------
(* Instances of ServiceMode for TLC: two tools beside the service. *)
EXTENDS ServiceMode

CONSTANTS t1, t2

TwoTools == {t1, t2}
=============================================================================
