--------------------------- MODULE MCTimerManger ---------------------------
(* TimerManger for TLC: few addresses, so that they are reused.            *)
EXTENDS TimerManger
=============================================================================
