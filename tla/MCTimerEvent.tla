---------------------------- MODULE MCTimerEvent ----------------------------
(* Small instances of TimerEvent for TLC. *)
EXTENDS TimerEvent

CONSTANTS x, y

AllDisabled == [t \in Timer |-> "Disabled"]
OneActive   == [t \in Timer |-> IF t = x THEN "Active" ELSE "Disabled"]
================================================================================
