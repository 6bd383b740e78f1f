---------------------------- MODULE MCEventSystem ----------------------------
(* Small instances of EventSystem for TLC. *)
EXTENDS EventSystem

CONSTANTS e1, e2

\* Queue sizes and succession limits of the instances.
Sizes1   == [p \in Priority |-> 1]
Limits1  == [p \in Priority |-> 1]
================================================================================
