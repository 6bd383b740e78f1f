-------------------------------- MODULE MCFsm --------------------------------
(* A small instance of Fsm for TLC. *)
EXTENDS Fsm

CONSTANTS A, B, sb

\* One signal, of the second task, which both tasks send.
OneSignal == [s \in {sb} |-> B]
BothSend  == [t \in {A, B} |-> {sb}]
================================================================================
