------------------------------ MODULE BoundedFifo ------------------------------
(***************************************************************************)
(* What SystemQueue_t promises: a first-in first-out buffer of at most SIZE *)
(* elements.  A Put may be refused and a Get may find nothing, which change *)
(* nothing and need no action here.                                         *)
(***************************************************************************)
EXTENDS Naturals, Sequences

CONSTANTS Data, SIZE

VARIABLES buf,   \* the elements put and not yet got, oldest first
          got    \* the last element got, as a sequence of at most one

vars == <<buf, got>>

Init == buf = <<>> /\ got = <<>>

Put(x) ==
  /\ Len(buf) < SIZE
  /\ buf' = Append(buf, x)
  /\ UNCHANGED got

Get ==
  /\ buf # <<>>
  /\ got' = <<Head(buf)>>
  /\ buf' = Tail(buf)

Next == Get \/ \E x \in Data : Put(x)

Spec == Init /\ [][Next]_vars
================================================================================
