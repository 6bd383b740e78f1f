-------------------------- MODULE MCRecursiveMutex --------------------------
(* Small instances of RecursiveMutex for TLC. *)
EXTENDS RecursiveMutex

CONSTANTS t1, t2, t3, a1, a2, b1, c1

\* One event for each task, and two for the first.
OneEach == [e \in {a1, b1, c1} |-> CASE e = a1 -> t1 [] e = b1 -> t2 [] e = c1 -> t3]
TwoForOne == [e \in {a1, a2, b1} |-> IF e = b1 THEN t2 ELSE t1]
================================================================================
