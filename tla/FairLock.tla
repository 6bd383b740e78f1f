------------------------------- MODULE FairLock -------------------------------
(***************************************************************************)
(* What RecursiveMutex_t promises: one holder at a time, who may enter      *)
(* again as often as it leaves again, and a line of tasks that get the lock *)
(* in the order they joined.  Whoever leaves for the last time passes the   *)
(* lock to the head of the line, so nobody can slip in between.             *)
(***************************************************************************)
EXTENDS Naturals, Sequences

CONSTANTS Task, None

VARIABLES holder,  \* who the lock belongs to, or None
          depth,   \* how many times it has entered; 0 when just passed on
          line     \* who waits, first come first

vars == <<holder, depth, line>>

Init == holder = None /\ depth = 0 /\ line = <<>>

Enter(t) ==
  /\ holder \in {None, t}
  /\ holder' = t
  /\ depth' = depth + 1
  /\ UNCHANGED line

Join(t) ==
  /\ holder \notin {None, t}
  /\ \A i \in 1..Len(line) : line[i] # t
  /\ line' = Append(line, t)
  /\ UNCHANGED <<holder, depth>>

Leave ==
  /\ depth > 1
  /\ depth' = depth - 1
  /\ UNCHANGED <<holder, line>>

PassOn ==
  /\ depth = 1
  /\ depth' = 0
  /\ IF line = <<>> THEN holder' = None /\ UNCHANGED line
     ELSE holder' = Head(line) /\ line' = Tail(line)

Next == Leave \/ PassOn \/ \E t \in Task : Enter(t) \/ Join(t)

Spec == Init /\ [][Next]_vars
================================================================================
