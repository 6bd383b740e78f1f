------------------------------- MODULE CallStack -------------------------------
(***************************************************************************)
(* What FSM_t and Signal_t promise: FSMs call one another as functions do.  *)
(* A call passes a signal and its count; Wait() returns to the caller,      *)
(* which finds what it was called with unchanged; and an FSM that has been  *)
(* called is not called again before it has returned.                       *)
(***************************************************************************)
EXTENDS Naturals, Sequences

CONSTANTS Task, Signal, GetFsm, AnEvent, Null, MaxCounter

VARIABLES calls,   \* the calls that have not returned, the latest first
          mode, counter

vars == <<calls, mode, counter>>

Init ==
  /\ calls = <<>>
  /\ mode \in [Signal -> {"Disabled", "Silent", "Active"}]
  /\ counter = [s \in Signal |-> 0]

OneMore(n) == IF n < MaxCounter THEN n + 1 ELSE n

Push(t, s, n) ==
  /\ \A i \in 1..Len(calls) : calls[i].fsm # t
  /\ calls' = <<[fsm |-> t, signal |-> s, count |-> n]>> \o calls

\* An FSM is started, or called by the dispatcher.
Call(t) ==
  /\ calls = <<>>
  /\ \/ Push(t, Null, 0)
     \/ Push(t, AnEvent, 1)
  /\ UNCHANGED <<mode, counter>>

\* An active signal calls its FSM with all it has counted.
Deliver(s) ==
  /\ mode[s] = "Active"
  /\ Push(GetFsm[s], s, OneMore(counter[s]))
  /\ counter' = [counter EXCEPT ![s] = 0]
  /\ UNCHANGED mode

\* A silent signal counts, and so does an active one of the FSM that sends it.
Count(s) ==
  /\ mode[s] = "Silent" \/ (mode[s] = "Active" /\ calls # <<>> /\ Head(calls).fsm = GetFsm[s])
  /\ counter' = [counter EXCEPT ![s] = OneMore(@)]
  /\ UNCHANGED <<calls, mode>>

SetMode(s, m) ==
  /\ mode' = [mode EXCEPT ![s] = m]
  /\ counter' = [counter EXCEPT ![s] = IF m = "Disabled" THEN 0 ELSE @]
  /\ UNCHANGED calls

\* Wait().
Return ==
  /\ calls # <<>>
  /\ calls' = Tail(calls)
  /\ UNCHANGED <<mode, counter>>

Next ==
  \/ Return
  \/ \E t \in Task : Call(t)
  \/ \E s \in Signal : Deliver(s) \/ Count(s)
  \/ \E s \in Signal, m \in {"Disabled", "Silent", "Active"} : SetMode(s, m)

Spec == Init /\ [][Next]_vars
================================================================================
