----------------------------- MODULE EventMailbox -----------------------------
(***************************************************************************)
(* What Event_t promises its user, with no queue, priority or dispatcher in *)
(* sight: an event counts the times it was sent, and while it is active     *)
(* its count is, sooner or later, handed as a whole to its FSM.             *)
(***************************************************************************)
EXTENDS Integers

CONSTANTS Event, Null, NoFsm, MaxCounter

VARIABLES alive, mode, counter, handed, up

vars == <<alive, mode, counter, handed, up>>

Mode == {"Disabled", "Silent", "Active"}

Nothing == [event |-> Null, count |-> 0]

Init ==
  /\ alive \in [Event -> BOOLEAN]
  /\ mode \in [Event -> Mode]
  /\ counter = [e \in Event |-> 0]
  /\ handed = Nothing
  /\ up = TRUE

\* Sent while not disabled: counted, up to the largest count there is.
Send(e) ==
  /\ alive[e] /\ mode[e] # "Disabled"
  /\ counter[e] < MaxCounter
  /\ counter' = [counter EXCEPT ![e] = @ + 1]
  /\ UNCHANGED <<alive, mode, handed, up>>

\* Disabling an event forgets what it has counted; no other change of mode does.
SetMode(e, m) ==
  /\ alive[e]
  /\ mode' = [mode EXCEPT ![e] = m]
  /\ counter' = [counter EXCEPT ![e] = IF m = "Disabled" THEN 0 ELSE @]
  /\ UNCHANGED <<alive, handed, up>>

Construct(e, m) ==
  /\ ~alive[e]
  /\ alive' = [alive EXCEPT ![e] = TRUE]
  /\ mode' = [mode EXCEPT ![e] = m]
  /\ counter' = [counter EXCEPT ![e] = 0]
  /\ UNCHANGED <<handed, up>>

Destroy(e) ==
  /\ alive[e]
  /\ alive' = [alive EXCEPT ![e] = FALSE]
  /\ mode' = [mode EXCEPT ![e] = "Disabled"]
  /\ counter' = [counter EXCEPT ![e] = 0]
  /\ UNCHANGED <<handed, up>>

\* Something has been counted that the event's FSM is to be told.
Due(e) == up /\ alive[e] /\ mode[e] = "Active" /\ counter[e] > 0

\* The whole count goes to the FSM, or nowhere when the event has none.
Deliver(e) ==
  /\ Due(e)
  /\ handed = Nothing
  /\ counter' = [counter EXCEPT ![e] = 0]
  /\ handed' = IF e \in NoFsm THEN handed
               ELSE [event |-> e, count |-> counter[e]]
  /\ UNCHANGED <<alive, mode, up>>

\* The FSM has taken what it was handed and waits again.
Return == handed' = Nothing /\ UNCHANGED <<alive, mode, counter, up>>

\* The main loop ends.
Stop == up /\ up' = FALSE /\ UNCHANGED <<alive, mode, counter, handed>>

Next ==
  \/ \E e \in Event : Send(e) \/ Deliver(e) \/ Destroy(e)
  \/ \E e \in Event, m \in Mode : SetMode(e, m) \/ Construct(e, m)
  \/ Return
  \/ Stop

Spec == Init /\ [][Next]_vars

\* A delivery is never due for ever: it is made, or called off by a task that
\* takes the event out of use.
Promise == \A e \in Event : Due(e) ~> ~Due(e)
================================================================================
