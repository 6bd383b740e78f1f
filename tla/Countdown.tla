------------------------------ MODULE Countdown ------------------------------
(***************************************************************************)
(* What TimerEvent_t promises: every timer that is not disabled counts the  *)
(* ticks of one clock down from its period, fires when it is at zero as the *)
(* clock ticks, and starts over with the period it then has.                *)
(***************************************************************************)
EXTENDS Naturals

CONSTANTS Timer, MaxPeriod, MaxCounter

VARIABLES mode,     \* the mode of the timer event
          period,   \* ticks between two firings, less one
          left,     \* ticks to come before the one it fires at; 0 while disabled
          counter   \* what it has counted and not yet handed to its FSM

vars == <<mode, period, left, counter>>

Mode == {"Disabled", "Silent", "Active"}

Init ==
  /\ mode \in [Timer -> Mode]
  /\ period = [t \in Timer |-> 0]
  /\ left = [t \in Timer |-> 0]
  /\ counter = [t \in Timer |-> 0]

OneMore(n) == IF n < MaxCounter THEN n + 1 ELSE n

Fires(t) == mode[t] # "Disabled" /\ left[t] = 0

Tick ==
  /\ left' = [t \in Timer |-> IF mode[t] = "Disabled" THEN 0
                              ELSE IF Fires(t) THEN period[t] ELSE left[t] - 1]
  /\ counter' = [t \in Timer |-> IF Fires(t) THEN OneMore(counter[t]) ELSE counter[t]]
  /\ UNCHANGED <<mode, period>>

SetPeriod(t, p) ==
  /\ period' = [period EXCEPT ![t] = p]
  /\ UNCHANGED <<mode, left, counter>>

\* A timer that was disabled starts from its period; another mode changes
\* nothing about the time that is left.
SetMode(t, m) ==
  /\ mode' = [mode EXCEPT ![t] = m]
  /\ left' = [left EXCEPT ![t] = IF m = "Disabled" THEN 0
                                 ELSE IF mode[t] = "Disabled" THEN period[t] ELSE @]
  /\ counter' = [counter EXCEPT ![t] = IF m = "Disabled" THEN 0 ELSE @]
  /\ UNCHANGED period

\* The timer event is sent by its user.
Send(t) ==
  /\ counter' = [counter EXCEPT ![t] = OneMore(@)]
  /\ UNCHANGED <<mode, period, left>>

\* Its count is handed to its FSM.
Deliver(t) ==
  /\ mode[t] = "Active"
  /\ counter' = [counter EXCEPT ![t] = 0]
  /\ UNCHANGED <<mode, period, left>>

Next ==
  \/ Tick
  \/ \E t \in Timer : \/ \E p \in 0..MaxPeriod : SetPeriod(t, p)
                      \/ \E m \in Mode : SetMode(t, m)
                      \/ Send(t)
                      \/ Deliver(t)

Spec == Init /\ [][Next]_vars
================================================================================
