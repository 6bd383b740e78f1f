------------------------------ MODULE TimerEvent ------------------------------
(***************************************************************************)
(* TimerEvent_t (src/core/adx_TimerEvent.h and adx_TimerEvent.cpp): software *)
(* timers that all compare their TimerCounter, for equality, with one       *)
(* wrapping GlobalTimerCounter that the interrupt handler of a hardware     *)
(* timer advances; the hardware interrupt is on only while a timer needs it.*)
(*                                                                          *)
(* A step is one critical section or one run of the interrupt handler,      *)
(* which may strike between any two critical sections of SleepFor.  Tasks   *)
(* are cooperative: while one is inside SleepFor, no other runs.  Each task *)
(* here has one timer, and goes by its name; of the event below a timer     *)
(* only the count and its delivery are kept, as EventMailbox describes them.*)
(***************************************************************************)
EXTENDS Integers, FiniteSets

CONSTANTS Timer,       \* the timer events, all of them in TimerPtrArray
          InitMode,    \* the mode each is constructed with
          TickMod,     \* number of values of the tick counters: 65536
          MaxCounter   \* the largest SignalCounter_t: 65535

Mode == {"Disabled", "Silent", "Active"}

ASSUME TimerAssumption ==
  /\ IsFiniteSet(Timer)
  /\ InitMode \in [Timer -> Mode]
  /\ TickMod \in Nat \ {0}
  /\ MaxCounter \in Nat \ {0}

Ticks == 0..(TickMod - 1)   \* uint16_t

VARIABLES
  mode,         \* Signal_t::Mode
  Counter,      \* Signal_t::Counter
  TimerPeriod, TimerCounter,
  GlobalTimerCounter, NofNotDisabled,
  INTCTRLA,     \* the interrupt of the hardware timer is on
  pc,           \* where the task of the timer is in SleepFor
  NofTicks,     \* SleepFor's argument
  owed          \* ticks the sleeping task still has to be kept waiting (history)

timerVars == <<mode, Counter, TimerPeriod, TimerCounter,
               GlobalTimerCounter, NofNotDisabled, INTCTRLA>>
sleepVars == <<pc, NofTicks, owed>>
vars      == <<mode, Counter, TimerPeriod, TimerCounter, GlobalTimerCounter,
               NofNotDisabled, INTCTRLA, pc, NofTicks, owed>>

Init ==
  /\ mode = InitMode
  /\ Counter = [t \in Timer |-> 0]
  /\ TimerPeriod = [t \in Timer |-> 0]
  /\ TimerCounter = [t \in Timer |-> 0]
  /\ GlobalTimerCounter = 0
  /\ NofNotDisabled = 0
  /\ INTCTRLA = FALSE
  /\ pc = [t \in Timer |-> "Ready"]
  /\ NofTicks = [t \in Timer |-> 0]
  /\ owed = [t \in Timer |-> 0]

--------------------------------------------------------------------------------
(* A name with an underscore is a faulty variant of the operator it is named  *)
(* after: a run replaces the one by the other to see its properties fail.     *)

\* Event_t::Send of a timer that is not disabled: the counter saturates.
OneMore(n) == IF n < MaxCounter THEN n + 1 ELSE n

\* TimerCounter of a timer that is switched on: one tick too many, ...
Armed_Late(t) == (GlobalTimerCounter + TimerPeriod[t] + 1) % TickMod

\* ... and not reduced to the width of the counter.
Armed_Wide(t) == GlobalTimerCounter + TimerPeriod[t]

Armed(t) == (GlobalTimerCounter + TimerPeriod[t]) % TickMod

\* A timer that has not heard that the tick is not over yet.
Rearmed_Early(t) == (GlobalTimerCounter + TimerPeriod[t]) % TickMod

\* TimerCounter of a timer that fires, before the global counter advances.
Rearmed(t) == (GlobalTimerCounter + TimerPeriod[t] + 1) % TickMod

Expired(t) == mode[t] # "Disabled" /\ TimerCounter[t] = GlobalTimerCounter

\* TimerISR, on an interrupt of the hardware timer.
TimerISR ==
  /\ INTCTRLA
  /\ TimerCounter' = [t \in Timer |-> IF Expired(t) THEN Rearmed(t) ELSE TimerCounter[t]]
  /\ Counter' = [t \in Timer |-> IF Expired(t) THEN OneMore(Counter[t]) ELSE Counter[t]]
  /\ GlobalTimerCounter' = (GlobalTimerCounter + 1) % TickMod
  /\ owed' = [t \in Timer |-> IF owed[t] > 0 THEN owed[t] - 1 ELSE 0]
  /\ UNCHANGED <<mode, TimerPeriod, NofNotDisabled, INTCTRLA, pc, NofTicks>>

\* A timer that is disabled twice is counted out twice.
NofAfter_Twice(t, m) ==
  IF m = "Disabled"
  THEN IF NofNotDisabled > 0 THEN NofNotDisabled - 1 ELSE 0
  ELSE IF mode[t] = "Disabled" THEN NofNotDisabled + 1 ELSE NofNotDisabled

\* NofNotDisabledTimerEvents after SetMode(m).
NofAfter(t, m) ==
  IF mode[t] = "Disabled"
  THEN IF m # "Disabled" THEN NofNotDisabled + 1 ELSE NofNotDisabled
  ELSE IF m = "Disabled" /\ NofNotDisabled > 0 THEN NofNotDisabled - 1 ELSE NofNotDisabled

\* TimerEvent_t::SetMode, with what Event_t::SetMode does to the counter.
SetMode(t, m) ==
  LET starts == mode[t] = "Disabled" /\ m # "Disabled" IN
  /\ NofNotDisabled' = NofAfter(t, m)
  /\ TimerCounter' = IF starts THEN [TimerCounter EXCEPT ![t] = Armed(t)] ELSE TimerCounter
  /\ INTCTRLA' = ((INTCTRLA \/ starts) /\ NofAfter(t, m) # 0)
  /\ mode' = [mode EXCEPT ![t] = m]
  /\ Counter' = [Counter EXCEPT ![t] = IF m = "Disabled" THEN 0 ELSE @]
  /\ UNCHANGED <<TimerPeriod, GlobalTimerCounter>>

SetPeriod(t, p) ==
  /\ TimerPeriod' = [TimerPeriod EXCEPT ![t] = p]
  /\ UNCHANGED <<mode, Counter, TimerCounter, GlobalTimerCounter, NofNotDisabled, INTCTRLA>>

\* No other task is in the middle of SleepFor.
HasProcessor(t) == \A s \in Timer \ {t} : pc[s] \in {"Ready", "Waiting"}

\* The task at p goes on to q.
Goes(t, p, q) ==
  /\ HasProcessor(t)
  /\ pc[t] = p
  /\ pc' = [pc EXCEPT ![t] = q]

\* The task uses its timer without SleepFor, as for periodic events.
UseTimer(t) ==
  /\ Goes(t, "Ready", "Ready")
  /\ (\E m \in Mode : SetMode(t, m)) \/ (\E p \in Ticks : SetPeriod(t, p))
  /\ UNCHANGED sleepVars

\* SleepFor(t, n): SetMode(Disabled), ...
SleepFor(t, n) ==
  /\ Goes(t, "Ready", "Period")
  /\ SetMode(t, "Disabled")
  /\ NofTicks' = [NofTicks EXCEPT ![t] = n]
  /\ UNCHANGED owed

\* ... SetPeriod(0) or SetPeriod(n - 1), ...
SleepPeriod(t) ==
  /\ Goes(t, "Period", "Arm")
  /\ SetPeriod(t, IF NofTicks[t] = 0 THEN 0 ELSE NofTicks[t] - 1)
  /\ UNCHANGED <<NofTicks, owed>>

\* ... SetMode(Active), and Wait() at once unless n is 0, ...
SleepArm(t) ==
  /\ Goes(t, "Arm", IF NofTicks[t] = 0 THEN "Kick" ELSE "Waiting")
  /\ SetMode(t, "Active")
  /\ owed' = [owed EXCEPT ![t] = NofTicks[t]]
  /\ UNCHANGED NofTicks

\* ... when the event is sent first.
SleepKick(t) ==
  /\ Goes(t, "Kick", "Waiting")
  /\ Counter' = [Counter EXCEPT ![t] = OneMore(@)]
  /\ UNCHANGED <<mode, TimerPeriod, TimerCounter, GlobalTimerCounter,
                 NofNotDisabled, INTCTRLA, NofTicks, owed>>

\* The dispatcher delivers the event: to the task that sleeps for it ...
Wake(t) ==
  /\ Goes(t, "Waiting", "Woken")
  /\ mode[t] = "Active" /\ Counter[t] > 0
  /\ Counter' = [Counter EXCEPT ![t] = 0]
  /\ UNCHANGED <<mode, TimerPeriod, TimerCounter, GlobalTimerCounter,
                 NofNotDisabled, INTCTRLA, NofTicks, owed>>

\* ... or to one that waits for it otherwise.
Deliver(t) ==
  /\ Goes(t, "Ready", "Ready")
  /\ mode[t] = "Active" /\ Counter[t] > 0
  /\ Counter' = [Counter EXCEPT ![t] = 0]
  /\ UNCHANGED <<mode, TimerPeriod, TimerCounter, GlobalTimerCounter,
                 NofNotDisabled, INTCTRLA, NofTicks, owed>>

\* SleepFor disables the timer and returns.
SleepEnd(t) ==
  /\ Goes(t, "Woken", "Ready")
  /\ SetMode(t, "Disabled")
  /\ NofTicks' = [NofTicks EXCEPT ![t] = 0]
  /\ owed' = [owed EXCEPT ![t] = 0]

\* What a task that sleeps does by itself.
Sleeper(t) == \/ SleepPeriod(t) \/ SleepArm(t) \/ SleepKick(t)
              \/ Wake(t) \/ SleepEnd(t)

Next ==
  \/ TimerISR
  \/ \E t \in Timer : \/ UseTimer(t) \/ Deliver(t)
                      \/ \E n \in Ticks : SleepFor(t, n)
                      \/ Sleeper(t)

\* The hardware timer goes on while its interrupt is on, tasks are cooperative,
\* and a due event is delivered although others are (NoStarvation of
\* EventSystem).
Fairness == WF_vars(TimerISR) /\ \A t \in Timer : SF_vars(Sleeper(t))

Spec == Init /\ [][Next]_vars
FairSpec == Spec /\ Fairness
--------------------------------------------------------------------------------
(* Properties *)

\* Every variable has its type.
TypeOK ==
  /\ mode \in [Timer -> Mode]
  /\ Counter \in [Timer -> 0..MaxCounter]
  /\ TimerPeriod \in [Timer -> Ticks]
  /\ TimerCounter \in [Timer -> Ticks]
  /\ GlobalTimerCounter \in Ticks
  /\ NofNotDisabled \in 0..Cardinality(Timer)
  /\ INTCTRLA \in BOOLEAN
  /\ pc \in [Timer -> {"Ready", "Period", "Arm", "Kick", "Waiting", "Woken"}]
  /\ NofTicks \in [Timer -> Ticks]
  /\ owed \in [Timer -> Ticks]

\* The interrupt is on exactly while a timer is not disabled: no timer waits
\* for a clock that was stopped when another one was disabled.
ClockRunsWhenNeeded == INTCTRLA <=> \E t \in Timer : mode[t] # "Disabled"

\* The interrupt is switched off only by the step that disables the last timer:
\* "Hardware timer (TC) interrupt is automatically disabled when all TimerEvents
\* are in Disabled state" (manual, 3.8).
StopsWithTheLast ==
  [][INTCTRLA /\ ~INTCTRLA' => \A t \in Timer : mode'[t] = "Disabled"]_vars

\* A task in SleepFor(n) is due neither before n ticks have passed since it
\* armed its timer nor after, wherever the interrupt struck meanwhile and
\* whatever the timer had counted in an earlier use.
SleepsExactly == \A t \in Timer : pc[t] = "Waiting" => (Counter[t] > 0 <=> owed[t] = 0)

Left == [t \in Timer |-> IF mode[t] = "Disabled" THEN 0
                         ELSE (TimerCounter[t] - GlobalTimerCounter) % TickMod]

Down == INSTANCE Countdown WITH period <- TimerPeriod, left <- Left,
                                counter <- Counter, MaxPeriod <- TickMod - 1

\* Comparing wrapping counters for equality never misses a match, which would
\* cost a whole turn of the counter: every timer counts down from its period.
ImplementsCountdown == Down!Spec

\* SleepFor returns.
SleepReturns == \A t \in Timer : pc[t] = "Waiting" ~> pc[t] = "Ready"
================================================================================
