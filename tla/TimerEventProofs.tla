--------------------------- MODULE TimerEventProofs ---------------------------
(***************************************************************************)
(* Theorems about TimerEvent, for every set of timers and every width of    *)
(* the tick counters.                                                       *)
(***************************************************************************)
EXTENDS TimerEvent, TLAPS, FiniteSetTheorems

\* A tick counter wraps as the index of a queue does.
Wrapping == INSTANCE SystemQueueOpsProofs WITH IndexMod <- TickMod, Null <- 0

\* The timers have their types.
TimerType ==
  /\ mode \in [Timer -> Mode]
  /\ Counter \in [Timer -> 0..MaxCounter]
  /\ TimerPeriod \in [Timer -> Ticks]
  /\ TimerCounter \in [Timer -> Ticks]
  /\ GlobalTimerCounter \in Ticks

\* So have the tasks.
SleepType ==
  /\ pc \in [Timer -> {"Ready", "Period", "Arm", "Kick", "Waiting", "Woken"}]
  /\ NofTicks \in [Timer -> Ticks]
  /\ owed \in [Timer -> Ticks]

\* What SleepFor has achieved at each of its steps.
SleepAt(t) ==
  /\ pc[t] = "Period" => mode[t] = "Disabled" /\ Counter[t] = 0
  /\ pc[t] = "Arm" => /\ mode[t] = "Disabled" /\ Counter[t] = 0
                      /\ TimerPeriod[t] = IF NofTicks[t] = 0 THEN 0 ELSE NofTicks[t] - 1
  /\ pc[t] = "Kick" => mode[t] # "Disabled" /\ owed[t] = 0
  /\ pc[t] = "Waiting" =>
       /\ mode[t] # "Disabled"
       /\ IF owed[t] = 0 THEN Counter[t] > 0
          ELSE Counter[t] = 0 /\ Left[t] = owed[t] - 1

SleepInv == \A t \in Timer : SleepAt(t)

TInv == TimerType /\ SleepType /\ SleepInv

--------------------------------------------------------------------------------
\* The ticks a timer has left are a tick count; none are left exactly when its
\* counter is the global one.
LEMMA LeftZero ==
  ASSUME NEW a \in Ticks, NEW g \in Ticks
  PROVE  (a - g) % TickMod \in Ticks /\ ((a - g) % TickMod = 0 <=> a = g)
<1>1. TickMod \in Nat \ {0} /\ a \in 0..(TickMod - 1) /\ g \in 0..(TickMod - 1)
  BY TimerAssumption DEF Ticks
<1>2. (a - g) % TickMod = IF a >= g THEN a - g ELSE a - g + TickMod
  BY <1>1, Wrapping!ModDiff
<1> QED BY <1>1, <1>2 DEF Ticks

\* A timer that is armed has its period left.
LEMMA LeftArmed ==
  ASSUME NEW g \in Ticks, NEW p \in Ticks
  PROVE  /\ (g + p) % TickMod \in Ticks
         /\ (((g + p) % TickMod) - g) % TickMod = p
<1>1. TickMod \in Nat \ {0} /\ p \in 0..(TickMod - 1) /\ g \in 0..(TickMod - 1)
      /\ p \in 0..TickMod
  BY TimerAssumption DEF Ticks
<1>2. PICK a : a = (g + p) % TickMod
  OBVIOUS
<1>3. a = IF g + p < TickMod THEN g + p ELSE g + p - TickMod
  BY <1>1, <1>2, Wrapping!ModSum
<1>4. a \in 0..(TickMod - 1)
  BY <1>1, <1>3
<1>5. (a - g) % TickMod = IF a >= g THEN a - g ELSE a - g + TickMod
  BY <1>1, <1>4, Wrapping!ModDiff
<1> QED BY <1>1, <1>2, <1>3, <1>4, <1>5 DEF Ticks

\* A tick takes one from what is left, unless nothing was.
LEMMA LeftTicks ==
  ASSUME NEW g \in Ticks
  PROVE  /\ (g + 1) % TickMod \in Ticks
         /\ \A a \in Ticks \ {g} :
              (a - ((g + 1) % TickMod)) % TickMod = ((a - g) % TickMod) - 1
         /\ \A p \in Ticks :
              /\ (g + p + 1) % TickMod \in Ticks
              /\ (((g + p + 1) % TickMod) - ((g + 1) % TickMod)) % TickMod = p
<1>1. TickMod \in Nat \ {0} /\ g \in 0..(TickMod - 1) /\ 1 \in 0..TickMod
  BY TimerAssumption DEF Ticks
<1>2. PICK h : h = (g + 1) % TickMod
  OBVIOUS
<1>3. h = IF g + 1 < TickMod THEN g + 1 ELSE g + 1 - TickMod
  BY <1>1, <1>2, Wrapping!ModSum
<1>4. h \in 0..(TickMod - 1)
  BY <1>1, <1>3
<1>5. ASSUME NEW a \in Ticks \ {g}
      PROVE  (a - h) % TickMod = ((a - g) % TickMod) - 1
  <2>1. a \in 0..(TickMod - 1) /\ a # g
    BY DEF Ticks
  <2>2. /\ (a - h) % TickMod = IF a >= h THEN a - h ELSE a - h + TickMod
        /\ (a - g) % TickMod = IF a >= g THEN a - g ELSE a - g + TickMod
    BY <1>1, <1>4, <2>1, Wrapping!ModDiff
  <2> QED BY <1>1, <1>3, <2>1, <2>2
<1>6. ASSUME NEW p \in Ticks
      PROVE  /\ (g + p + 1) % TickMod \in Ticks
             /\ (((g + p + 1) % TickMod) - h) % TickMod = p
  <2>1. p + 1 \in 0..TickMod /\ g + p + 1 = g + (p + 1) /\ p \in 0..(TickMod - 1)
    BY <1>1 DEF Ticks
  <2>2. PICK a : a = (g + p + 1) % TickMod
    OBVIOUS
  <2>3. a = IF g + (p + 1) < TickMod THEN g + (p + 1) ELSE g + (p + 1) - TickMod
    BY <1>1, <2>1, <2>2, Wrapping!ModSum
  <2>4. a \in 0..(TickMod - 1)
    BY <1>1, <2>1, <2>3
  <2>5. (a - h) % TickMod = IF a >= h THEN a - h ELSE a - h + TickMod
    BY <1>1, <1>4, <2>4, Wrapping!ModDiff
  <2> QED BY <1>1, <1>3, <2>1, <2>2, <2>3, <2>4, <2>5 DEF Ticks
<1> QED BY <1>2, <1>4, <1>5, <1>6 DEF Ticks

\* What Left says of one timer.
LEMMA LeftOf ==
  ASSUME NEW t \in Timer
  PROVE  /\ Left[t] = IF mode[t] = "Disabled" THEN 0
                      ELSE (TimerCounter[t] - GlobalTimerCounter) % TickMod
         /\ Left'[t] = IF mode'[t] = "Disabled" THEN 0
                       ELSE (TimerCounter'[t] - GlobalTimerCounter') % TickMod
  BY DEF Left

\* One run of the interrupt handler, seen from one timer.
LEMMA TickFacts ==
  ASSUME TimerType, TimerISR, NEW t \in Timer
  PROVE  /\ Expired(t) <=> mode[t] # "Disabled" /\ Left[t] = 0
         /\ TimerCounter'[t] \in Ticks /\ GlobalTimerCounter' \in Ticks
         /\ Left'[t] = IF mode[t] = "Disabled" THEN 0
                       ELSE IF Expired(t) THEN TimerPeriod[t] ELSE Left[t] - 1
<1>1. PICK a, g, p : a = TimerCounter[t] /\ g = GlobalTimerCounter /\ p = TimerPeriod[t]
  OBVIOUS
<1>2. a \in Ticks /\ g \in Ticks /\ p \in Ticks
  BY <1>1 DEF TimerType
<1>3. /\ mode'[t] = mode[t]
      /\ TimerCounter'[t] = IF Expired(t) THEN (g + p + 1) % TickMod ELSE a
      /\ GlobalTimerCounter' = (g + 1) % TickMod
  BY <1>1 DEF TimerISR, Rearmed
<1>4. Expired(t) <=> mode[t] # "Disabled" /\ a = g
  BY <1>1 DEF Expired
<1>5. (a - g) % TickMod = 0 <=> a = g
  BY <1>2, LeftZero
<1>6. /\ (g + 1) % TickMod \in Ticks
      /\ a # g => (a - ((g + 1) % TickMod)) % TickMod = ((a - g) % TickMod) - 1
      /\ (g + p + 1) % TickMod \in Ticks
      /\ (((g + p + 1) % TickMod) - ((g + 1) % TickMod)) % TickMod = p
  BY <1>2, LeftTicks
<1>7. /\ Left[t] = IF mode[t] = "Disabled" THEN 0 ELSE (a - g) % TickMod
      /\ Left'[t] = IF mode[t] = "Disabled" THEN 0
                    ELSE (TimerCounter'[t] - ((g + 1) % TickMod)) % TickMod
  BY <1>1, <1>3, LeftOf
<1>8. CASE Expired(t)
  BY <1>1, <1>3, <1>4, <1>5, <1>6, <1>7, <1>8
<1>9. CASE ~Expired(t)
  BY <1>1, <1>2, <1>3, <1>4, <1>5, <1>6, <1>7, <1>9
<1> QED BY <1>8, <1>9

\* SetMode, seen from the timer it is called for and from the others.
LEMMA SetModeFacts ==
  ASSUME TimerType, NEW t \in Timer, NEW m \in Mode, SetMode(t, m)
  PROVE  /\ TimerType'
         /\ mode' = [mode EXCEPT ![t] = m]
         /\ Counter' = [Counter EXCEPT ![t] = IF m = "Disabled" THEN 0 ELSE @]
         /\ TimerPeriod' = TimerPeriod
         /\ Left'[t] = IF m = "Disabled" THEN 0
                       ELSE IF mode[t] = "Disabled" THEN TimerPeriod[t] ELSE Left[t]
         /\ \A s \in Timer \ {t} : Left'[s] = Left[s]
<1>1. PICK a, g, p : a = TimerCounter[t] /\ g = GlobalTimerCounter /\ p = TimerPeriod[t]
  OBVIOUS
<1>2. a \in Ticks /\ g \in Ticks /\ p \in Ticks
  BY <1>1 DEF TimerType
<1>3. (g + p) % TickMod \in Ticks /\ (((g + p) % TickMod) - g) % TickMod = p
  BY <1>2, LeftArmed
<1>4. /\ mode' = [mode EXCEPT ![t] = m]
      /\ Counter' = [Counter EXCEPT ![t] = IF m = "Disabled" THEN 0 ELSE @]
      /\ TimerPeriod' = TimerPeriod /\ GlobalTimerCounter' = g
      /\ TimerCounter' = IF mode[t] = "Disabled" /\ m # "Disabled"
                         THEN [TimerCounter EXCEPT ![t] = (g + p) % TickMod]
                         ELSE TimerCounter
  BY <1>1 DEF SetMode, Armed
<1>5. TimerType'
  <2>1. MaxCounter \in Nat
    BY TimerAssumption
  <2> QED BY <1>1, <1>2, <1>3, <1>4, <2>1 DEF TimerType
<1>6. /\ mode'[t] = m
      /\ TimerCounter'[t] = IF mode[t] = "Disabled" /\ m # "Disabled"
                            THEN (g + p) % TickMod ELSE a
      /\ \A s \in Timer \ {t} : mode'[s] = mode[s] /\ TimerCounter'[s] = TimerCounter[s]
  BY <1>1, <1>4 DEF TimerType
<1>7. Left'[t] = IF m = "Disabled" THEN 0
                 ELSE IF mode[t] = "Disabled" THEN p ELSE Left[t]
  BY <1>1, <1>3, <1>4, <1>6, LeftOf
<1>8. \A s \in Timer \ {t} : Left'[s] = Left[s]
  BY <1>1, <1>4, <1>6, LeftOf
<1> QED BY <1>1, <1>4, <1>5, <1>7, <1>8

\* The steps that change neither a mode nor a tick counter.
LEMMA LeftKept ==
  ASSUME UNCHANGED <<mode, TimerCounter, GlobalTimerCounter>>
  PROVE  Left' = Left
  BY DEF Left

\* The type of the members that stay as they are, stays.
LEMMA TypeKept ==
  ASSUME TimerType, UNCHANGED <<mode, TimerCounter, GlobalTimerCounter>>,
         TimerPeriod' \in [Timer -> Ticks], Counter' \in [Timer -> 0..MaxCounter]
  PROVE  TimerType'
  BY DEF TimerType

\* A timer whose task and counters a step leaves alone.
LEMMA OtherSleeper ==
  ASSUME NEW s \in Timer, SleepAt(s),
         pc'[s] = pc[s], mode'[s] = mode[s], Counter'[s] = Counter[s],
         TimerPeriod'[s] = TimerPeriod[s], Left'[s] = Left[s],
         NofTicks'[s] = NofTicks[s], owed'[s] = owed[s]
  PROVE  SleepAt(s)'
  BY DEF SleepAt

\* Nobody sleeps at the start.
LEMMA InitInv == Init => TInv
<1> SUFFICES ASSUME Init PROVE TInv
  OBVIOUS
<1>1. 0 \in Ticks /\ 0 \in 0..MaxCounter /\ InitMode \in [Timer -> Mode]
  BY TimerAssumption DEF Ticks
<1>2. TimerType /\ SleepType
  BY <1>1 DEF Init, TimerType, SleepType
<1>3. SleepInv
  BY DEF Init, SleepInv, SleepAt
<1> QED BY <1>2, <1>3 DEF TInv

\* The interrupt handler keeps the invariant, wherever it strikes.
LEMMA TickInv == ASSUME TInv, TimerISR PROVE TInv'
<1>0. TimerType /\ SleepType /\ SleepInv /\ MaxCounter \in Nat
  BY TimerAssumption DEF TInv
<1>1. /\ Counter' = [t \in Timer |-> IF Expired(t) THEN OneMore(Counter[t]) ELSE Counter[t]]
      /\ owed' = [t \in Timer |-> IF owed[t] > 0 THEN owed[t] - 1 ELSE 0]
      /\ TimerCounter' = [t \in Timer |-> IF Expired(t) THEN Rearmed(t) ELSE TimerCounter[t]]
      /\ UNCHANGED <<mode, TimerPeriod, pc, NofTicks>>
  BY DEF TimerISR
<1>2. \A n \in 0..MaxCounter : OneMore(n) \in 0..MaxCounter /\ (n = 0 => OneMore(n) > 0)
      /\ (n > 0 => OneMore(n) > 0)
  BY <1>0, TimerAssumption DEF OneMore
<1>3. TimerType'
  <2>1. GlobalTimerCounter' \in Ticks
    BY <1>0, TimerAssumption, LeftTicks DEF TimerISR, TimerType
  <2>2. \A t \in Timer : TimerCounter'[t] \in Ticks
    BY <1>0, TickFacts
  <2>3. TimerCounter' \in [Timer -> Ticks]
    BY <1>1, <2>2
  <2>4. Counter' \in [Timer -> 0..MaxCounter]
    BY <1>0, <1>1, <1>2 DEF TimerType
  <2> QED BY <1>0, <1>1, <2>1, <2>3, <2>4 DEF TimerType
<1>4. SleepType'
  BY <1>0, <1>1, TimerAssumption DEF SleepType, Ticks
<1>5. ASSUME NEW t \in Timer PROVE SleepAt(t)'
  <2>1. SleepAt(t) /\ owed[t] \in Nat /\ Counter[t] \in 0..MaxCounter
    BY <1>0 DEF SleepInv, SleepType, TimerType, Ticks
  <2>2. /\ pc'[t] = pc[t] /\ mode'[t] = mode[t] /\ TimerPeriod'[t] = TimerPeriod[t]
        /\ NofTicks'[t] = NofTicks[t]
        /\ Counter'[t] = IF Expired(t) THEN OneMore(Counter[t]) ELSE Counter[t]
        /\ owed'[t] = IF owed[t] > 0 THEN owed[t] - 1 ELSE 0
    BY <1>1
  <2>3. /\ Expired(t) <=> mode[t] # "Disabled" /\ Left[t] = 0
        /\ Left'[t] = IF mode[t] = "Disabled" THEN 0
                      ELSE IF Expired(t) THEN TimerPeriod[t] ELSE Left[t] - 1
    BY <1>0, TickFacts
  <2>4. CASE pc[t] = "Waiting"
    BY <2>1, <2>2, <2>3, <2>4, <1>2 DEF SleepAt
  <2>5. CASE pc[t] # "Waiting"
    BY <2>1, <2>2, <2>3, <2>5 DEF SleepAt
  <2> QED BY <2>4, <2>5
<1> QED BY <1>3, <1>4, <1>5 DEF TInv, SleepInv

\* The steps of tasks, inside and outside SleepFor, keep the invariant.
LEMMA TaskInv ==
  ASSUME TInv, NEW t \in Timer,
         UseTimer(t) \/ Deliver(t) \/ (\E n \in Ticks : SleepFor(t, n)) \/ Sleeper(t)
  PROVE  TInv'
<1>0. TimerType /\ SleepType /\ SleepInv /\ MaxCounter \in Nat \ {0} /\ TickMod \in Nat \ {0}
  BY TimerAssumption DEF TInv
<1>a. 0 \in Ticks
  BY <1>0 DEF Ticks
<1>1. ASSUME TimerType', SleepType', SleepAt(t)',
             \A s \in Timer \ {t} :
               /\ pc'[s] = pc[s] /\ mode'[s] = mode[s] /\ Counter'[s] = Counter[s]
               /\ TimerPeriod'[s] = TimerPeriod[s] /\ Left'[s] = Left[s]
               /\ NofTicks'[s] = NofTicks[s] /\ owed'[s] = owed[s]
      PROVE  TInv'
  <2>1. ASSUME NEW s \in Timer \ {t} PROVE SleepAt(s)'
    BY <1>0, <1>1, OtherSleeper DEF SleepInv
  <2> QED BY <1>1, <2>1 DEF TInv, SleepInv
<1>2. CASE UseTimer(t)
  <2>0. pc[t] = "Ready" /\ pc' = pc /\ NofTicks' = NofTicks /\ owed' = owed
    BY <1>0, <1>2 DEF UseTimer, Goes, sleepVars, SleepType
  <2>1. SleepAt(t)' /\ SleepType'
    BY <1>0, <2>0 DEF SleepAt, SleepType
  <2>2. CASE \E m \in Mode : SetMode(t, m)
    <3>1. PICK m \in Mode : SetMode(t, m)
      BY <2>2
    <3>2. /\ TimerType'
          /\ mode' = [mode EXCEPT ![t] = m]
          /\ Counter' = [Counter EXCEPT ![t] = IF m = "Disabled" THEN 0 ELSE @]
          /\ TimerPeriod' = TimerPeriod
          /\ \A s \in Timer \ {t} : Left'[s] = Left[s]
      BY <1>0, <3>1, SetModeFacts
    <3> QED BY <1>0, <1>1, <2>0, <2>1, <3>2 DEF TimerType
  <2>3. CASE \E p \in Ticks : SetPeriod(t, p)
    <3>1. /\ UNCHANGED <<mode, Counter, TimerCounter, GlobalTimerCounter>>
          /\ TimerPeriod' \in [Timer -> Ticks]
          /\ \A s \in Timer \ {t} : TimerPeriod'[s] = TimerPeriod[s]
      BY <2>3, <1>0 DEF SetPeriod, TimerType
    <3>2. TimerType' /\ Left' = Left
      BY <1>0, <3>1, LeftKept DEF TimerType
    <3> QED BY <1>1, <2>0, <2>1, <3>1, <3>2
  <2> QED BY <1>2, <2>2, <2>3 DEF UseTimer
<1>3. CASE Deliver(t)
  <2>1. /\ pc[t] = "Ready" /\ pc' = pc /\ Counter' = [Counter EXCEPT ![t] = 0]
        /\ UNCHANGED <<mode, TimerPeriod, TimerCounter, GlobalTimerCounter, NofTicks, owed>>
    BY <1>0, <1>3 DEF Deliver, Goes, SleepType
  <2>2. TimerType' /\ SleepType' /\ Left' = Left
    BY <1>0, <2>1, LeftKept DEF TimerType, SleepType
  <2>3. SleepAt(t)'
    BY <2>1 DEF SleepAt
  <2> QED BY <1>0, <1>1, <2>1, <2>2, <2>3 DEF TimerType
<1>4. ASSUME NEW n \in Ticks, SleepFor(t, n) PROVE TInv'
  <2>1. /\ pc' = [pc EXCEPT ![t] = "Period"] /\ SetMode(t, "Disabled")
        /\ NofTicks' = [NofTicks EXCEPT ![t] = n] /\ owed' = owed
    BY <1>4 DEF SleepFor, Goes
  <2>2. /\ TimerType'
        /\ mode' = [mode EXCEPT ![t] = "Disabled"]
        /\ Counter' = [Counter EXCEPT ![t] = 0]
        /\ TimerPeriod' = TimerPeriod
        /\ \A s \in Timer \ {t} : Left'[s] = Left[s]
    BY <1>0, <2>1, SetModeFacts DEF Mode
  <2>3. SleepType' /\ SleepAt(t)'
    BY <1>0, <2>1, <2>2 DEF SleepType, SleepAt, TimerType
  <2> QED BY <1>0, <1>1, <2>1, <2>2, <2>3 DEF TimerType, SleepType
<1>5. CASE SleepPeriod(t)
  <2>0. PICK p : p = IF NofTicks[t] = 0 THEN 0 ELSE NofTicks[t] - 1
    OBVIOUS
  <2>1. /\ pc[t] = "Period" /\ pc' = [pc EXCEPT ![t] = "Arm"]
        /\ TimerPeriod' = [TimerPeriod EXCEPT ![t] = p]
        /\ UNCHANGED <<mode, Counter, TimerCounter, GlobalTimerCounter, NofTicks, owed>>
    BY <1>5, <2>0 DEF SleepPeriod, Goes, SetPeriod
  <2>2. p \in Ticks
    BY <1>0, <2>0 DEF SleepType, Ticks
  <2>3. TimerType' /\ SleepType' /\ Left' = Left
    BY <1>0, <2>1, <2>2, LeftKept DEF TimerType, SleepType
  <2>4. SleepAt(t)'
    <3>1. mode[t] = "Disabled" /\ Counter[t] = 0
      BY <1>0, <2>1 DEF SleepInv, SleepAt
    <3> QED BY <1>0, <2>0, <2>1, <3>1 DEF SleepAt, TimerType, SleepType
  <2> QED BY <1>0, <1>1, <2>1, <2>3, <2>4 DEF TimerType, SleepType
<1>6. CASE SleepArm(t)
  <2>1. /\ pc[t] = "Arm" /\ SetMode(t, "Active")
        /\ pc' = [pc EXCEPT ![t] = IF NofTicks[t] = 0 THEN "Kick" ELSE "Waiting"]
        /\ owed' = [owed EXCEPT ![t] = NofTicks[t]] /\ NofTicks' = NofTicks
    BY <1>6 DEF SleepArm, Goes
  <2>2. /\ TimerType'
        /\ mode' = [mode EXCEPT ![t] = "Active"]
        /\ Counter' = Counter
        /\ TimerPeriod' = TimerPeriod
        /\ Left'[t] = IF mode[t] = "Disabled" THEN TimerPeriod[t] ELSE Left[t]
        /\ \A s \in Timer \ {t} : Left'[s] = Left[s]
    <3>1. [Counter EXCEPT ![t] = Counter[t]] = Counter
      BY <1>0 DEF TimerType
    <3> QED BY <1>0, <2>1, <3>1, SetModeFacts DEF Mode
  <2>3. SleepType'
    BY <1>0, <2>1 DEF SleepType
  <2>4. SleepAt(t)'
    <3>1. /\ mode[t] = "Disabled" /\ Counter[t] = 0
          /\ TimerPeriod[t] = IF NofTicks[t] = 0 THEN 0 ELSE NofTicks[t] - 1
      BY <1>0, <2>1 DEF SleepInv, SleepAt
    <3> QED BY <1>0, <2>1, <2>2, <3>1 DEF SleepAt, TimerType, SleepType
  <2> QED BY <1>0, <1>1, <2>1, <2>2, <2>3, <2>4 DEF TimerType, SleepType
<1>7. CASE SleepKick(t)
  <2>1. /\ pc[t] = "Kick" /\ pc' = [pc EXCEPT ![t] = "Waiting"]
        /\ Counter' = [Counter EXCEPT ![t] = OneMore(@)]
        /\ UNCHANGED <<mode, TimerPeriod, TimerCounter, GlobalTimerCounter, NofTicks, owed>>
    BY <1>7 DEF SleepKick, Goes
  <2>2. OneMore(Counter[t]) \in 0..MaxCounter /\ OneMore(Counter[t]) > 0
    BY <1>0 DEF OneMore, TimerType
  <2>3. TimerType' /\ SleepType' /\ Left' = Left
    BY <1>0, <2>1, <2>2, LeftKept DEF TimerType, SleepType
  <2>4. SleepAt(t)'
    <3>1. mode[t] # "Disabled" /\ owed[t] = 0
      BY <1>0, <2>1 DEF SleepInv, SleepAt
    <3> QED BY <1>0, <2>1, <2>2, <3>1 DEF SleepAt, TimerType, SleepType
  <2> QED BY <1>0, <1>1, <2>1, <2>3, <2>4 DEF TimerType, SleepType
<1>8. CASE Wake(t)
  <2>1. /\ pc' = [pc EXCEPT ![t] = "Woken"] /\ Counter' = [Counter EXCEPT ![t] = 0]
        /\ UNCHANGED <<mode, TimerPeriod, TimerCounter, GlobalTimerCounter, NofTicks, owed>>
    BY <1>8 DEF Wake, Goes
  <2>2. TimerType' /\ SleepType' /\ Left' = Left
    BY <1>0, <2>1, LeftKept DEF TimerType, SleepType
  <2>3. SleepAt(t)'
    BY <1>0, <2>1 DEF SleepAt, SleepType
  <2> QED BY <1>0, <1>1, <2>1, <2>2, <2>3 DEF TimerType, SleepType
<1>9. CASE SleepEnd(t)
  <2>1. /\ pc' = [pc EXCEPT ![t] = "Ready"] /\ SetMode(t, "Disabled")
        /\ NofTicks' = [NofTicks EXCEPT ![t] = 0] /\ owed' = [owed EXCEPT ![t] = 0]
    BY <1>9 DEF SleepEnd, Goes
  <2>2. /\ TimerType'
        /\ mode' = [mode EXCEPT ![t] = "Disabled"]
        /\ Counter' = [Counter EXCEPT ![t] = 0]
        /\ TimerPeriod' = TimerPeriod
        /\ \A s \in Timer \ {t} : Left'[s] = Left[s]
    BY <1>0, <2>1, SetModeFacts DEF Mode
  <2>3. SleepType' /\ SleepAt(t)'
    BY <1>0, <1>a, <2>1, <2>2 DEF SleepType, SleepAt
  <2> QED BY <1>0, <1>1, <2>1, <2>2, <2>3 DEF TimerType, SleepType
<1> QED BY <1>2, <1>3, <1>4, <1>5, <1>6, <1>7, <1>8, <1>9 DEF Sleeper

\* Every step keeps the invariant.
LEMMA NextInv == TInv /\ [Next]_vars => TInv'
<1>1. ASSUME TInv, UNCHANGED vars PROVE TInv'
  <2>1. Left' = Left
    BY <1>1 DEF vars, Left
  <2> QED BY <1>1, <2>1 DEF vars, TInv, TimerType, SleepType, SleepInv, SleepAt
<1> QED BY <1>1, TickInv, TaskInv DEF Next

\* The invariant holds in every reachable state.
THEOREM Invariance == Spec => []TInv
  BY InitInv, NextInv, PTL DEF Spec

\* A task in SleepFor(n) is due after exactly n ticks of the clock: for every
\* width of the tick counters, every n they can hold, every set of timers in
\* whatever modes they were constructed, and every interleaving of the
\* interrupt handler.
THEOREM ExactSleep == Spec => []SleepsExactly
<1>1. TInv => SleepsExactly
  BY DEF TInv, SleepInv, SleepAt, SleepsExactly
<1> QED BY <1>1, Invariance, PTL

--------------------------------------------------------------------------------
(* Every step of the timers is a step of Countdown.                           *)

\* SetMode implements Countdown's.
LEMMA SetModeDown ==
  ASSUME TimerType, NEW t \in Timer, NEW m \in Mode, SetMode(t, m)
  PROVE  Down!Next
<1>1. /\ mode' = [mode EXCEPT ![t] = m]
      /\ Counter' = [Counter EXCEPT ![t] = IF m = "Disabled" THEN 0 ELSE @]
      /\ TimerPeriod' = TimerPeriod
      /\ Left'[t] = IF m = "Disabled" THEN 0
                    ELSE IF mode[t] = "Disabled" THEN TimerPeriod[t] ELSE Left[t]
      /\ \A s \in Timer \ {t} : Left'[s] = Left[s]
  BY SetModeFacts
<1>2. Left' = [Left EXCEPT ![t] = IF m = "Disabled" THEN 0
                                  ELSE IF mode[t] = "Disabled" THEN TimerPeriod[t] ELSE @]
  BY <1>1 DEF Left
<1>3. Down!SetMode(t, m)
  BY <1>1, <1>2 DEF Down!SetMode
<1>4. m \in Down!Mode
  BY DEF Mode, Down!Mode
<1> QED BY <1>3, <1>4 DEF Down!Next

\* SetPeriod implements Countdown's.
LEMMA SetPeriodDown ==
  ASSUME NEW t \in Timer, NEW p \in Ticks, SetPeriod(t, p)
  PROVE  Down!Next
<1>1. Left' = Left
  BY LeftKept DEF SetPeriod
<1>2. Down!SetPeriod(t, p)
  BY <1>1 DEF SetPeriod, Down!SetPeriod
<1> QED BY <1>2 DEF Down!Next, Ticks

\* The interrupt handler implements the tick of the clock.
LEMMA TickDown == ASSUME TimerType, TimerISR PROVE Down!Next
<1>1. \A t \in Timer :
        /\ Expired(t) <=> Down!Fires(t)
        /\ Left'[t] = IF mode[t] = "Disabled" THEN 0
                      ELSE IF Down!Fires(t) THEN TimerPeriod[t] ELSE Left[t] - 1
  BY TickFacts DEF Down!Fires
<1>2. Left' = [t \in Timer |-> IF mode[t] = "Disabled" THEN 0
                               ELSE IF Down!Fires(t) THEN TimerPeriod[t] ELSE Left[t] - 1]
  <2>1. Left' = [t \in Timer |-> Left'[t]]
    BY DEF Left
  <2> QED BY <1>1, <2>1, Zenon
<1>3. Counter' = [t \in Timer |-> IF Down!Fires(t) THEN Down!OneMore(Counter[t]) ELSE Counter[t]]
  BY <1>1 DEF TimerISR, OneMore, Down!OneMore
<1>4. UNCHANGED <<mode, TimerPeriod>>
  BY DEF TimerISR
<1>5. Down!Tick
  BY <1>2, <1>3, <1>4 DEF Down!Tick
<1> QED BY <1>5 DEF Down!Next

\* The events that are delivered or sent, implement Countdown's.
LEMMA EventDown ==
  ASSUME NEW t \in Timer, Deliver(t) \/ Wake(t) \/ SleepKick(t)
  PROVE  Down!Next
<1>1. Left' = Left
  BY LeftKept DEF Deliver, Wake, SleepKick
<1>2. CASE Deliver(t) \/ Wake(t)
  <2>1. Down!Deliver(t)
    BY <1>1, <1>2 DEF Deliver, Wake, Down!Deliver
  <2> QED BY <2>1 DEF Down!Next
<1>3. CASE SleepKick(t)
  <2>1. Down!Send(t)
    BY <1>1, <1>3 DEF SleepKick, Down!Send, OneMore, Down!OneMore
  <2> QED BY <2>1 DEF Down!Next
<1> QED BY <1>2, <1>3

\* The initial states implement Countdown's.
LEMMA InitDown == Init => Down!Init
<1> SUFFICES ASSUME Init PROVE Down!Init
  OBVIOUS
<1>1. 0 \in Ticks
  BY TimerAssumption DEF Ticks
<1>2. (0 - 0) % TickMod = 0
  BY <1>1, LeftZero
<1>3. Left = [t \in Timer |-> 0]
  BY <1>2 DEF Init, Left
<1> QED BY <1>3, TimerAssumption DEF Init, Down!Init, Mode, Down!Mode

\* Every step implements one of Countdown's, or none.
LEMMA NextDown == TInv /\ [Next]_vars => [Down!Next]_(Down!vars)
<1>1. ASSUME TInv, UNCHANGED vars PROVE UNCHANGED Down!vars
  BY <1>1 DEF vars, Down!vars, Left
<1>2. ASSUME TInv, TimerISR PROVE Down!Next
  BY <1>2, TickDown DEF TInv
<1>3. ASSUME TInv, NEW t \in Timer,
             UseTimer(t) \/ Deliver(t) \/ (\E n \in Ticks : SleepFor(t, n)) \/ Sleeper(t)
      PROVE  Down!Next
  <2>1. CASE Deliver(t) \/ Wake(t) \/ SleepKick(t)
    BY <2>1, EventDown
  <2>2. CASE \E m \in Mode : SetMode(t, m)
    BY <1>3, <2>2, SetModeDown DEF TInv
  <2>3. CASE \E p \in Ticks : SetPeriod(t, p)
    BY <2>3, SetPeriodDown
  <2>4. ASSUME SleepPeriod(t) PROVE \E p \in Ticks : SetPeriod(t, p)
    <3>1. PICK p : p = IF NofTicks[t] = 0 THEN 0 ELSE NofTicks[t] - 1
      OBVIOUS
    <3>2. p \in Ticks
      BY <1>3, <3>1, TimerAssumption DEF TInv, SleepType, Ticks
    <3> QED BY <2>4, <3>1, <3>2 DEF SleepPeriod
  <2>5. ASSUME SleepArm(t) \/ SleepEnd(t) \/ (\E n \in Ticks : SleepFor(t, n))
        PROVE  \E m \in Mode : SetMode(t, m)
    BY <2>5 DEF SleepArm, SleepEnd, SleepFor, Mode
  <2>6. CASE UseTimer(t)
    BY <2>2, <2>3, <2>6 DEF UseTimer
  <2> QED BY <1>3, <2>1, <2>2, <2>3, <2>4, <2>5, <2>6 DEF Sleeper
<1> QED BY <1>1, <1>2, <1>3 DEF Next

\* Comparing wrapping counters for equality is as good as counting down: the
\* timers implement Countdown, whatever the width of their counters.
THEOREM CountsDown == Spec => ImplementsCountdown
  BY InitDown, NextDown, Invariance, PTL DEF Spec, ImplementsCountdown, Down!Spec

--------------------------------------------------------------------------------
(* The hardware interrupt.                                                    *)

\* The timers that need the clock.
On == {t \in Timer : mode[t] # "Disabled"}

\* No more timers are counted than need the clock.
CountInv ==
  /\ INTCTRLA \in BOOLEAN
  /\ NofNotDisabled \in 0..Cardinality(On)

\* When all timers are constructed disabled, exactly these are counted.
ClockInv ==
  /\ NofNotDisabled = Cardinality(On)
  /\ INTCTRLA <=> NofNotDisabled # 0

\* The number of timers that need the clock is a number.
LEMMA OnFinite == IsFiniteSet(On) /\ Cardinality(On) \in Nat
                  /\ Cardinality(Timer) \in Nat /\ Cardinality(On) <= Cardinality(Timer)
                  /\ (Cardinality(On) = 0 <=> On = {})
<1>1. On \subseteq Timer /\ IsFiniteSet(Timer)
  BY TimerAssumption DEF On
<1> QED BY <1>1, FS_Subset, FS_CardinalityType, FS_EmptySet

\* What SetMode does to their number.
LEMMA OnAfter ==
  ASSUME TimerType, NEW t \in Timer, NEW m \in Mode, SetMode(t, m)
  PROVE  Cardinality(On') = Cardinality(On)
                            + IF mode[t] = "Disabled"
                              THEN IF m # "Disabled" THEN 1 ELSE 0
                              ELSE IF m = "Disabled" THEN -1 ELSE 0
<1>1. mode' = [mode EXCEPT ![t] = m] /\ mode \in [Timer -> Mode]
  BY DEF SetMode, TimerType
<1>2. t \in On <=> mode[t] # "Disabled"
  BY DEF On
<1>3. CASE mode[t] = "Disabled" /\ m # "Disabled"
  <2>1. On' = On \cup {t} /\ t \notin On
    BY <1>1, <1>2, <1>3 DEF On
  <2> QED BY <1>3, <2>1, OnFinite, FS_AddElement
<1>4. CASE mode[t] # "Disabled" /\ m = "Disabled"
  <2>1. On' = On \ {t} /\ t \in On
    BY <1>1, <1>2, <1>4 DEF On
  <2> QED BY <1>4, <2>1, OnFinite, FS_RemoveElement
<1>5. CASE mode[t] = "Disabled" <=> m = "Disabled"
  <2>1. On' = On
    BY <1>1, <1>2, <1>5 DEF On
  <2> QED BY <1>5, <2>1, OnFinite
<1> QED BY <1>3, <1>4, <1>5

\* SetMode keeps count.
LEMMA SetModeCounts ==
  ASSUME TimerType, CountInv, NEW t \in Timer, NEW m \in Mode, SetMode(t, m)
  PROVE  CountInv' /\ (ClockInv => ClockInv')
<1>1. PICK n, c : n = NofNotDisabled /\ c = Cardinality(On)
  OBVIOUS
<1>2. /\ NofNotDisabled' = NofAfter(t, m)
      /\ INTCTRLA' = ((INTCTRLA \/ (mode[t] = "Disabled" /\ m # "Disabled"))
                      /\ NofAfter(t, m) # 0)
  BY DEF SetMode
<1>3. NofAfter(t, m) = IF mode[t] = "Disabled"
                       THEN IF m # "Disabled" THEN n + 1 ELSE n
                       ELSE IF m = "Disabled" /\ n > 0 THEN n - 1 ELSE n
  BY <1>1 DEF NofAfter
<1>4. Cardinality(On') = c + IF mode[t] = "Disabled"
                             THEN IF m # "Disabled" THEN 1 ELSE 0
                             ELSE IF m = "Disabled" THEN -1 ELSE 0
  BY <1>1, OnAfter
<1>5. c \in Nat /\ n \in 0..c /\ INTCTRLA \in BOOLEAN
      /\ (mode[t] # "Disabled" => c # 0)
  BY <1>1, OnFinite DEF CountInv, On
<1>6. NofNotDisabled' \in 0..Cardinality(On')
  BY <1>2, <1>3, <1>4, <1>5
<1>7. INTCTRLA' \in BOOLEAN
  BY <1>2
<1>8. ASSUME ClockInv PROVE ClockInv'
  <2>1. n = c /\ (INTCTRLA <=> n # 0)
    BY <1>1, <1>8 DEF ClockInv
  <2>2. NofNotDisabled' = Cardinality(On')
    BY <1>2, <1>3, <1>4, <1>5, <2>1
  <2>3. INTCTRLA' <=> NofNotDisabled' # 0
    BY <1>2, <1>3, <1>5, <2>1
  <2> QED BY <2>2, <2>3 DEF ClockInv
<1> QED BY <1>6, <1>7, <1>8 DEF CountInv

\* Nothing is counted, and nothing needs the clock if all are disabled.
LEMMA InitCount ==
  ASSUME Init
  PROVE  CountInv /\ ((\A t \in Timer : InitMode[t] = "Disabled") => ClockInv)
<1>1. NofNotDisabled = 0 /\ INTCTRLA = FALSE /\ mode = InitMode
  BY DEF Init
<1>2. ASSUME \A t \in Timer : InitMode[t] = "Disabled" PROVE On = {}
  BY <1>1, <1>2 DEF On
<1>3. CountInv
  <2>1. PICK c \in Nat : c = Cardinality(On)
    BY OnFinite
  <2>2. 0 \in 0..c
    OBVIOUS
  <2> QED BY <1>1, <2>1, <2>2 DEF CountInv
<1>4. ASSUME \A t \in Timer : InitMode[t] = "Disabled" PROVE ClockInv
  <2>1. Cardinality(On) = 0
    BY <1>2, <1>4, OnFinite
  <2> QED BY <1>1, <2>1 DEF ClockInv
<1> QED BY <1>3, <1>4

\* Every step keeps count.
LEMMA NextCount == TInv /\ CountInv /\ [Next]_vars => CountInv' /\ (ClockInv => ClockInv')
<1> SUFFICES ASSUME TInv, CountInv, [Next]_vars
             PROVE  CountInv' /\ (ClockInv => ClockInv')
  OBVIOUS
<1>1. ASSUME UNCHANGED <<mode, NofNotDisabled, INTCTRLA>>
      PROVE  CountInv' /\ (ClockInv => ClockInv')
  <2>1. On' = On
    BY <1>1 DEF On
  <2> QED BY <1>1, <2>1 DEF CountInv, ClockInv
<1>2. ASSUME NEW t \in Timer,
             UseTimer(t) \/ Deliver(t) \/ (\E n \in Ticks : SleepFor(t, n)) \/ Sleeper(t)
      PROVE  \/ \E m \in Mode : SetMode(t, m)
             \/ UNCHANGED <<mode, NofNotDisabled, INTCTRLA>>
  <2>1. CASE UseTimer(t) \/ Deliver(t) \/ Wake(t) \/ SleepKick(t) \/ SleepPeriod(t)
    BY <2>1 DEF UseTimer, Deliver, Wake, SleepKick, SleepPeriod, SetPeriod
  <2>2. CASE SleepArm(t) \/ SleepEnd(t) \/ (\E n \in Ticks : SleepFor(t, n))
    BY <2>2 DEF SleepArm, SleepEnd, SleepFor, Mode
  <2> QED BY <1>2, <2>1, <2>2 DEF Sleeper
<1>3. ASSUME TimerISR \/ UNCHANGED vars PROVE UNCHANGED <<mode, NofNotDisabled, INTCTRLA>>
  BY <1>3 DEF TimerISR, vars
<1>4. ASSUME NEW t \in Timer, NEW m \in Mode, SetMode(t, m)
      PROVE  CountInv' /\ (ClockInv => ClockInv')
  BY <1>4, SetModeCounts DEF TInv
<1> QED BY <1>1, <1>2, <1>3, <1>4 DEF Next

\* Every variable has its type; no more timers are counted than there are.
THEOREM TypeCorrect == Spec => []TypeOK
<1>1. TInv /\ CountInv => TypeOK
  BY OnFinite DEF TInv, TimerType, SleepType, CountInv, TypeOK
<1>2. Spec => []CountInv
  BY InitCount, NextCount, Invariance, PTL DEF Spec
<1> QED BY <1>1, <1>2, Invariance, PTL

\* If all timers are constructed disabled, the hardware interrupt is on exactly
\* while one of them needs it: SetMode's count of them is right however they are
\* switched, by whichever tasks.
THEOREM ClockIsRight ==
  (\A t \in Timer : InitMode[t] = "Disabled") /\ Spec => []ClockRunsWhenNeeded
<1>1. ClockInv => ClockRunsWhenNeeded
  BY OnFinite DEF ClockInv, ClockRunsWhenNeeded, On
<1> SUFFICES ASSUME \A t \in Timer : InitMode[t] = "Disabled"
             PROVE  Spec => []ClockRunsWhenNeeded
  OBVIOUS
<1>2. Init => CountInv /\ ClockInv
  BY InitCount
<1>3. Spec => [](CountInv /\ ClockInv)
  BY <1>2, NextCount, Invariance, PTL DEF Spec
<1> QED BY <1>1, <1>3, PTL
================================================================================
