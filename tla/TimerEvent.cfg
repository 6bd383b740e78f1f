\* Two timers; tick counters of three values, so that every period wraps them.
CONSTANTS
  x = x
  y = y
  Timer = {x, y}
  InitMode <- AllDisabled
  TickMod = 3
  MaxCounter = 2
SPECIFICATION FairSpec
INVARIANTS
  TypeOK
  ClockRunsWhenNeeded
  SleepsExactly
PROPERTIES
  ImplementsCountdown
  SleepReturns
