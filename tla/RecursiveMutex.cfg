\* Three tasks with one event each: one that waits as it should, one that also
\* polls, and one woken by other events of its own while it is blocked, so that
\* a queue with room for the two that can wait overflows.
CONSTANTS
  IndexMod = 4
  Null = Null
  t1 = t1
  t2 = t2
  t3 = t3
  a1 = a1
  a2 = a2
  b1 = b1
  c1 = c1
  Task = {t1, t2, t3}
  Event = {a1, b1, c1}
  GetFsm <- OneEach
  Stray = {t3}
  Polling = {t2}
  SIZE = 2
  MaxDepth = 2
SPECIFICATION FairSpec
INVARIANTS
  TypeOK
  MutualExclusion
  OwnerReenters
  NobodyForgotten
PROPERTIES
  ImplementsFairLock
  EveryRequestGranted
