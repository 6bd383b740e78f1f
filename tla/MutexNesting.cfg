\* Two tasks; the first passes two events of its own to the mutex.
CONSTANTS
  IndexMod = 4
  Null = Null
  t1 = t1
  t2 = t2
  t3 = t3
  a1 = a1
  a2 = a2
  b1 = b1
  c1 = c1
  Task = {t1, t2}
  Event = {a1, a2, b1}
  GetFsm <- TwoForOne
  Stray = {}
  Polling = {}
  SIZE = 2
  MaxDepth = 2
SPECIFICATION Spec
INVARIANTS
  OwnerReenters
