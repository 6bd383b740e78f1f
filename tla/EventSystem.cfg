\* Two priorities in use, one static event and one that comes and goes, under
\* sends that never stop.
CONSTANTS
  IndexMod = 2
  Null = Null
  e1 = e1
  e2 = e2
  Event = {e1, e2}
  Dynamic = {e2}
  InUse = {"High", "Low"}
  NoFsm = {}
  Size <- Sizes1
  MaxSucc <- Limits1
  MaxCounter = 1
SPECIFICATION FairSpec
INVARIANTS
  TypeOK
  SlotsMatchCells
  QueuedEventsExist
  NoLostWakeup
PROPERTIES
  ImplementsMailbox
  NoStarvation
  FailureStopsLoop
