\* Two tasks.  The signal of B is sent by A, by main() and by B itself.
CONSTANTS
  A = A
  B = B
  sb = sb
  Task = {A, B}
  Main = Main
  Signal = {sb}
  GetFsm <- OneSignal
  Sends <- BothSend
  AnEvent = AnEvent
  Null = Null
  MaxNest = 2
  MaxCounter = 2
SPECIFICATION FairSpec
INVARIANTS
  TypeOK
  RightStack
  SectionsHonoured
  InterruptsBack
  CountersIndependent
PROPERTIES
  ImplementsCallStack
  ReturnsToMain
