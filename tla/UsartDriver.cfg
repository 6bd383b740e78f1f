\* A driver that is written to before Config has given it an interrupt level
\* stops for good: its first byte stays in the data register, and Config refuses.
CHECK_DEADLOCK FALSE
SPECIFICATION FairSpec
CONSTANTS
  Data = {a, b}
  SIZE = 2
  IndexMod = 4
  PutSizes = {1, 2}
  GetSizes = {1, 2}
  Kinds = {"Tasks", "Receiver", "Transmitter"}
  Fper = 2000000
  Rates = {1200, 2400, 4800, 9600, 14400, 19200, 28800, 38400, 57600, 76800, 115200, 125000, 230400}
INVARIANTS
  TypeOK
  WaitersAreNotified
  TransmitterRuns
  ClosedIsSilent
  RatesAreMet
PROPERTIES
  ImplementsFifo
  NoByteOverwritten
  CallsReturn
