SPECIFICATION FairSpec
CONSTANTS
  Enabled = {2, 3}
  Byte = {a, b}
  NoByte = NoByte
  MaxSize = 3
INVARIANTS
  TypeOK
  NothingLeft
PROPERTIES
  ImplementsSpiBus
  CallsReturn
