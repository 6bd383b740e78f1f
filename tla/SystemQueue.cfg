\* A ring of four cells; eight index values, so the indices wrap as 256 do.
CONSTANTS
  IndexMod = 8
  Null = Null
  Data = {a, b}
  SIZE = 4
SPECIFICATION Spec
INVARIANTS
  TypeOK
  Handshake
PROPERTIES
  ImplementsFifo
