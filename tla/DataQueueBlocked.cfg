SPECIFICATION Spec
CONSTANTS
  Data = {a}
  SIZE = 4
  IndexMod = 8
  PutSizes = {1, 4}
  GetSizes = {6}
INVARIANT NotBothBlocked
