\* A driver that is written to before Config stops for good.
CHECK_DEADLOCK FALSE
SPECIFICATION DriverSpec
CONSTANTS
  Data = {a}
  SIZE = 2
  IndexMod = 4
  PutSizes = {1, 2}
  GetSizes = {1}
  Kinds = {"Transmitter"}
  Fper = 2000000
  Rates = {9600}
INVARIANT NothingStranded
