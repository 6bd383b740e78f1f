SPECIFICATION DriverSpec
CONSTANTS
  Data = {a}
  SIZE = 2
  IndexMod = 4
  PutSizes = {1}
  GetSizes = {1, 2}
  Kinds = {"Receiver"}
  Fper = 2000000
  Rates = {9600}
INVARIANT ReaderIsNotified
