\* One of two timers is constructed in the Active mode.
CONSTANTS
  x = x
  y = y
  Timer = {x, y}
  InitMode <- OneActive
  TickMod = 3
  MaxCounter = 2
SPECIFICATION Spec
PROPERTIES
  StopsWithTheLast
