SPECIFICATION Spec
CONSTANTS
  Coro = {main, a}
  Main = main
  initialisercoro = init
  Event = {}
  NULL = NULL
  INT8_MAX = 127
  MaxTime = 1
  SemBound = 0
  ExitWaits = 0
  Lax = {}
PROPERTIES
  FiredIsHead
CHECK_DEADLOCK FALSE
