SPECIFICATION LiveSpec
CONSTANTS
  Coro = {main, a, b}
  Main = main
  initialisercoro = init
  Event = {}
  NULL = NULL
  INT8_MAX = 127
  MaxTime = 0
  SemBound = 0
  ExitWaits = 0
  Lax = {"restart"}
PROPERTIES
  ExitWakes
CHECK_DEADLOCK FALSE
