SPECIFICATION LiveSpec
CONSTANTS
  Coro = {main, a}
  Main = main
  initialisercoro = init
  Event = {e}
  NULL = NULL
  INT8_MAX = 127
  MaxTime = 1
  SemBound = 1
  ExitWaits = 1
  Lax = {}
PROPERTIES
  ReadyRuns
  TimedWakes
  ArmedWakes
  SignalledWakes
  ExitWakes
CHECK_DEADLOCK FALSE
