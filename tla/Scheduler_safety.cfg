SPECIFICATION Spec
CONSTANTS
  Coro = {main, a, b}
  Main = main
  initialisercoro = init
  Event = {e}
  NULL = NULL
  INT8_MAX = 127
  MaxTime = 2
  SemBound = 1
  ExitWaits = 1
  Lax = {}
SYMMETRY Alike
INVARIANTS
  TypeOK
  NothingLost
  NoLostWakeup
  SleeperHasAlarm
  NoStrayAlarm
  TimerSorted
  RunningIsRunnable
  TargetsLive
  SignalledHasNoWaiter
PROPERTIES
  NeverPreempted
  KeepsPromises
CHECK_DEADLOCK FALSE
