SPECIFICATION Spec
CONSTANTS
  Client = {a, b}
  i2cdriverblock = driver
  newcmdswaitable = newcmds
  NULL = NULL
  INT8_MAX = 127
  RINGBUFFER_SIZE = 2
  SemBound = 1
  Lax = {"rush", "dawdle", "forget"}
SYMMETRY Alike
INVARIANTS
  TypeOK
  SuccessIsTrue
  TransferEnds
  HardwareQuiet
CHECK_DEADLOCK FALSE
