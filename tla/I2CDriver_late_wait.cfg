SPECIFICATION Spec
CONSTANTS
  Client = {a, b}
  i2cdriverblock = driver
  newcmdswaitable = newcmds
  NULL = NULL
  INT8_MAX = 127
  RINGBUFFER_SIZE = 3
  SemBound = 1
  Lax = {"dawdle"}
INVARIANTS
  WaitMeansDone
