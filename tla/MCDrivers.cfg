SPECIFICATION MCSpec
CONSTANTS
  BufferLength = 2
  MaxRoom = 2
  MaxAnswer = 3
  MaxRounds = 4
  ConnectRounds = 2
  NtpRounds = 1
  DnsRounds = 2
  Client = {a, b}
  Painter = a
  wifiblock = wifiblock
  sk6812block = sk6812block
  newcmdswaitable = newcmds
  NULL = NULL
  RINGBUFFER_SIZE = 3
  Regions = 2
  Guarded = {sdk}
  Turns = 1
  INT8_MAX = 4
INVARIANTS
  TypeOK
  SuccessMeansSent
  NothingLeft
  DevicesTypeOK
  NothingUnseen
  CommandDone
  UpdateShown
  GuardsOfTheLive
PROPERTIES
  CommandsEnd
  ServedUnlessOff
  UpdatesEnd
CHECK_DEADLOCK FALSE
