SPECIFICATION Spec
CONSTANTS
  Entry = {a, b, c}
  List = {ready2run, waiting4timer}
  Key = {1, 2}
  NULL = NULL
  Deadbeef = Deadbeef
  Builds = {"debug", "release"}
INVARIANTS
  TypeOK
  Represents
  ScanInOrder
PROPERTIES
  ScansEnd
