SPECIFICATION Spec
CONSTANTS
  Names = {c1, c2}
  MaxId = 3
  MaxCalls = 2
  CliRemoves = TRUE
  ContainersExit = TRUE
  MainStops = TRUE
INVARIANTS
  CreationOrder
  MapIsOfQueue
  DaemonAgrees
  ReadersAgree
  StopSkipsNone
PROPERTIES
  RemovedNameIsFree
  RegisteredOnce
CHECK_DEADLOCK FALSE
