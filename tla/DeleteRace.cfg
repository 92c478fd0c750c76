SPECIFICATION Spec
CONSTANTS
  Names = {c1}
  MaxId = 1
  MaxCalls = 2
  CliRemoves = FALSE
  ContainersExit = FALSE
  MainStops = FALSE
PROPERTY DeleteOfMissingGets400
CHECK_DEADLOCK FALSE
