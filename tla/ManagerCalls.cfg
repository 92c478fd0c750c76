SPECIFICATION FairSpec
CONSTANTS
  Names = {c1, c2}
  MaxId = 2
  MaxCalls = 2
  CliRemoves = FALSE
  ContainersExit = TRUE
  MainStops = FALSE
PROPERTIES
  CallsReturn
  ImplementsRegistry
CHECK_DEADLOCK FALSE
