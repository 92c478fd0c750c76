SPECIFICATION Spec
CONSTANTS
  MaxShells = 3
  WaitExited = TRUE
INVARIANTS
  
  
  ShellsAreEnded
PROPERTIES
  CallsReturn
CHECK_DEADLOCK FALSE
