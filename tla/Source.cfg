SPECIFICATION Spec
CONSTANTS
  MaxSeq = 12
  Actions = {0, 1, 2, 3, 4, 5, 6, 7, 8, 9, 10}
  MaxLost = 2
INVARIANTS
  InFlightIsExact
  WindowsAreExact
  StallsOnlyOnLostWindow
CHECK_DEADLOCK FALSE
