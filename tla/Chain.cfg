SPECIFICATION ChainSpec
CONSTANTS
  Symbols = 2
  MaxGeneration = 2
  InitRedundancy = 1
  OamValues = {0}
  MaxPackets = 8
  MaxRecoded = 6
  MaxLostFrames = 2
  MaxQueued = 0
INVARIANTS
  PacketsStayPure
  LosslessIsComplete
CHECK_DEADLOCK FALSE
