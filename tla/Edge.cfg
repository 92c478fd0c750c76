SPECIFICATION FairSpec
CONSTANTS
  Servers = {"server1", "server3"}
  Work = {0, 24}
  MaxProbes = 2
  Limit = 1
  MaxRuns = 2
  NoServer = NoServer
INVARIANTS
  FastestWins
  LastWordCounts
PROPERTIES
  Settles
CHECK_DEADLOCK FALSE
