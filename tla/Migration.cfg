SPECIFICATION FairSpec
CONSTANTS
  MaxRequests = 4
  Kills = 3
INVARIANTS
  NeverOvercounts
  FailuresAreExplained
PROPERTIES
  StateIsFresh
  ScriptEnds
CHECK_DEADLOCK FALSE
