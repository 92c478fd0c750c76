SPECIFICATION ScriptSpec
CONSTANTS
  Scripts = {"multihop", "adaptive", "echo", "dind", "measurement", "manage", "second", "drones",
             "star", "drone", "filter1", "filter2", "filter3", "tunnel1", "tunnel2",
             "detection", "dpdk", "dockerhosts"}
  MaxRuns = 2
  MaxFaults = 1
  MaxEnds = 1
INVARIANTS
  OnlyOrphansLeft
  RunsThrough
  CleanupIsExact
CHECK_DEADLOCK FALSE
