SPECIFICATION SliceSpec
CONSTANTS
  Nets = {"service", "topology", "first", "second", "third", "dynamic", "hub", "switch", "sdn_switch"}
  MaxPackets = 3
  FewPackets = 2
  MaxExpired = 1
  MaxCycles = 1
INVARIANTS
  SlicesAreApart
  RulesAgree
  TakenOnce
  PairsAreApart
CHECK_DEADLOCK FALSE
