SPECIFICATION Spec
CONSTANTS
  Switches = {s1, s2, s3, s4}
  Links = {{s1, s2}, {s2, s3}, {s1, s4}, {s4, s3}, {s2, s4}}
  Src = s1
  Dst = s3
  NoRule = NoRule
  Host = Host
  MaxActions = 2
  MaxResets = 1
  MaxWire = 4
  s1 = s1
  s2 = s2
  s3 = s3
  s4 = s4
INVARIANTS
  FollowsChosen
  NeverInterrupted
PROPERTY Settles
CHECK_DEADLOCK FALSE
