SPECIFICATION Spec
CONSTANTS
  r1 = r1
  r2 = r2
  Requests = {}
  Prio <- MCPrio0
  EventKinds = {"key"}
  Keywords = {"GET", "KEY", "EVAL"}
  MaxEvents = 3
  MaxPlain = 1
  MaxStray = 0
  TimerFires = FALSE
  YieldLimit = 2
  CheckLimit = 1
  ProbeLimit = 2
  MaxNest = 2
  FepMoves = {"pass", "replace"}
  AppendOutcomes = {TRUE}
PROPERTIES OnlyLateKeysSoakedUp
CHECK_DEADLOCK FALSE
