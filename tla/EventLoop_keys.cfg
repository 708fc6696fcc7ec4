SPECIFICATION FairSpec
CONSTANTS
  r1 = r1
  r2 = r2
  Requests = {r1}
  Prio <- MCPrio1
  EventKinds = {"key"}
  Keywords = {"GET", "GETEVENT", "KEY", "TESTEVENT", "KEYA", "KEYC", "IOWAIT", "IOYIELD", "CHECK", "CTRL", "EVAL"}
  MaxEvents = 3
  MaxPlain = 1
  MaxStray = 0
  TimerFires = FALSE
  YieldLimit = 2
  CheckLimit = 1
  ProbeLimit = 2
  MaxNest = 2
  FepMoves = {"pass", "replace"}
  AppendOutcomes = {TRUE}
INVARIANTS NoLostWakeup NoKeyLost
PROPERTIES PollReturns ImplementsTypeAhead
CHECK_DEADLOCK FALSE
