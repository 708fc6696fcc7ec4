SPECIFICATION FairSpec
CONSTANTS
  r1 = r1
  r2 = r2
  Requests = {}
  Prio <- MCPrio0
  EventKinds = {"key", "point", "msg"}
  Keywords = {"GET", "GETEVENT", "PAUSE", "KEY", "TESTEVENT", "CHECK", "DIALOG", "EVAL", "CTRL"}
  MaxEvents = 2
  MaxPlain = 1
  MaxStray = 1
  TimerFires = TRUE
  YieldLimit = 2
  CheckLimit = 1
  ProbeLimit = 2
  MaxNest = 1
  FepMoves = {"pass"}
  AppendOutcomes = {TRUE, FALSE}
INVARIANTS TypeOK WaitsReturnStraightaway BackupEmptyBetweenWaits
PROPERTIES GetReturns PauseEnds
CHECK_DEADLOCK FALSE
