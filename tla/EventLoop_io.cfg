SPECIFICATION FairSpec
CONSTANTS
  r1 = r1
  r2 = r2
  Requests = {r1, r2}
  Prio <- MCPrio
  EventKinds = {"key"}
  Keywords = {"IOA", "IOC", "IOCANCEL", "IOWAIT", "IOWAITSTAT", "IOSIGNAL", "CHECK", "IOYIELD", "CTRL", "DIALOG", "KEYC"}
  MaxEvents = 1
  MaxPlain = 1
  MaxStray = 1
  TimerFires = TRUE
  YieldLimit = 2
  CheckLimit = 1
  ProbeLimit = 2
  MaxNest = 2
  FepMoves = {"pass", "eat"}
  AppendOutcomes = {TRUE}
INVARIANTS SignalsAccounted PollSleepsOnlyOnUncollected
PROPERTIES NoReturnWhileSuspended IoWaitReturns IoWaitStatReturns
CHECK_DEADLOCK FALSE
