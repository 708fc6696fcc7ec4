SPECIFICATION TestSpec
CONSTANTS
  r1 = r1
  r2 = r2
  Timer = r1
  Cancel = r2
  Requests = {r1, r2}
  Prio <- MCPrioIoc
  EventKinds = {"key"}
  Keywords = {"IOA", "KEYA", "KEYC", "IOWAIT", "IOWAITSTAT", "IOCANCEL"}
  MaxEvents = 2
  MaxPlain = 3
  MaxStray = 0
  TimerFires = FALSE
  YieldLimit = 2
  CheckLimit = 1
  ProbeLimit = 2
  MaxNest = 1
  FepMoves = {"pass"}
  AppendOutcomes = {TRUE}
INVARIANT NoStraySignal
CHECK_DEADLOCK FALSE
