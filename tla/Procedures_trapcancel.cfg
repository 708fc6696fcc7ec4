SPECIFICATION Spec
CONSTANTS
  A = A
  B = B
  main = main
  p = p
  q = q
  x = x
  y = y
  Procs = {main, p}
  Files = {A}
  MainFile = A
  Main = main
  Contents <- MCContents
  Params <- MCParams
  GlobalsOf <- MCGlobals
  ExternsOf <- MCExterns
  Bucket <- MCBucket
  Opcodes = {"Push", "Drop", "Operator", "Trap", "Cancel", "IoSignal"}
  MaxModules = 2
  MaxFrames = 2
  MaxInsts = 1
  MaxDepth = 2
  MaxNest = 0
CHECK_DEADLOCK FALSE
INVARIANT TrapIsForItsCommand
