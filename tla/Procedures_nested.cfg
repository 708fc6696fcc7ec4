SPECIFICATION FairSpec
CONSTANTS
  A = A
  B = B
  main = main
  p = p
  q = q
  x = x
  y = y
  Procs = {main, q}
  Files = {A, B}
  MainFile = A
  Main = main
  Contents <- MCContents
  Params <- MCParams
  GlobalsOf <- MCGlobals
  ExternsOf <- MCExterns
  Bucket <- MCBucket
  Opcodes = {"Push", "Operator", "CallByName", "Return", "OnErr", "Eval", "Opx", "Callback", "Unresolved", "Cancel", "IoSignal", "LoadM"}
  MaxModules = 2
  MaxFrames = 3
  MaxInsts = 2
  MaxDepth = 2
  MaxNest = 2
CHECK_DEADLOCK FALSE
INVARIANT CodeIsCurrent
INVARIANT WaitersKeepFrames
PROPERTY ErrorsAreHandled
