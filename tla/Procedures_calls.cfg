SPECIFICATION Spec
CONSTANTS
  A = A
  B = B
  main = main
  p = p
  q = q
  x = x
  y = y
  Procs = {main, p, q}
  Files = {A, B}
  MainFile = A
  Main = main
  Contents <- MCContents
  Params <- MCParams
  GlobalsOf <- MCGlobals
  ExternsOf <- MCExterns
  Bucket <- MCBucket
  Opcodes = {"Push", "Drop", "Call", "CallByName", "Return", "Raise", "Trap", "OnErr", "LoadM", "UnLoadM", "Opx", "Callback", "Stop", "Dialog"}
  MaxModules = 2
  MaxFrames = 3
  MaxInsts = 3
  MaxDepth = 1
  MaxNest = 1
CHECK_DEADLOCK FALSE
INVARIANT TypeOK
INVARIANT CountsExact
INVARIANT GlobalsExact
INVARIANT ExternsAreCallers
INVARIANT StackAgrees
INVARIANT TrapIsForItsCommand
INVARIANT DialogOwnerExists
INVARIANT NothingIsLeft
INVARIANT CallbacksRecorded
PROPERTY StopRefusedInCallback
