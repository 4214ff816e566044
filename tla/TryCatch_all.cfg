SPECIFICATION Spec
CONSTANTS
  NSigs = 3
  FaultSig = 2
  MaxDepth = 3
  MaxNest = 3
INVARIANTS TypeOK JumpIsLive NothingStaysBlocked
PROPERTIES FaultsAreCaught
CHECK_DEADLOCK FALSE
