SPECIFICATION Spec
CONSTANTS
  MaxFd = 2
  Pages = 4
  Letters = {0, 1}
  Narrow = 64
  Wide = 256
  Starts = {0, 63, 255}
  HitTime = 1
  MissTime = 6
  DefaultMiss = 4
  Count = 5
INVARIANTS TypeOK ForeignExplained LeakExplained
PROPERTIES HitIsReal DecodedWasEncoded PassLeavesNothing
