SPECIFICATION Spec
CONSTANTS
  Vendor = "INTEL"
  NumCounters = 4
  Leaf10 = 4
  Features = {}
  Procs = {p1, p2}
  Pinned = {p1}
  Requests = {0, 2, 513}
  Cores = {0, 1}
  CoreMod = 512
  Ids = {0}
  Events = {e1}
  MaxFds = 2
  MaxCount = 1
INVARIANTS TypeOK ReadsAgree RawWritesHitControl
