SPECIFICATION Spec
CONSTANTS
  Vendor = "AMD"
  NumCounters = 4
  Leaf10 = 0
  Features = {23, 24}
  Procs = {p1, p2}
  Pinned = {}
  Requests = {0}
  Cores = {0}
  CoreMod = 512
  Ids = {0, 1, 4}
  Events = {e1}
  MaxFds = 1
  MaxCount = 1
INVARIANTS CountersAreIndependent
SYMMETRY Symmetry
PROPERTIES ImplementsMeasurement
