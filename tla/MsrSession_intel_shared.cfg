SPECIFICATION Spec
CONSTANTS
  Vendor = "INTEL"
  NumCounters = 5
  Leaf10 = 5
  Features = {}
  Procs = {p1, p2}
  Pinned = {}
  Requests = {0}
  Cores = {0}
  CoreMod = 512
  Ids = {3, 4}
  Events = {e1, e2}
  MaxFds = 1
  MaxCount = 1
INVARIANTS MeasuredIsActual DisabledWhenSelected
SYMMETRY Symmetry
PROPERTIES ImplementsMeasurement
