SPECIFICATION Spec
CONSTANTS
  Procs = {p1, p2}
  Pinned = {p1}
  Cores = {c1, c2}
  Counters = {0, 1, 31}
  Uses <- MCUses
  Events = {e1, e2}
  CounterMod = 2
SYMMETRY Symmetry
INVARIANTS TypeOK DeltaIsExact ResetNeverAdds
PROPERTIES NobodyIsStopped ImplementsMeasurement
