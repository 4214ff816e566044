SPECIFICATION FairSpec
CONSTANTS
  Arch = "x86_64"
  Cpus = {c1, c2}
  HotCpus = {c2}
  Procs = {p1, p2}
  Pinned = {p1}
  SizeBits = 8
INVARIANTS TypeOK UnloadRevokes LoadReachesEveryCpu
PROPERTIES FaultsAreExplained ImplementsGate LoaderComesToRest DeviceIsReleased
