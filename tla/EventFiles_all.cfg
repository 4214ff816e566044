SPECIFICATION FairSpec
CONSTANTS
  Machines = {"Intel", "Hybrid", "AMD", "ARM"}
  Dirs = {"scripts", "/"}
  NumTries = 3
INVARIANTS TypeOK HeaderIsWhole HeaderCanBeRemade
PROPERTIES RunsShorten RunsEndOrHang RecoversUnlessCutOff
