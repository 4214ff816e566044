SPECIFICATION FairSpec
CONSTANTS
  Machines = {"Intel"}
  Dirs = {"scripts"}
  NumTries = 3
PROPERTY HeaderIsSeen
