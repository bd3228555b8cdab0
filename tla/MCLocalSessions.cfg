SPECIFICATION FairSpec
CONSTANTS
  Sessions = {s1}
  Containers = {}
  None = None
  MaxRuns = 2
  MaxCloses = 1
  MaxFaults = 1

  
PROPERTIES
  NothingIsForgotten
  LockedWorkEnds
CHECK_DEADLOCK FALSE
