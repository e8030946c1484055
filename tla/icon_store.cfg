SPECIFICATION FairSpec
CONSTANTS
  LastRun = 3
  KeepRuns = 2
  Commands = {m1}
  Readers = {c1}
  Overlap = FALSE
  MaxTroubles = 1
  Serve = serve
  DomeWorker = dome
  Free = free
  Dead = dead
PROPERTIES
  CurrentServes
  LeasedStays
  DomeFollows
CHECK_DEADLOCK FALSE
