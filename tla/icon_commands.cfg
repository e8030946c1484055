SPECIFICATION Spec
CONSTANTS
  LastRun = 1
  KeepRuns = 2
  Commands = {m1}
  Readers = {}
  Overlap = TRUE
  MaxTroubles = 0
  Serve = serve
  DomeWorker = dome
  Free = free
  Dead = dead
PROPERTIES
  CurrentServes
CHECK_DEADLOCK FALSE
