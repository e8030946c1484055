SPECIFICATION StopSpec
CONSTANTS
  Workers = {w1}
  JobIds = {j1, j2}
  NoJob = NoJob
  Owners = {o1}
  Kinds = {h}
  TimedKinds = {h}
  Keys = {k1}
  Families = {f1}
  Sciences = {s1}
  NoDigest = NoDigest
  Requests <- OneRequest
  QueueCapacity = 1
  CompletedLimit = 2
  CompletedTTL = 1
  MaxTime = 0
  o1 = o1 o2 = o2 h = h a = a s1 = s1 s2 = s2 k1 = k1 k2 = k2 f1 = f1 f2 = f1
PROPERTIES
  CloseEnds
  SlotIsFreed
  EveryJobEnds
CHECK_DEADLOCK FALSE
