SPECIFICATION Spec
CONSTANTS
  Digests = {d1, d2, d3}
  Publishers = {p1, p2}
  Limit = 1
  TTL = 3
  None = None
  MaxTime = 4
CONSTRAINT Solo
SYMMETRY CacheSymmetry
INVARIANTS
  TypeOK
  StagingOwned
  EntriesOnDisk
PROPERTIES
  LimitRespected
  ResultIsThere
  LostOnlyByAge
CHECK_DEADLOCK FALSE
