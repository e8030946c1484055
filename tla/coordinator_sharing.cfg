SPECIFICATION Spec
CONSTANTS
  Workers = {w1}
  JobIds = {j1, j2}
  NoJob = NoJob
  Owners = {o1, o2}
  Kinds = {a}
  TimedKinds = {}
  Keys = {k1, k2}
  Families = {f1, f2}
  Sciences = {s1, s2}
  NoDigest = NoDigest
  Requests <- SharedRequests
  QueueCapacity = 1
  CompletedLimit = 1
  CompletedTTL = 1
  MaxTime = 1
  o1 = o1 o2 = o2 h = h a = a s1 = s1 s2 = s2 k1 = k1 k2 = k2 f1 = f1 f2 = f2
SYMMETRY JobSymmetry
INVARIANTS
  TypeOK
  QueueExact
  RegistryExact
  OneActivePerOwner
  MetadataBounded
PROPERTIES
  CancelNeedsEveryOwner
CHECK_DEADLOCK FALSE
