SPECIFICATION Spec
CONSTANTS
  Workers = {w1, w2}
  JobIds = {j1, j2}
  NoJob = NoJob
  Owners = {o1}
  Kinds = {a}
  TimedKinds = {a}
  Keys = {k1, k2}
  Families = {f1}
  Sciences = {s1, s2}
  NoDigest = NoDigest
  Requests <- ManyRequests
  QueueCapacity = 2
  CompletedLimit = 2
  CompletedTTL = 1
  MaxTime = 0
  o1 = o1 o2 = o2 h = h a = a s1 = s1 s2 = s2 k1 = k1 k2 = k2 f1 = f1 f2 = f1
SYMMETRY JobSymmetry
INVARIANTS
  SlotsExact
  NoLostWakeup
  DrainedOnExit
PROPERTIES
  OutcomeIsFinal
  FifoSpec
CHECK_DEADLOCK FALSE
