SPECIFICATION Spec
CONSTANTS
  Digests = {d1, d2}
  Publishers = {p1, p2}
  Limit = 1
  TTL = 2
  None = None
  MaxTime = 3
PROPERTIES
  LostOnlyByAge
CHECK_DEADLOCK FALSE
