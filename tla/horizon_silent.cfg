SPECIFICATION Spec
CONSTANTS
  Requests = {r1, r2}
  Users = {u1, u2}
  Keys = {k1}
  Workers = {w1}
  Senders = {s1}
  QueueSize = 1
  MaxWaiters = 2
  DeliverySize = 1
  CacheShare = 1
  Modes = {TRUE}
  None = None
SYMMETRY HorizonSymmetry
INVARIANTS
  NoSilence
CHECK_DEADLOCK FALSE
