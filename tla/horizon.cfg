SPECIFICATION FairSpec
CONSTANTS
  Requests = {r1, r2}
  Users = {u1, u2}
  Keys = {k1}
  Workers = {w1, w2}
  Senders = {s1}
  QueueSize = 1
  MaxWaiters = 2
  DeliverySize = 1
  CacheShare = 1
  Modes = {TRUE, FALSE}
  None = None
INVARIANTS
  TypeOK
  ActiveExact
  Singleflight
  DeliveriesExact
  CancelReaches
  OnlyDropsAreSilent
  CloseLeavesOne
PROPERTIES
  EveryRequestEnds
  CloseReturns
CHECK_DEADLOCK FALSE
