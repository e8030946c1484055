SPECIFICATION Spec
CONSTANTS
  Jobs = {h1}
  Horizon = {h1}
  Keys = {kf, kg, kh}
  KeyOf <- OwnKeys
  Capacity <- OneSlotEach
  Concurrency = 1
  MaxTroubles = 1
  Nothing = Nothing
  f1 = f1 f2 = f2 h1 = h1 h2 = h2 kf = kf kg = kg kh = kh
INVARIANTS
  InterruptedHasFailed
CHECK_DEADLOCK FALSE
