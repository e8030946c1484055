SPECIFICATION FairSpec
CONSTANTS
  LastObject = 4
  Workers = 2
  LastBase = 2
  MaxTroubles = 3
INVARIANTS
  PublishedIsWhole
PROPERTIES
  VerifiedStays
  VolumeIsFinished
CHECK_DEADLOCK FALSE
