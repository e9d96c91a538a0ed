SPECIFICATION FairSpec
CONSTANTS
  MaxFragments = 4
  MaxEvents = 1
  BatchSize = 3
  Retries = 0
  MaxStoreFaults = 0
  MaxLate = 0
  MaxCancels = 0
  MaxCrashes = 1
  MaxSlips = 1
  MaxDrops = 1
CHECK_DEADLOCK FALSE
INVARIANTS
  BatchingIsExact
  FinalOutputIsStream
PROPERTIES
  FollowerIsReleased
