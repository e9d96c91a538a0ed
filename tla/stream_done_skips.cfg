SPECIFICATION Spec
CONSTANTS
  MaxFragments = 2
  MaxEvents = 1
  BatchSize = 2
  Retries = 0
  MaxStoreFaults = 0
  MaxLate = 0
  MaxCancels = 0
  MaxCrashes = 0
  MaxSlips = 0
  MaxDrops = 0
CHECK_DEADLOCK FALSE
INVARIANT DoneAfterWholeStream
