SPECIFICATION Spec
CONSTANTS
  MaxFragments = 2
  MaxEvents = 1
  BatchSize = 2
  Retries = 1
  MaxStoreFaults = 1
  MaxLate = 1
  MaxCancels = 2
  MaxCrashes = 1
  MaxSlips = 0
  MaxDrops = 0
CHECK_DEADLOCK FALSE
INVARIANTS
  TypeOK
  StreamOrdered
  DoneAtCommittedSequence
  TextBeforeEvent
  NoFragmentLost
  ShownIsStream
  StoppedMeansFinished
