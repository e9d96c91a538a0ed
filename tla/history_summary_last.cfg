CONSTANTS
  Turns = 3
  Restarts = 0
  KeepTurns = 1
  ViewLimit = 3
  FallbackOn = TRUE
INIT HistoryInit
NEXT HistoryNext
INVARIANT SummaryInFront
CHECK_DEADLOCK FALSE
