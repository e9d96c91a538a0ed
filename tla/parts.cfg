CONSTANTS
  Turns = 3
  Restarts = 1
  KeepTurns = 1
  ViewLimit = 3
  FallbackOn = TRUE
  Jobs = {1, 2}
  MaxWrites = 4
  FileModels = {"able", "plain"}
  FileAble <- mcFileAble
  Files <- mcFiles
  Settings <- mcSettings
  Ids = {e1, e2, e3}
  ItemLimit = 2
  MaxChanges = 2
  Videos = 3
SYMMETRY mcSymmetry
INIT InitParts
NEXT NextParts
INVARIANTS HistoryKept OutputIsOfJob ConfigResolves ExperienceIsUsable AnalysisShown
CHECK_DEADLOCK FALSE
