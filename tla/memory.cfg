SPECIFICATION FairSpec
CONSTANTS
  Jobs = {j1, j2}
  Named = {m1}
  Texts = {t1}
  NoJob = NoJob
  MaxManual = 2
  MaxErrors = 1
  MaxHalts = 1
CHECK_DEADLOCK FALSE
INVARIANTS
  TypeOK
  ManualWins
  StoresAgree
  JobsTellWhatHappened
PROPERTIES
  JobSettles
  ImplementsContract
