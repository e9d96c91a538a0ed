SPECIFICATION FairSpec
CONSTANTS
  Files = {1, 2}
  Contents = {1, 2}
  Requests = {1, 2}
  MaxRequests = 3
  MaxErrors = 1
  MaxHalts = 1
CHECK_DEADLOCK FALSE
INVARIANTS
  TypeOK
  PartsAgree
  OneRowPerContent
PROPERTIES
  FileSettles
