SPECIFICATION FairSpec
CONSTANTS
  r1 = r1
  r2 = r2
  t1 = t1
  Runs = {r1, r2}
  Threads = {t1}
  ThreadOf <- MCThreadOf
  Cancellers = {c1}
  Nobody = Nobody
  MaxRestarts = 2
  MaxFaults = 2
INVARIANTS
  TypeOK
  AtMostOneActive
  CancelledMeansAsked
  OrphanHasCause
PROPERTIES
  ReconciledBeforeServing
  ImplementsContract
  AcceptedRunSettles
  CancelIsAnswered
  DirectCancelFinishes
CHECK_DEADLOCK FALSE
