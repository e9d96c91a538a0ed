SPECIFICATION Spec
CONSTANTS
  r1 = r1
  r2 = r2
  t1 = t1
  Runs = {r1}
  Threads = {t1}
  ThreadOf <- MCThreadOf
  Cancellers = {c1, c2}
  Nobody = Nobody
  MaxRestarts = 0
  MaxFaults = 0
INVARIANTS
  CancelPersisted
CHECK_DEADLOCK FALSE
