CONSTANTS
  c1 = c1
  c2 = c2
  c3 = c3
  k1 = k1
  Keys = {k1}
  Calls = {c1, c2, c3}
  NoHolder = NoHolder
  TTLs = {1, 2}
  Waits = {0, 2, 3}
  Poll = 2
  MaxClock = 3
SPECIFICATION MCSpec
INVARIANTS MutualExclusion LiveRowsAreIssued
PROPERTIES EveryAcquireReturns ImplementsContract
CHECK_DEADLOCK FALSE
