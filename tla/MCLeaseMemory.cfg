CONSTANTS
  Keys = {k1}
  Calls = {a1, a2, a3}
  NoHolder = NoHolder
  TTLs = {1, 2}
  Waits = {0, 3}
  Poll = 2
  MaxClock = 3
SPECIFICATION FairSpec
INVARIANTS MutualExclusion OwnerIsInspectable
PROPERTIES LostHolderNeverReturns EveryAcquireReturns ImplementsContract
CHECK_DEADLOCK FALSE
