CONSTANTS
  Keys = {1, 2}
  Gets = {g1, g2}
  TTLs = {0, 1}
  Track = TRUE
  SlideTTL = 1
  Capacity = 1
  MaxPuts = 2
  MaxClock = 3
SPECIFICATION FairSpec
INVARIANTS AccessCountExact CapacityHeld
PROPERTIES ExpiryNeverHitsFreshRecord ExpiredIsReclaimed
CHECK_DEADLOCK FALSE
