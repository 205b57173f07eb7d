CONSTANTS
  Txs = {t1, t2, t3}
  TTLs = {0, 1}
  Expects <- MCExpects
  NoTx = NoTx
  MaxClock = 2
SPECIFICATION PgFairSpec
INVARIANTS VersionsAreDistinct CASReplacesVersionChecked
PROPERTIES EveryWriteEnds
CHECK_DEADLOCK FALSE
