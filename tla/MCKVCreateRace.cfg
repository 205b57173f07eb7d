CONSTANTS
  Txs = {t1, t2}
  TTLs = {0}
  Expects = {0}
  NoTx = NoTx
  MaxClock = 1
SPECIFICATION PgSpec
INVARIANT CASHonoured
CHECK_DEADLOCK FALSE
