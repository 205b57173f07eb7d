CONSTANTS
    Replica = {p1, p2}
    Migration = 2
    Appender = {a1, a2}
    Tailer = {t1}
    DedupKey = {k1}
    None = None
    MaxBegin = 3
SPECIFICATION PgSpec
CHECK_DEADLOCK FALSE
INVARIANTS TailMissesNothing DedupReplays
PROPERTY TailCatchesUp
