CONSTANTS
    u1 = u1
    u2 = u2
    Upload = {u1, u2}
    Reader = {r1}
    Id = {0, 1, 2}
    MetaName <- JsonOf
    TmpName <- TmpOf
    None = None
    MaxChunks = 1
    MaxDeletes = 1
    MaxCrashes = 1
    DiskFaults = TRUE
SPECIFICATION MCSpec
CHECK_DEADLOCK FALSE
INVARIANTS DataIsWhole SoloPutIsDescribed
PROPERTY EveryPutReturns
