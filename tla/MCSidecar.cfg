CONSTANTS
    None = None
    Configs <- MCConfigs
    Requests <- MCRequests
    MaxConcurrent = 2
    MaxCalls = 2
    MaxEdits = 1
    MaxTime = 1
    MaxStarts = 2
    MaxReloads = 1
SPECIFICATION MCSpec
CHECK_DEADLOCK FALSE
INVARIANTS
    ServedIsPermitted
    RateLimitHolds
    ReloadIsWhole
    SignalledIsLoaded
    ReadsRoundTrip
    ClosedOnceAfterCalls
PROPERTY
    ShutdownCompletes
