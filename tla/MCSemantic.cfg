SPECIFICATION Spec
CONSTANTS
    Sessions = {s1, s2}
    Tenants = {"t", "u"}
    Ids = {1, 2}
    Terms <- MCTerms
    Calls <- MCCalls
    Drivers = {"memory", "postgres"}
    CacheSize = 2
    MaxCalls = 4
    None = None
CHECK_DEADLOCK FALSE
INVARIANTS
    VectorIsOfContent
    CASReplacesChecked
    SearchIsSound
