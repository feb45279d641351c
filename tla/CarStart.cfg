SPECIFICATION CarSpec
CONSTANTS
    Apis = {30, 33, 34}
    MaxCasts = 2
    MaxStarts = 2
    Conns = {1, 2}
INVARIANTS
    PromiseKept
    LeakOnlyByGrant
PROPERTIES
    StartBringsUpdates
    DeathKeepsStarts
CHECK_DEADLOCK FALSE
