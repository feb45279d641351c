SPECIFICATION Spec
CONSTANTS
    Apis = {30, 33}
    MaxCasts = 2
    MaxStarts = 2
    Conns = {1, 2, 3}
    MaxActs = 3
INVARIANTS
    UpdatesOnlyWhileServed
    BoundWhileOnScreen
CHECK_DEADLOCK FALSE
