SPECIFICATION Spec
CONSTANTS
    Places = {0, 1, 2}
    MinDist = 1
    Cap = 1
    MaxGens = 2
    MaxPos = 3
    MaxDraws = 2
    MaxScreens = 2
INVARIANTS
    RouteWellFormed
    ResetForgets
    LostOnlyByReset
    OneRouteOnMap
CHECK_DEADLOCK FALSE
