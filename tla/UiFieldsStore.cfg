SPECIFICATION Spec
CONSTANTS
    MaxHandlers = 2
    MaxEvents = 2
    MaxQueue = 1
    Speeds = {"ok", "null", "nan"}
INVARIANTS
    OneSpeedCallback
    SavedIsCopy
    ScreenShowsSaved
PROPERTY
    OlderOnlyByAnotherHandler
CHECK_DEADLOCK FALSE
