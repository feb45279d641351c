SPECIFICATION Spec
CONSTANTS
    Threads = {"main", "looper"}
    FlushEvery = 3
    MaxAge = 1
    MaxSec = 2
    MaxEvents = 3
    MaxCloses = 2
INVARIANTS
    FilesWellFormed
    DamageOnlyByClose
    FewLinesUnflushed
PROPERTY
    FilesKept
CHECK_DEADLOCK FALSE
