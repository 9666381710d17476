SPECIFICATION WLSpec
CONSTANTS
    Granularity = 3
    Period = 3
    SelectTimeout = 2
    AnyThread = TRUE
    MaxSuspends = 3
    Rotated = 2
    RotateSize = 1
    MaxTime = 3
    MaxStops = 1
CHECK_DEADLOCK FALSE
INVARIANTS
    KilledIsStuck
    StuckIsKilled
    FilesHoldTail
    MergedInOrder
PROPERTIES
    StuckForeverDies
    KernelIsRead
