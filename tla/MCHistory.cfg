SPECIFICATION Spec
CONSTANTS
    MaxRecords = 2
    MaxHistFile = 5
    MaxDirs = 2
    CleanMax = 1
    MaxKeys = 5
CHECK_DEADLOCK FALSE
INVARIANTS
    TrimReadsNoHole
    CounterCoversFile
    Chronological
    CacheIsTailOfFile
PROPERTIES
    GrowthBounded
    LatestLogsKept
