SPECIFICATION Spec
CONSTANTS
    MaxRecords = 2
    MaxHistFile = 3
    MaxDirs = 2
    CleanMax = 1
    MaxKeys = 4
CHECK_DEADLOCK FALSE
PROPERTIES
    DeletedStaysDeleted
