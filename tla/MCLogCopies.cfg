SPECIFICATION CSpec
CONSTANTS
    Files = {f1}
    FileKinds <- MCKinds
    LogFiles = 4
    LogLimit = 5
    PropDepth = 1
    PropPackets = 2
    MaxCookie = 2
    MaxRotate = 4
    MaxFaults = 1
    MaxKills = 1
INVARIANTS
    LogsWhole
