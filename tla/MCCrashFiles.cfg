SPECIFICATION CSpec
CONSTANTS
    Files = {f1, f2}
    FileKinds <- MCKinds
    LogFiles = 3
    LogLimit = 2
    PropDepth = 1
    PropPackets = 2
    MaxCookie = 3
    MaxRotate = 0
    MaxFaults = 2
    MaxKills = 1
SYMMETRY MCSymmetry
INVARIANTS
    ReportedOnce
    NotLost
