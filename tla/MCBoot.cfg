SPECIFICATION MCSpec
CONSTANTS
    Platforms = {"fdk", "efilinux", "sofia_legacy"}
    MaxToken = 2
    MaxEvidence = 2
    MaxKills = 2
    MaxBoots = 2
    Counters = {ce, ue}
    Paths = {file1, footer}
    Exempt = {footer}
    MaxCount = 2
    MaxEnds = 1
    MaxReboots = 1
    MaxFaults = 1
CHECK_DEADLOCK FALSE
INVARIANTS ResetExplained EventsAccounted MemoryErrorsTold FactoryChangeTold
PROPERTY ClearedIsReported
