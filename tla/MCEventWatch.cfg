SPECIFICATION Spec
CONSTANTS
    Configs <- MCConfigs
    MailboxLimit = 2
    SuspendLimit = 1
    DefaultCount = 2
    DefaultInterval = 2
    MaxPolls = 1
    MaxItems = 4
    MaxTime = 2
    MaxRuns = 2
CHECK_DEADLOCK FALSE
INVARIANTS
    MailboxSound
    OutputInOrder
    NoisyIsKilled
    SuspendSound
PROPERTIES
    AllStop
