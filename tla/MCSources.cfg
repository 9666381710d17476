SPECIFICATION Spec
CONSTANTS
    MaxModems = 2
    Systems <- MCSystems
    ConnectTries = 1
    KctTries = 2
    PipeSize = 2
    RetryCounter = 2
    ApMax = 20
    ApDefault = 5
    BpMax = 200
    BpDefault = 10
    MdmEvents <- MCMdmEvents
    KctPackets <- MCKctPackets
    LctCalls <- MCLctCalls
    Logs <- MCLogs
INVARIANTS DumpNotLost
PROPERTIES ImplementsFlow MonitorsEnd
