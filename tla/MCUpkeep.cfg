CONSTANTS
    Threads = {main, version}
    main = main
    Modems = {modem}
    Props = {bulk}
    Names = {"v1", "v2"}
    MaxChanges = 2
    MaxIKills = 1
    MaxFailures = 1
    Dumps = {1, 2}
    NoOwner = {2}
    MaxVBoots = 2
    MaxVKills = 1
    MaxVFaults = 1
SPECIFICATION USpec
INVARIANTS NamesKept VmmDumpsTold
PROPERTIES FilesSettle TrapDataReady
