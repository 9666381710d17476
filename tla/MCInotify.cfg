SPECIFICATION Spec
CONSTANTS
    anr = anr  crash = crash  trig = trig
    dropbox = dropbox  stats = stats
    Entries = {anr, crash, trig}
    Dirs = {dropbox, stats}
    PathOf <- MCPathOf
    NameLens = {1, 2}
    BufSize = 5
    CallsFail = TRUE
    MaxEvents = 5
CHECK_DEADLOCK FALSE
INVARIANTS LiveWatchKnown HandledInOrder WatchedWhenQuiet
