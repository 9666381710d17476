CONSTANTS
    Threads = {t1, t2, t3, t4}
    MaxThread = 3
    MinWait = 3
    RunMax = 2
SPECIFICATION Spec
INVARIANTS NoEventForgotten LimitMeansLastChance
PROPERTY EventuallyNotified
