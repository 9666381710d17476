SPECIFICATION Spec
CONSTANTS
    Slots = 2
    Anr = {2, 3}
    MaxCrash = 4
CHECK_DEADLOCK FALSE
INVARIANTS ToldOnce RightKey
