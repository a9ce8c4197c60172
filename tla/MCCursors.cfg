SPECIFICATION WalkSpec
CONSTANTS
    N = 5
    Counts = {2, 3}
    MaxClock = 1
    MaxChanges = 2
INVARIANTS
    WalkTypeOK
    MissesOnlyForRemoved
    KeysAreLive
CHECK_DEADLOCK FALSE
