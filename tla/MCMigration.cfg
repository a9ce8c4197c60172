CONSTANTS
    a = a
    b = b
    c = c
    Keys = {a, b, c}
    None = None
    Values <- MCValues
    InitialSources <- MCSources
    PageOf <- MCPageOf
    Pages = 2
    Batch = 1
    Concurrency = 1
    Trackers = {"in-process", "separate"}
    PreDelta = FALSE
    Faults = {"crash", "scan", "read", "signal", "abort", "abort apply"}
    MaxWrites = 2
    MaxFaults = 1
    MaxSwitches = 1
SPECIFICATION FairSpec
INVARIANTS TypeOK NothingForgotten CutoverComplete
PROPERTY JobEnds
CHECK_DEADLOCK FALSE
