CONSTANTS
    a = a
    b = b
    c = c
    Keys = {a, b, c}
    None = None
    Values <- MCValues
    InitialSources <- MCSources
    PageOf <- MCPageOf
    Pages = 2
    Batch = 1
    Concurrency = 1
    Trackers = {"separate"}
    PreDelta = FALSE
    Faults = {"signal"}
    MaxWrites = 0
    MaxFaults = 1
    MaxSwitches = 0
SPECIFICATION Spec
INVARIANT InterruptedImportResumes
CHECK_DEADLOCK FALSE
