SPECIFICATION Spec
CONSTANTS
    k1 = k1
    k2 = k2
    Keys = {k1, k2}
    CollTypes = {"set"}
    Cells = {1}
    MaxInt = 0
    TTLs = {0, 1}
    Deltas = {0}
    MaxTime = 2
    MaxSweep = 1
SYMMETRY Symmetry
INVARIANTS
    TypeOK
    CacheCoherent
PROPERTIES
    ImplementsKeyspace
CHECK_DEADLOCK FALSE
