SPECIFICATION Spec
CONSTANTS
    k1 = k1
    k2 = k2
    f1 = f1
    f2 = f2
    Keys = {k1, k2}
    Fields = {f1, f2}
    Values = {1}
    LegacyKeys = {}
    Conditions = {"always", "NX", "XX", "GT", "LT"}
    TTLs = {1}
    MaxTime = 1
    MaxSweep = 1
PROPERTY RenameMovesLiveFields
CHECK_DEADLOCK FALSE
