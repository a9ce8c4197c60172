SPECIFICATION FairSpec
CONSTANTS
    k1 = k1
    k2 = k2
    f1 = f1
    f2 = f2
    Keys = {k1, k2}
    Fields = {f1, f2}
    Values = {1}
    LegacyKeys = {k1}
    Conditions = {"always", "NX", "XX", "GT", "LT"}
    TTLs = {0, 1}
    MaxTime = 2
    MaxSweep = 1
INVARIANTS
    TypeOK
    TablesAgree
    ReadsAreLive
PROPERTIES
    RevivedOnlyByWrite
    BacklogIsSwept
CHECK_DEADLOCK FALSE
