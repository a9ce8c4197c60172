SPECIFICATION FairSpec
CONSTANTS
    a = a
    b = b
    c1 = c1
    c2 = c2
    Clients = {c1, c2}
    Keys <- MCKeys
    StringKeys = {b}
    Kinds = {"BLPOP"}
    KeyLists <- MCKeyLists
    maxWaitersPerKey = 2
    maxTotalWaiters = 2
    maxKeysPerWait = 2
    Leavers = {c1}
    MaxItems = 2
    MaxWaits = 2
    MaxBulk = 1
INVARIANTS
    TypeOK
    QueuesMatch
    SingleReply
    ItemsOnce
    PausedIffBlocked
    NoStarvedBySinglePushes
PROPERTIES
    FirstComeFirstServed
    WaitEnds
CHECK_DEADLOCK FALSE
