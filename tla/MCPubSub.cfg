CONSTANTS
    Clients = {"a", "b"}
    Channels = {"x", "y"}
    Patterns = {"p"}
    Matching <- MCMatching
    Chunks <- MCChunks
    Sizes = {1, 2}
    maxPendingBytes = 4
    highWaterMark = 2
    Leavers = {"a"}
    Stalled = {"b"}
    MaxInput = 4
SPECIFICATION Spec
INVARIANTS
    TypeOK
    MapsAgree
    OutputIsSound
PROPERTIES
    ImplementsDelivery
    ReadersAreServed
CHECK_DEADLOCK FALSE
