CONSTANTS
    Clients = {"a"}
    Channels = {"x", "y"}
    Patterns = {"p"}
    Matching <- MCMatching
    Chunks <- MCPipelines
    Sizes = {1, 2}
    maxPendingBytes = 4
    highWaterMark = 2
    Leavers = {"a"}
    Stalled = {}
    MaxInput = 4
SPECIFICATION Spec
INVARIANT EveryCommandAnswered
CHECK_DEADLOCK FALSE
