CONSTANTS
    Keys = {"a", "b"}
    LegacyKeys = {"a"}
    Null = Null
    Values = {"u", "v"}
    Members <- MCMembers
    Scores <- MCScores
    Increments <- MCIncrements
    SpopCounts <- MCSpopCounts
    MaxCached = 2
    MaxBatch = 2
    MaxElements = 3
    MaxSeq = 2
SPECIFICATION Spec
INVARIANTS
    TypeOK
    RowsConsistent
    HitsAnswerAsMisses
    ListsBehave
    SortedSetsBehave
