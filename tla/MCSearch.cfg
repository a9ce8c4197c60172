SPECIFICATION Spec
CONSTANTS
    payload = payload
    title = title
    tags = tags
    body = body
    other = other
    a = a
    b = b
    k1 = k1
    k2 = k2
    Names = {i1}
    DocIds = {k1, k2}
    Fields = {payload, title, tags}
    Payload = payload
    Texts <- MCTexts
    Terms = {a}
    Scores = {1}
    Documents <- MCDocuments
    LegacyDocs = {k1}
    MaxOps = 2
    Attributes <- MCAttributes
    SourceHashes <- MCSourceHashes
    KeyPrefixes <- MCPrefixes
    Other = Other
    SourceSugs <- MCSourceSugs
    SkipExisting = TRUE
    BatchDocs = 2
INVARIANTS
    TypeOK
    SearchAnswersQueries
    MigratedOrReported
CHECK_DEADLOCK FALSE
