\* A web search and a pick with a timeout override that share a pattern.
SPECIFICATION Spec
CONSTANTS
    NoYear = NoYear
    NoNumber = NoNumber
    NoQuery = NoQuery
    MaxResults = 1
    Concurrency = 2
    MaxBatch = 2
    Requests = {"web", "pick"}
    Overrides = {"pick"}
    Batches <- TwoRequests
    Patterns <- TwoPatterns
    Keys <- TwoKeys
    Fold <- TwoFold
INVARIANTS
    TypeOK
    RunningEntryIsSearched
    PassMissIsEviction
    AnsweredReportsDone
PROPERTY
    NoJobAbandoned
