\* One movie search whose two spellings share a key, under fair scheduling.
SPECIFICATION FairSpec
CONSTANTS
    NoYear = NoYear
    NoNumber = NoNumber
    NoQuery = NoQuery
    MaxResults = 1
    Concurrency = 2
    MaxBatch = 3
    Requests = {"web"}
    Overrides = {}
    Batches <- OneRequest
    Patterns <- OnePatterns
    Keys <- OneKeys
    Fold <- OneFold
PROPERTIES
    RequestEnds
    FailureSurfaces
    RunningEntryFinishes
