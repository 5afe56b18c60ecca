\* One episode pick with a timeout override.
SPECIFICATION Spec
CONSTANTS
    NoYear = NoYear
    NoNumber = NoNumber
    NoQuery = NoQuery
    MaxResults = 0
    Concurrency = 2
    MaxBatch = 2
    Requests = {"pick"}
    Overrides = {"pick"}
    Batches <- OneEpisode
    Patterns <- EpisodePatterns
    Keys <- EpisodeKeys
    Fold <- EpisodeFold
INVARIANT
    SequentialPassesHit
