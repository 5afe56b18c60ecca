\* Every input of the small universes, one after another.
SPECIFICATION Spec
CONSTANTS
    NoYear = NoYear
    NoNumber = NoNumber
    NoQuery = NoQuery
    NoTarget = NoTarget
    NoPick = NoPick
    NoNumbering = NoNumbering
    NoInput = NoInput
    MaxListings = 2
    MaxGroups = 2
    Searches <- MCSearches
    Picks <- MCPicks
    Rules <- MCRules
    Offers <- MCOffers
    Canonicals <- MCCanonicals
    EpisodeGroups <- MCEpisodeGroups
INVARIANTS
    RequestIsWellFormed
    PrefetchIsAllUsed
    PickIsBest
    NumberingIsOneToOne
    QualifiesAsDocumented
