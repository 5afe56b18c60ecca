\* Every call of the TMDB client, under failures, language changes and culling.
SPECIFICATION Spec
CONSTANTS
    Callers = {"request"}
    Languages = {"en", "fr"}
    NoLanguage = "none"
    Groups <- MCGroups
    Qualifying = {"disc", "story"}
    Titles <- MCTitles
    Nothing = Nothing
    MaxParts = 2
    Capacity = 2
INVARIANTS
    TypeOK
    EntryIsWhole
    AnswerInLanguage
    AutoIsFirstAvailable
