\* Two callers change settings at once.
SPECIFICATION Spec
CONSTANTS
    SettingKeys = {"minimum_seeders", "search_timeout_seconds"}
    Values = {"low", "high"}
    NoOverride = "none"
    Torn = Torn
    EnvValues <- MCEnvValues
    TextLength <- MCTextLength
    Callers = {"a", "b"}
    SaveMayFail = FALSE
    CrashMidWrite = FALSE
INVARIANT
    SettledIsPersisted
