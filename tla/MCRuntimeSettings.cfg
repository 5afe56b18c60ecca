\* Two callers, saves that fail, crashes at any time.
SPECIFICATION Spec
CONSTANTS
    SettingKeys = {"minimum_seeders", "search_timeout_seconds"}
    Values = {"low", "high"}
    NoOverride = "none"
    Torn = Torn
    EnvValues <- MCEnvValues
    TextLength <- MCTextLength
    Callers = {"a", "b"}
    SaveMayFail = TRUE
    CrashMidWrite = TRUE
INVARIANTS
    TypeOK
    AppliedUnlessRaced
