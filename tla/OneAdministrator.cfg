\* One caller at a time, no failed save, no crash inside the write.
SPECIFICATION Spec
CONSTANTS
    SettingKeys = {"minimum_seeders", "search_timeout_seconds"}
    Values = {"low", "high"}
    NoOverride = "none"
    Torn = Torn
    EnvValues <- MCEnvValues
    TextLength <- MCTextLength
    Callers = {"a"}
    SaveMayFail = FALSE
    CrashMidWrite = FALSE
INVARIANT
    SettledIsPersisted
PROPERTIES
    RestartKeepsSettings
    ImplementsRegister
