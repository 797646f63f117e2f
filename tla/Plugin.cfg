SPECIFICATION PluginFairSpec
CONSTANTS
    MaxConns = 2
    Faults = {"setup", "launch", "init", "string_get"}
    Sigint = TRUE
    Patient = FALSE
    MaxPolls = 10
    MaxBytes = 23
INVARIANTS
    PluginTypeOK
    SuccessMeansJoined
    FreedOnlyByTimeout
    ByteOrderReversed
    MemoryExact
    MemSetRepeats
PROPERTIES
    PluginReturns
CHECK_DEADLOCK TRUE
