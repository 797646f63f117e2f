SPECIFICATION FairSpec
CONSTANTS
    MaxConns = 3
    Faults = {"setup", "launch", "init", "string_get"}
    Sigint = TRUE
    Patient = TRUE
PROPERTIES
    StopReturns
    StartResolves
