SPECIFICATION PluginSpec
CONSTANTS
    MaxConns = 2
    Faults = {}
    Sigint = TRUE
    Patient = FALSE
    MaxPolls = 10
    MaxBytes = 23
INVARIANTS
    ServiceLive
