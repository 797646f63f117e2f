SPECIFICATION Spec
CONSTANTS
    MaxConns = 3
    Faults = {}
    Sigint = TRUE
    Patient = FALSE
INVARIANTS
    PrivLive
