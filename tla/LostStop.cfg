SPECIFICATION FairSpec
CONSTANTS
    MaxConns = 3
    Faults = {}
    Sigint = FALSE
    Patient = FALSE
PROPERTIES
    StopReturns
