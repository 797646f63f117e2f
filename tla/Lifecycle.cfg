SPECIFICATION Spec
CONSTANTS
    MaxConns = 3
    Faults = {"setup", "launch", "init", "string_get"}
    Sigint = FALSE
    Patient = FALSE
INVARIANTS
    TypeOK
    PrivLive
    StoppedMeansJoined
    StartedMeansServed
PROPERTIES
    ListenNotRaced
