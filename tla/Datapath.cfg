SPECIFICATION Spec
CONSTANTS
    Links = {l1, l2}
    Buffers = {b1, b2}
    WriteReqs = {r1}
    EventCount = 2
    CmdCount = 1
    BufCap = 1
    NoBuf = NoBuf
    NoLink = NoLink
SYMMETRY Symmetry
INVARIANTS
    TypeOK
    BufferExclusive
    BuffersConserved
    ListsConserved
    HandleLive
    FreeLinkQuiescent
    WritesLive
    AppOrder
    CloseWillBeSeen
    WritesAnnounced
PROPERTIES
    LostOnlyWithoutEvents
    ImplementsSessions
CHECK_DEADLOCK TRUE
