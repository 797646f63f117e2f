SPECIFICATION CFSpec
CONSTANTS
    Links = {l1, l2}
    Buffers = {b1}
    WriteReqs = {r1}
    EventCount = 2
    CmdCount = 1
    BufCap = 1
    NoBuf = NoBuf
    NoLink = NoLink
INVARIANTS
    ClosesOwnHandle
