SPECIFICATION FairSpec
CONSTANTS
    Links = {l1}
    Buffers = {b1, b2}
    WriteReqs = {r1}
    EventCount = 2
    CmdCount = 2
    BufCap = 1
    NoBuf = NoBuf
    NoLink = NoLink
PROPERTIES
    StopCompletes
