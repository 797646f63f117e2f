SPECIFICATION Spec
CONSTANTS
    Links = {l1}
    Buffers = {b1, b2}
    WriteReqs = {r1}
    EventCount = 2
    CmdCount = 1
    BufCap = 1
    NoBuf = NoBuf
    NoLink = NoLink
    SendEvery = 1
    FrameMod = 2
INVARIANT SentMemoryStable
