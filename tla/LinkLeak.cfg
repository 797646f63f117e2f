SPECIFICATION Spec
CONSTANTS
    Links = {l1}
    Buffers = {b1, b2, b3, b4}
    WriteReqs = {r1, r2, r3, r4}
    EventCount = 4
    CmdCount = 4
    BufCap = 1
    NoBuf = NoBuf
    NoLink = NoLink
SYMMETRY Symmetry
INVARIANTS
    CapacityKept
