CONSTANTS
    Api = {p1, p2}
    Backfill = {j1}
    Row = {r1}
    a = a
    b = b
    c = c
    Model = {a, b, c}
    Dim <- MCDim
    NoModel = NoModel
    NoProc = NoProc
SPECIFICATION FairSpec
INVARIANT
    BootInv
PROPERTIES
    StampCoversSeen
    BootKeepsSeen
    BootEnds
