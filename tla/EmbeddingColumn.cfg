CONSTANTS
    Api = {p1, p2}
    Backfill = {j1}
    Row = {r1, r2}
    a = a
    b = b
    c = c
    Model = {a, b, c}
    Dim <- MCDim
    NoModel = NoModel
    NoProc = NoProc
SPECIFICATION Spec
INVARIANT
    EmbeddingDimIsColumn
