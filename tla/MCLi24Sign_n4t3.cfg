CONSTANTS
    p1 = p1
    p2 = p2
    p3 = p3
    p4 = p4
    Parties = {p1, p2, p3, p4}
    Threshold = 3
    Q = 7
    XOffset = 0
    Index <- MCIndex4
    Poly <- MCPoly3
    M = 1
    KVals = {2}
    PhiVals = {1}
    Seed <- MCSeed
    HashMod = 11
    HashMul = 7
    HashAdd = 3
SPECIFICATION Spec
CHECK_DEADLOCK FALSE
INVARIANTS
    NoSpuriousFailure
