CONSTANTS
    p1 = p1
    p2 = p2
    p3 = p3
    Parties = {p1, p2, p3}
    Threshold = 3
    Q = 7
    XOffset = 0
    Index <- MCIndex3
    UVals = {1, 2}
    CoeVals = {2}
    SeedVals = {0, 1}
    M = 3
    KVals = {2}
    PhiVals = {3}
    HashMod = 11
    HashMul = 7
    HashAdd = 3
SPECIFICATION Spec
CHECK_DEADLOCK FALSE
INVARIANTS
    GeneratedKeyMasksCancel
    GeneratedKeySigns
PROPERTIES
    SessionEnds
