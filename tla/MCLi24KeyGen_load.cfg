CONSTANTS
    p1 = p1
    p2 = p2
    p3 = p3
    p4 = p4
    Parties = {p1, p2, p3}
    Threshold = 3
    Q = 5
    IndexArrs <- MCIndexArrs3
    UVals = {1, 2}
    CoeVals = {2}
    SeedVals = {0, 1}
    Equivocators = {}
    Tamperers = {}
    MaxRedeliveries = 0
SPECIFICATION Spec
CHECK_DEADLOCK FALSE
INVARIANTS
    KeyLoadable
