CONSTANTS
    p1 = p1
    p2 = p2
    p3 = p3
    p4 = p4
    Parties = {p1, p2, p3, p4}
    Threshold = 3
    Q = 5
    IndexArrs <- MCIndexArrs4
    UVals = {1, 2}
    CoeVals = {2}
    SeedVals = {0}
    Equivocators = {}
    Tamperers = {p4}
    MaxRedeliveries = 0
SPECIFICATION Spec
CHECK_DEADLOCK FALSE
INVARIANTS
    ShareConsistency
