CONSTANTS
    p1 = p1
    p2 = p2
    p3 = p3
    Parties = {p1, p2, p3}
    Threshold = 3
    Q = 5
    IndexArrs <- MCIndexArrs
    UVals = {1, 2}
    CoeVals = {2}
    SeedVals = {0, 1}
    Tamperers = {p3}
SPECIFICATION Spec
CHECK_DEADLOCK FALSE
INVARIANTS
    TypeOK
    DriverReportsContext
PROPERTIES
    AllDriversReturn
