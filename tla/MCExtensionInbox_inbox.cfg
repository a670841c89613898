SPECIFICATION Spec
CONSTANTS
    t1 = t1 t2 = t2
    Tabs = {t1, t2}
    MaxImports = 2
    Tokenless = {2}
    Cap = 1
    MaxFaults = 2
    MaxMoves = 3
SYMMETRY Symmetry
INVARIANTS TypeOK ImportsReachTheirTab PreparesInTurn ReceivingAwake
PROPERTIES PreparingIsKept
CHECK_DEADLOCK FALSE
