CONSTANTS
    m1 = m1
    m2 = m2
    c1 = c1
    c2 = c2
    Maps <- OneMap
    Clients <- OneClient
    Indices <- OneIndex
    Nobody = Nobody
    Capacity = 3
    MaxFrames = 3
    MaxMoves = 1
    MaxCorks = 1
    MaxHolds = 1
SPECIFICATION Spec
SYMMETRY Symmetry
INVARIANT HeldInOrder
CHECK_DEADLOCK FALSE
