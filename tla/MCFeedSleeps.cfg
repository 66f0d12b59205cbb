CONSTANTS
    m1 = m1
    m2 = m2
    c1 = c1
    c2 = c2
    Maps <- TwoMaps
    Clients <- TwoClients
    Indices <- OneIndex
    Nobody = Nobody
    Capacity = 1
    MaxFrames = 2
    MaxMoves = 2
    MaxCorks = 1
    MaxHolds = 1
SPECIFICATION Spec
SYMMETRY Symmetry
INVARIANT NothingLost
CHECK_DEADLOCK FALSE
