CONSTANTS
    m1 = m1  m2 = m2  m3 = m3
    None = None
    Maps <- TwoMaps
    States = {1, 2}
    Share = 2
    MaxPackets = 3
    MaxCalls = 1
    MaxMoves = 2
SPECIFICATION Spec
SYMMETRY Symmetry
INVARIANTS InSentOrder BehindCalls NoneSkipped CallsFollow
CHECK_DEADLOCK FALSE
