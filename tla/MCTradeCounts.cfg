CONSTANTS
    p1 = p1  p2 = p2  p3 = p3
    i1 = i1  i2 = i2
    here = here  there = there
    None = None
    Players <- Two
    Items <- OneItem
    Slots = {0, 1}
    NotTraded = 0
    Spots <- OnePlace
    Counts = {1, 2}
    Gold = 0
    MaxMoney = 0
SPECIFICATION Spec
SYMMETRY Symmetry
INVARIANTS CountsAsShown
CHECK_DEADLOCK FALSE
