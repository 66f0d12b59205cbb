CONSTANTS
    p1 = p1  p2 = p2  p3 = p3
    i1 = i1  i2 = i2
    here = here  there = there
    None = None
    Players <- Two
    Items <- TwoItems
    Slots = {0, 1}
    NotTraded = 0
    Spots <- Apart
    Counts = {1}
    Gold = 0
    MaxMoney = 1
SPECIFICATION Spec
SYMMETRY Symmetry
INVARIANTS AcceptedStands DealAsAgreed
PROPERTIES AllChangesHands
CHECK_DEADLOCK FALSE
