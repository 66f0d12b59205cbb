CONSTANTS
    p1 = p1  p2 = p2  p3 = p3
    m1 = m1  m2 = m2
    i1 = i1  i2 = i2
    None = None
    Sweeper = Sweeper
    Players <- Three
    MapOf <- Together
    Items <- OneItem
    Gold = 2
    MaxMoney = 5
    Postage = 1
    Deposit = 1
    StartBid = 1
    Prices = {1, 2}
    Sums = {0, 1}
    Cods = {0, 1}
    Buyouts = {0, 2}
    MaxMails = 2
    MaxLots = 1
    MaxMoves = 1
    MaxCrashes = 1
SPECIFICATION Spec
SYMMETRY Symmetry
INVARIANTS ReturnedIsKept Conserved LastWord
PROPERTIES PaidFor EndsFairly
CHECK_DEADLOCK FALSE
