SPECIFICATION Spec
CONSTANTS
    c1 = c1  c2 = c2
    s1 = s1  s2 = s2  s3 = s3
    copy = copy  world = world  island = island
    None = None  No = No
    Chars <- OneChar
    Sessions <- OneSession
    Copies <- OneCopy
    Worlds <- OneWorld
    HasLinger = TRUE
    CanShutdown = TRUE
    CanReset = TRUE
    MaxStarts = 2
    MaxVersion = 1
    MaxLogins = 1
    MaxKicks = 0
    MaxMail = 0
    MaxMoves = 2
INVARIANTS OnePlaceUnraced OnlineUnraced SavedUnraced NoLimbo
PROPERTIES ShutdownSaves
CHECK_DEADLOCK FALSE
