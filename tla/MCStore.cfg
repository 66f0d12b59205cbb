SPECIFICATION Spec
CONSTANTS
    c1 = c1
    c2 = c2
    r1 = r1
    Absent = Absent
    Chars <- OneChar
    Records <- MCRecords
    Refused <- NoRefused
    MaxBatch = 2
    MaxKept = 3
    BusyTries = 2
    DiskSteadyAlone = TRUE
    MaxGuid = 3
    MaxAsks = 2
    MaxQueue = 2
    MaxCrashes = 1
INVARIANTS GuidsNeverReused DeletedStaysDeleted LoginsWait
PROPERTIES Implements TogetherWhole
