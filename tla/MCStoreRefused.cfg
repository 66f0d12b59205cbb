SPECIFICATION Spec
CONSTANTS
    c1 = c1
    c2 = c2
    r1 = r1
    Absent = Absent
    Chars <- MCChars
    Records <- NoRecords
    Refused <- MCRefused
    MaxBatch = 3
    MaxKept = 2
    BusyTries = 2
    DiskSteadyAlone = TRUE
    MaxGuid = 3
    MaxAsks = 1
    MaxQueue = 3
    MaxCrashes = 0
INVARIANTS NewestHeld
PROPERTIES RowsNeverGoBack KeptIsWritten
