SPECIFICATION Spec
CONSTANTS
    c1 = c1
    c2 = c2
    r1 = r1
    Absent = Absent
    Chars <- MCChars
    Records <- NoRecords
    Refused <- MCRefused
    MaxBatch = 3
    MaxKept = 3
    BusyTries = 2
    DiskSteadyAlone = FALSE
    MaxGuid = 4
    MaxAsks = 0
    MaxQueue = 3
    MaxCrashes = 0
PROPERTIES RowsNeverGoBack
