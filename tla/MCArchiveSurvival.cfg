SPECIFICATION Spec
CONSTANTS
    r1 = r1
    r2 = r2
    r3 = r3
    Rows <- MCRows
    MonthOf <- MCMonthOf
    TableOf <- MCTableOf
    NTables = 2
    NoFile = NoFile
    Half = Half
    CopyAfter = 1
    Window = 2
    Retain = 2
    ReqCap = 2
    MaxTime = 3
    MaxFaults = 1
    MaxLosses = 0
INVARIANTS
    ArchivedSurvives
