SPECIFICATION Spec
CONSTANTS
    conn = conn
    cred = cred
    system = system
    DataKinds <- MCDataKinds
    System = system
    Cred = cred
    NonBlocking = {cred}
    Loose = {conn}
    SourceStamped = {}
    DrainOrder <- MCDrainOrder
    CleanOrder <- MCCleanOrder
    Cap = 2
    BatchSize = 2
    DeleteLimit = 1
    RetentionDays = 1
    CredRetentionDays = 0
    CopySpan = 0
    ReqCap = 2
    EarlyCancel = FALSE
    MaxEvents <- MCBoth
    MaxReports = 1
    MaxTime = 1
    MaxFaults = 1
    MaxBoots = 2
    MaxJobs = 0
INVARIANTS
    DrainIsComplete
PROPERTIES
    ImplementsEventLog
