SPECIFICATION Spec
CONSTANTS
    conn = conn
    cred = cred
    system = system
    DataKinds <- MCDataKinds
    System = system
    Cred = cred
    NonBlocking = {cred}
    Loose = {}
    SourceStamped = {conn}
    DrainOrder <- MCDrainOrder
    CleanOrder <- MCCleanOrder
    Cap = 1
    BatchSize = 2
    DeleteLimit = 1
    RetentionDays = 1
    CredRetentionDays = 2
    CopySpan = 0
    ReqCap = 1
    EarlyCancel = FALSE
    MaxEvents <- MCConnOnly
    MaxReports = 0
    MaxTime = 3
    MaxFaults = 1
    MaxBoots = 1
    MaxJobs = 1
INVARIANTS
    WriterInv
PROPERTIES
    ImplementsEventLog
