SPECIFICATION FairSpec
CONSTANTS
    conn = conn
    cred = cred
    system = system
    DataKinds = {cred}
    System = system
    Cred = cred
    NonBlocking = {}
    Loose = {}
    SourceStamped = {}
    DrainOrder <- MCDrainOne
    CleanOrder <- MCCleanOne
    Cap = 1
    BatchSize = 2
    DeleteLimit = 1
    RetentionDays = 0
    CredRetentionDays = 1
    CopySpan = 0
    ReqCap = 1
    EarlyCancel = FALSE
    MaxEvents <- MCOneKind
    MaxReports = 0
    MaxTime = 3
    MaxFaults = 0
    MaxBoots = 1
    MaxJobs = 1
PROPERTIES
    ShutdownTerminates
    EventuallyStored
