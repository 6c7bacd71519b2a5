SPECIFICATION Spec
CONSTANTS
    conn = conn
    cred = cred
    system = system
    DataKinds <- MCDataKinds
    System = system
    Cred = cred
    NonBlocking = {cred}
    Loose = {}
    SourceStamped = {conn}
    DrainOrder <- MCDrainOrder
    CleanOrder <- MCCleanOrder
    Cap = 2
    BatchSize = 2
    DeleteLimit = 1
    RetentionDays = 1
    CredRetentionDays = 0
    CopySpan = 0
    ReqCap = 2
    EarlyCancel = TRUE
    MaxEvents <- MCOneOfEach
    MaxReports = 0
    MaxTime = 1
    MaxFaults = 0
    MaxBoots = 1
    MaxJobs = 0
INVARIANTS
    ClosedIsDurable
