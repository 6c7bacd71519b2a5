SPECIFICATION ServicesSpec
CONSTANTS
    Focuses = {"log", "kmsg", "learn", "banned", "geo", "disk", "hub", "push"}
    a = a
    b = b
    x = x
    c1 = c1
    c2 = c2
    Clients = {c1, c2}
    MaxConns = 1
    SendCap = 1
    MaxFrames = 2
    SysLimit = 2
    MaxRows = 3
    MaxQueryFails = 1
    LineKinds <- MCLines
    MaxBackoff = 3
    ReportEvery = 3
    PipeCap = 2
    SinkCap = 1
    MaxDeaths = 3
    RingSize = 2
    MaxSeq = 6
    Addresses = {a, b}
    Internal <- MCInternal
    ExcludeIPs = {}
    Window = 1
    MaxLearnFails = 1
    V4 = {a, b}
    V6 = {x}
    MaxTime = 1
    MaxProbeFails = 1
    MaxVersion = 3
    MaxGeoFails = 3
    MaxLosses = 1
    Warn = 80
    Critical = 90
    Emergency = 95
    Usages = {79, 80, 90, 94, 95}
    RepeatEvery = 2
CHECK_DEADLOCK FALSE
INVARIANTS
    LinesComeOnce
    FilterInv
    BannedInv
    GeoInv
    DiskInv
    SlotPerHandler
    FramesInOrder
    NoneSkipped
PROPERTIES
    NoEventDropped
    EndsAreReported
    ReadersReturn
    LoginLearned
    BanListed
    NewVersionArrives
    SlotsComeBack
    CountedOnce
    EveryRowPushed
