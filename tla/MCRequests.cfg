SPECIFICATION MCRequestsSpec
CONSTANTS
    Paths <- MCPaths
    HeavyPaths <- MCHeavy
    StatsPaths <- MCStats
    MaxConcurrency = 2
    StatsSlots = 2
    HeavyBurst = 2
    MaxSeq = 1
    summary = summary
    ssh = ssh
    ports = ports
INVARIANTS
    RequestsInv
PROPERTIES
    RefusedForOthers
    EveryRequestAnswered
