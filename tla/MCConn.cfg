SPECIFICATION FairSpec
CHECK_DEADLOCK FALSE
CONSTANTS
    k1 = k1
    k2 = k2
    estab = estab
    closing = closing
    gone = gone
    Groups = {"new", "destroy"}
    BufStart = 1
    BufMax = 2
    StartFails = 2
    SinkCap = 1
    Keys = {k1, k2}
    States = {estab, closing}
    Gone = gone
    MaxEvents = 2
    MaxSnaps <- MCMaxSnaps
INVARIANTS
    ConnInv
    CountedWereDropped
    PresenceIsReplayed
PROPERTIES
    WarningsHaveACause
    DegradesWhenDenied
    ChannelStops
