SPECIFICATION Spec
CHECK_DEADLOCK FALSE
CONSTANTS
    c1 = c1
    c2 = c2
    s1 = s1
    s2 = s2
    p1 = p1
    p2 = p2
    None = None
    Conns = {c1, c2}
    Srcs = {s1, s2}
    Ports = {p1, p2}
    Setups <- MCSetups
    maxConns = 1
    ipConnLimit = 1
    MaxBuckets = 1
    SweepEvery = 2
    CredsLimit = 1
    LoginRounds = 2
INVARIANTS
    LoginRecorded
