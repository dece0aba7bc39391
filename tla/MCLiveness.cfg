CONSTANTS
    Connections = {n1, n2}
    RequestIDs = {q1, q2, q3}
    Commands = {m1}
    None = None
    CacheLimit = 3
    MaxFaults = 1
    MaxLives = 1
    Box = sb
    Ctr = c
    BoxBy = b
    MadeBy = m
    StartOps = {s1, s2}
    KillOps = {k1}
    StopOps = {t1}
    Specs = {p1}
SPECIFICATION LiveSpec
PROPERTY StartSettles
PROPERTY KillSettles
PROPERTY EndIsRecorded
PROPERTY RequestsAnswered
PROPERTY EndReported
PROPERTY KeepsContract
CHECK_DEADLOCK FALSE
