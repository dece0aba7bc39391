CONSTANTS
    Sandboxes = {sb}
    Containers = {c}
    Box = sb
    Ctr = c
    BoxBy = b
    MadeBy = m
    StartOps = {s1}
    KillOps = {k1}
    StopOps = {t1}
    Ops = {b, m, s1, k1, t1}
    Specs = {p1}
    None = None
    HostErrors = FALSE
    Grace = 1
    MaxTime = 2
    MaxFaults = 1
SPECIFICATION EngineSpec
INVARIANT RestartCoversStages
CHECK_DEADLOCK FALSE
