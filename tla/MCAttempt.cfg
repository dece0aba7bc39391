CONSTANTS
    Sandboxes = {sb}
    Containers = {c}
    Box = sb
    Ctr = c
    BoxBy = b
    MadeBy = m
    StartOps = {s1, s2}
    KillOps = {k1}
    StopOps = {t1}
    Ops = {b, m, s1, s2, k1, t1}
    Specs = {p1}
    None = None
    HostErrors = TRUE
    Grace = 2
    MaxTime = 4
    MaxFaults = 2
    Users = {u1, u2}
    IDs = {i1, i2}
    Links = {x1, x2}
    Retries = 1
    MaxCalls = 2
SPECIFICATION AttemptSpec
INVARIANT StagesBacked
INVARIANT EscalationAfterGrace
INVARIANT AnswersAreExact
PROPERTY RecordFollowsWorkload
CHECK_DEADLOCK FALSE
