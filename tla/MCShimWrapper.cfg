CONSTANTS
    Connections = {n1, n2, n3}
    RequestIDs = {q1, q2, q3, q4}
    Commands = {m1, m2}
    None = None
    CacheLimit = 3
    MaxFaults = 2
    MaxLives = 2
SPECIFICATION Spec
SYMMETRY Symmetry
INVARIANT TerminalTruthful
INVARIANT ReplayExact
INVARIANT ReportedIsCommitted
PROPERTY SignalsReachTheWorkload
CHECK_DEADLOCK FALSE
