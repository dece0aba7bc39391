CONSTANTS
    Callers = {c1, c2, c3}
    Keys = {k1, k2}
    Entries = {e1, e2, e3}
    None = None
    Daemons = {d1, d2}
    Foreign = Foreign
    MaxSockets = 3
    MaxForeign = 2
    MaxFaults = 2
    Calls = {r1, r2}
    Sandboxes = {sb1}
    Containers = {c5}
    Ops = {o1, o2, o3, o4}
    Specs = {p1}
SPECIFICATION DaemonSpec
INVARIANT CleanExitIsComplete
PROPERTY IsMutex
PROPERTY NameIsServed
PROPERTY Ends
PROPERTY IntentsSettle
CHECK_DEADLOCK FALSE
