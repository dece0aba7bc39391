CONSTANTS
    Calls = {c1, c2}
    Callers = {k1}
    Pids = {n1}
    LaunchFaults = 3
    MaxRemovals = 2
    GateFaults = 4
    Leaves = {"leaf"}
    MaxBirths = 2
    MaxReplacements = 1
    MaxReboots = 1
    IdentityFaults = 1
    None = None
SPECIFICATION Spec
INVARIANT VerifiedExit
CHECK_DEADLOCK FALSE
