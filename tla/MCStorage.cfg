CONSTANTS
    Daemons = {d1, d2}
    NoFile = NoFile
    Ids = {a, b, c, d}
    Sandboxes = {s}
    Containers = {t}
    Streams = {stdout, stderr}
    Tails = {r1}
    Calls = {c1, c2}
    Scans = {x1, x2}
    MaxVersion = 5
    FileFaults = 5
    TerminalLimit = 1
    IdentityLimit = 4
    EventLimit = 2
    MaxEvents = 6
    Sizes = {1, 2}
    MaxFrames = 2
    DeathFaults = 4
    PowerFaults = 3
    MaxOwners = 2
    MaxReads = 3
    Restarts = 1
    None = None
SPECIFICATION Spec
SYMMETRY Symmetry
INVARIANT RetentionIsSafe
INVARIANT CommittedLasts
INVARIANT LogsAreFound
PROPERTY ImplementsRegister
PROPERTY NothingMissed
CHECK_DEADLOCK FALSE
