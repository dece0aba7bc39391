CONSTANTS
    Kinds <- CtrKinds
    Profile <- CtrProfile
    DeleteOrder <- CtrDelete
    Actionable <- CtrActionable
    Holds <- CtrHolds
    Blocks <- CtrBlocks
    Needs <- CtrNeeds
    Undoable <- CtrUndoable
    HasBaseline = TRUE
    Losses = TRUE
    MaxFaults = 5
    AttemptFaults = 4
    Attempts = {a1, a2}
    Requested <- OnePage
    PageSize = 4
    Bits = 27
    MaxKills = 1
    TreeFaults = 2
    StackFaults = 2
    Parent = parent
    Keeper = keeper
    Root = root
    Names = {n1, n2, n3}
    Runners = {r1, r2}
SPECIFICATION ResourcesSpec
INVARIANT RemovalsAreOrdered
INVARIANT LimitsAreEnforced
PROPERTY CreateIsAllOrNothing
PROPERTY CreateIsSettled
PROPERTY RemoveIsSettled
CHECK_DEADLOCK FALSE
