CONSTANTS
    Kinds <- BoxKinds
    Profile <- BoxProfile
    DeleteOrder <- BoxDelete
    Actionable <- BoxActionable
    Holds <- BoxHolds
    Blocks <- BoxBlocks
    Needs <- BoxNeeds
    Undoable = {}
    HasBaseline = FALSE
    Losses = FALSE
    MaxFaults = 2
SPECIFICATION Spec
INVARIANT FailedLeavesNothing
CHECK_DEADLOCK FALSE
