CONSTANTS
    Kinds <- CtrKinds
    Profile <- CtrProfile
    DeleteOrder <- CtrDelete
    Actionable <- CtrActionable
    Holds <- CtrHolds
    Blocks <- CtrBlocks
    Needs <- CtrNeeds
    Undoable <- CtrUndoable
    HasBaseline = TRUE
    Losses = FALSE
    MaxFaults = 1
SPECIFICATION FairSpec
PROPERTY EveryRemoveSettles
CHECK_DEADLOCK FALSE
