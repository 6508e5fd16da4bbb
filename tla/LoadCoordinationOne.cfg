SPECIFICATION Spec
CONSTANTS
    N = 1
    Leaves <- ThreeLeaves
    Value <- ThreeValues
    Bound <- ThreeBounds
    SyncModes <- BothModes
    MayTimeOut = TRUE
    Reasks = FALSE
INVARIANTS CheckpointCovers NoneBetterKilled SyncedAnswerIsOptimal SolutionKept Conversation AgreeOnNode
CHECK_DEADLOCK FALSE
PROPERTIES Returns
