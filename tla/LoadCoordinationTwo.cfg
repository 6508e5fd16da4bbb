SPECIFICATION Spec
CONSTANTS
    N = 2
    Leaves <- TwoLeaves
    Value <- TwoValues
    Bound <- TwoValues
    SyncModes <- Waited
    MayTimeOut = FALSE
    Reasks = FALSE
INVARIANTS SyncedAnswerIsOptimal
CHECK_DEADLOCK FALSE
