SPECIFICATION Spec
CONSTANTS
    Vars <- TwoVars
    InLP <- ColumnVars
    Bounds <- ThreeBounds
    Handlers <- ThreeHandlers
    VarOf <- ThreeVar
    CatchTypes <- ThreeTypes
    MaxChanges = 4
    MaxEdits = 4
INVARIANTS QueueCurrent LPCurrent ViewCurrent SlotsAccounted
