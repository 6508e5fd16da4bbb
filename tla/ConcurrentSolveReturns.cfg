SPECIFICATION FairConcSpec
CONSTANTS
    Solvers <- TwoSolvers
    NSyncdata = 4
    MaxDelay = 1
    Statuses <- LimitOrOptimal
    AtomicWait = TRUE
    MaxSyncs = 7
    MaxSolves = 2
INVARIANTS WinnerIfSpread
PROPERTIES SolveReturns
