SPECIFICATION FairSpec
CONSTANTS
    Solvers <- TwoSolvers
    NSyncdata = 4
    MaxDelay = 1
    Statuses <- OptimalOnly
    AtomicWait = FALSE
    MaxSyncs = 2
PROPERTIES AllReturn
