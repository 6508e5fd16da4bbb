SPECIFICATION Spec
CONSTANTS
    Solvers <- TwoSolvers
    NSyncdata = 4
    MaxDelay = 1
    Statuses <- OptimalOnly
    AtomicWait = TRUE
    MaxSyncs = 12
PROPERTIES NoUnreadReuse
