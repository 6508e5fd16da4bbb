SPECIFICATION FairSpec
CONSTANTS
    Solvers <- TwoSolvers
    NSyncdata = 5
    MaxDelay = 1
    Statuses <- SomeStatuses
    AtomicWait = FALSE
    MaxSyncs = 8
INVARIANTS TypeOK AssertionsHold WinnerIsBest StoppedAtFirstEnd
PROPERTIES NoUnreadReuse ReadsExact AllReturnUnlessMissed
