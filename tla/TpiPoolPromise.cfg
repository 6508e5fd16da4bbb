SPECIFICATION FairSpec
CONSTANTS
    Workers = {w1, w2}
    Clients = {c1}
    Jobs = {j1, j2, j3}
    NULL = NULL
    QueueSize = 2
    BlockWhenFull = TRUE
    OverlapIds = FALSE
    Retcodes <- MCRetcodes
PROPERTIES ImplementsJobPool CollectReturns ExitReturns
