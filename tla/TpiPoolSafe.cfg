SPECIFICATION Spec
CONSTANTS
    Workers = {w1, w2, w3}
    Clients = {c1, c2}
    Jobs = {j1, j2, j3, j4}
    NULL = NULL
    QueueSize = 2
    BlockWhenFull = FALSE
    OverlapIds = FALSE
    Retcodes <- MCRetcodes
SYMMETRY Symmetry
INVARIANTS TypeOK NoFault PointersExact WakeupsSuffice NoJobAbandoned
PROPERTIES CollectComplete
