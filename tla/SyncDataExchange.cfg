SPECIFICATION Spec
CONSTANTS
    Solvers <- MCSolvers
    Vars <- TwoVars
    MaxNSols = 3
    MaxCandSols = 4
    SolLists <- SomeSols
    BoundLists <- FewBoundLists
INVARIANTS BuffersMatch SolutionsAreBest OthersReceived BoundsAreTightest
