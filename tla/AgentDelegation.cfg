SPECIFICATION FairSpec
CONSTANTS
    turn = turn
    left = left
    right = right
    leaf = leaf
    p1 = p1
    p2 = p2
    NoProvider = NoProvider
    Callers <- AllRuns
    Providers <- TwoProviders
    MaxConcurrency <- OnePermitEach
    MaxGlobal = 1
    Routes <- MixedRoutes
    Streaming = {turn, left}
    MaxErrors = 1
    ChildrenOf <- FamilyOfTwo
    Turns = {turn}
    MaxAgents = 2
    PerDelegation = 2
    MaxIterations <- Iterations
INVARIANTS TypeOK Accounted BatchFaithful
PROPERTY AllEnd
CHECK_DEADLOCK FALSE
