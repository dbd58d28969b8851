SPECIFICATION Spec
CONSTANTS
    turn = turn
    left = left
    right = right
    leaf = leaf
    p1 = p1
    p2 = p2
    NoProvider = NoProvider
    Callers <- ChainRuns
    Providers <- OneProvider
    MaxConcurrency <- OnePermit
    MaxGlobal = 1
    Routes <- OneRoute
    Streaming = {turn, left}
    MaxErrors = 1
    ChildrenOf <- Chain
    Turns = {turn}
    MaxAgents = 2
    PerDelegation = 2
    MaxIterations <- ChainIterations
PROPERTY NoReplayOfOutput
CHECK_DEADLOCK FALSE
