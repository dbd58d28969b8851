\* A client goes away during one request; no crash, no failing write.
CONSTANTS
    p1 = p1
    p2 = p2
    w1 = w1
    w2 = w2
    hook = hook
    skill = skill
    mine = mine
    a1 = a1
    a2 = a2
    b1 = b1
    c1 = c1
    NoContent = NoContent
    Packs <- TwoPacks
    Versions = {1, 2}
    Resources <- BothResources
    Order <- HookThenSkill
    ResourcesOf <- Shared
    Content <- Payloads
    Before <- Untouched
    Executable <- Hooks
    Workspaces <- OneWorkspace
    MaxTx = 3
    MaxCrashes = 0
    MaxFaults = 0
    MaxDrops = 1
SPECIFICATION SpecWithDrops
INVARIANT CommitsAsOne
CHECK_DEADLOCK FALSE
