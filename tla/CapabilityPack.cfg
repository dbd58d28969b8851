\* Two packs that share a resource, with crashes and failing writes.
CONSTANTS
    p1 = p1
    p2 = p2
    w1 = w1
    w2 = w2
    hook = hook
    skill = skill
    mine = mine
    a1 = a1
    a2 = a2
    b1 = b1
    c1 = c1
    NoContent = NoContent
    Packs <- TwoPacks
    Versions = {1, 2}
    Resources <- BothResources
    Order <- HookThenSkill
    ResourcesOf <- Shared
    Content <- Payloads
    Before <- Untouched
    Executable <- Hooks
    Workspaces <- TwoWorkspaces
    MaxTx = 3
    MaxCrashes = 2
    MaxFaults = 1
    MaxDrops = 0
SPECIFICATION FairSpec
INVARIANTS
    TypeOK
    InstalledIsWhole
    LiveIsGranted
PROPERTIES
    VersionsSpec
    RecoveryEnds
CHECK_DEADLOCK FALSE
