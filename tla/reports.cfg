SPECIFICATION ReportsSpec
CONSTANTS
    p = p
    q = q
    r = r
    s = s
    agentA = agentA
    agentB = agentB
    none = none
    dirP = dirP
    dirQ = dirQ
    dirR = dirR
    dirS = dirS
    one = one
    two = two
    NoSource = none
    NoRevision = none
    Placements <- ThePlacements
    Agents = {agentA, agentB}
    Similar <- TheSimilar
    LargeRoster = 1
    FirstView = 3
    Disks <- TheDisks
    Standing = {one}
    RootsAt <- TheRoots
    FirstTargets = 1
    PageLimit = 1
    Opened = {"escaping_links", "duplicates", "same_name"}
    MaxScans = 3
    MaxEdits = 1
    MaxPolicies = 1
INVARIANTS
    EveryTargetAsked
    ContinuityHolds
    PlansAreCurrent
    ViewsShowAll
CHECK_DEADLOCK FALSE
