SPECIFICATION MCSpec
CONSTANTS
    mine = mine
    linked = linked
    other = other
    A = A
    B = B
    official = official
    local = local
    gone = gone
    Placement <- MCPlacement
    Candidates <- MCCandidates
    Package <- MCPackage
    Home <- MCHome
    Links <- MCLinks
    Asked <- MCAsked
    Revision <- MCRevision
    Text <- MCText
    Gone = gone
    MaxEdits = 1
    MaxScans = 2
    MaxPlans = 2
INVARIANT EverySuccessHasReceipt
CHECK_DEADLOCK FALSE
