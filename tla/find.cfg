SPECIFICATION MCSpec
CONSTANTS
    p = p
    q = q
    r = r
    dirP = dirP
    dirQ = dirQ
    dirR = dirR
    away = away
    gone = gone
    dangling = dangling
    unreadable = unreadable
    NameOrder <- TheOrder
    PoolLimit = 4
    Placements <- ThePlacements
    ByDefault = {q}
    ApprovedDirs = {dirP, dirQ, dirR}
    Outside <- TheOutside
    Gone = gone
    Dangling = dangling
    Unreadable = unreadable
    Unknown = 0
    Starts <- TheStarts
    Contents <- TheContents
    Searches <- TheRequests
    MaxEdits = 1
    MaxTurns = 3
INVARIANTS
    LoadedWasThere
    NoSilentChoice
    LoadsWhatWasShown
    TaskMatchStays
CHECK_DEADLOCK FALSE
