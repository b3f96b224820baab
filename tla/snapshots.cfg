SPECIFICATION MCSpec
CONSTANTS
    MaxTime = 2
    MonthLength = 2
    MaxScans = 2
    MaxReports = 2
    MaxCount = 2
    MaxFound = 1
    firstLink = firstLink
    secondLink = secondLink
    Linked = {firstLink, secondLink}
    Order <- TheOrder
    Direct = direct
    Local = {local}
    External = external
    NoPackage = NoPackage
    MaxMoves = 3
    MaxGrants = 2
    Clients <- TheClients
    Holders <- TheHolders
    NameOfSkill <- TheNames
    NestedNames <- TheNestedNames
    Old = {one, two}
    Folders <- TheFolders
    MaxDepth = 2
    MaxDiscovered = 2
    MaxSampled = 1
    MaxFileBytes = 3
    MaxAgentBytes = 4
    MaxAgentLines = 3
    Histories <- TheHistories
    MaxChanges = 1
    claude = claude
    codex = codex
    one = one
    two = two
    f = f
    g = g
    top = top
    deep = deep
    tooDeep = tooDeep
INVARIANTS
    UsageRetained
    ReadyReport
    GrantedContentOnly
    ActiveMeansObserved
    UsedIsNotStale
CHECK_DEADLOCK FALSE
