SPECIFICATION BoundedSpec
CONSTANTS
    src = src
    lib = lib
    link = link
    cfg = cfg
    far = far
    A = A
    B = B
    C = C
    D = D
    L = L
    N = N
    T = T
    U = U
    absent = absent
    none = none
    r1 = r1
    r2 = r2
    r3 = r3
    Path <- MCPath
    Content <- MCContent
    Missing = absent
    Torn = T
    NoReceipt = none
    InitTree <- MCTree
    Device <- MCDevice
    StateDevice = "home"
    Projected <- Package
    MaxOps = 2
    Template <- AllPlans
    Foreign <- Visitor
    MaxReady = 1
    MaxEdits = 2
    MaxFaults = 2
    Receipt = {r1, r2, r3}
INVARIANTS
    NoContentLost
PROPERTIES
    WriteAhead
    Implements
    CommandEnds
    DriftFailsClosed
CHECK_DEADLOCK FALSE
