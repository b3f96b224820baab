SPECIFICATION Spec
CONSTANTS
    p1 = p1
    p2 = p2
    r1 = r1
    r2 = r2
    r3 = r3
    r4 = r4
    none = none
    Plan = {p1, p2}
    Receipt = {r1, r2, r3, r4}
    NoPlan = none
    NoReceipt = none
    Unset = "unset"
    RosterState = {"unset", "on_demand", "archived"}
    External <- Beside
    MaxScans = 3
    MaxPurges = 1
INVARIANTS
    Accounted
    Recoverable
    PlanMatchesReceipt
    StaleIsRefused
SYMMETRY Interchangeable
CHECK_DEADLOCK FALSE
