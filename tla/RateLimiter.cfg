CONSTANTS
    Key = {k1, k2}
    Caller = {a, b}
    None = None
    Requests = 2
    PerToken = 2
    Window = 4
    MaxSkew = 1
    MaxTime = 8
SPECIFICATION Spec
SYMMETRY Symmetric
INVARIANTS
    TypeOK
    BudgetHolds
    MapForgets
PROPERTIES
    RefinesTokenBucket
CHECK_DEADLOCK FALSE
