SPECIFICATION TablesSpec
CONSTANTS
    Call = {c1, c2, c3}
    Instance = {i1, i2}
    Service = {s}
    Ttl = 1
    MaxVersions = 1
    MaxTime = 2
    Skew = 2
    Floor = 2
    Lifetime <- MCLifetime
    TokenMaxTime = 6
    LimitedCall = {l1, l2, l3, l4}
    Key = {k1, k2}
    Mode = "block"
    Window = 1
    Budget = 1
    MaxKeys = 0
    LimiterMaxTime = 3
    Unknown = unknown
SYMMETRY MCSymmetry
INVARIANTS TablesTypeOK StalenessBounded ServedWhileValid BudgetHolds OneClientEach
CHECK_DEADLOCK FALSE
