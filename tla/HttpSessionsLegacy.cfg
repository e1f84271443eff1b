SPECIFICATION LockedSpec
CONSTANTS
    Call = {c1, c2, c3}
    Payload <- MCPayload
    Ttl = 1
    MaxTime = 2
    Tenant = {a, b}
    None = None
    SessionTtl = 3
    Spare = 1
    MaxSessions = 1
    SessionMaxTime = 3
SYMMETRY MCSymmetry
INVARIANT LegacyAnswered
CHECK_DEADLOCK FALSE
