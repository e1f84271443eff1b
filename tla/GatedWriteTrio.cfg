SPECIFICATION Spec
CONSTANTS
    Call = {c1, c2}
    Tenant <- MCTenant
    Instance <- MCInstance
    Entity <- MCEntity
    Field = {"f"}
    Cred <- MCCred
    FullTenant <- MCFull
    Scope <- MCScope
    Configured <- MCInstance
    DefaultInstance = "i1"
    AllowedEntity <- MCAllowed
    WritesEnabled = TRUE
    OverrideAllowed = TRUE
    Pooled = "pooled"
    Fp <- MCFp
    Omit = Omit
    Omitted = Omit
    Throttling = FALSE
    AuditFaults = FALSE
    Requests <- MCMixed
    Metadata <- MCMetadata
    Ttl = 1
    MaxTime = 1
    MaxRestarts = 0
SYMMETRY MCSymmetry
PROPERTIES TrioHonoursLive
CHECK_DEADLOCK FALSE
