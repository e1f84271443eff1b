SPECIFICATION Spec
CONSTANTS
    Call = {c1, c2, c3}
    Tenant <- MCTenant
    Instance <- MCInstance
    Entity <- MCEntity
    Field = {"f"}
    Cred <- MCCred
    FullTenant <- MCFull
    Scope <- MCScope
    Configured <- MCInstance
    DefaultInstance = "i1"
    AllowedEntity <- MCAllowed
    WritesEnabled = TRUE
    OverrideAllowed = TRUE
    Pooled = "pooled"
    Fp <- MCFp
    Omit = Omit
    Omitted = Omit
    Throttling = TRUE
    AuditFaults = TRUE
    Requests <- MCAll
    Metadata <- MCMetadata
    Ttl = 1
    MaxTime = 1
    MaxRestarts = 1
SYMMETRY MCSymmetry
INVARIANTS TypeOK OneWritePerValidation AuditTellsTruth WritesMatchValidation WritesStayInScope
PROPERTIES RefusalKeepsApproval ImplementsPromises
CHECK_DEADLOCK FALSE
