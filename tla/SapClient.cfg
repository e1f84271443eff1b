SPECIFICATION FairSpec
CONSTANTS
    Task = {t1, t2}
    MaxRetries = 1
    CsrfTtl = 1
    MaxRotations = 2
    MaxTime = 1
INVARIANTS TypeOK AtMostOnce RefusedTokenDropped
PROPERTIES RetriesRunOut ImplementsRemoteWrite EveryWriteReturns
CHECK_DEADLOCK FALSE
