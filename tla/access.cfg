CONSTANTS
    u1 = u1
    r1 = r1
    r2 = r2
    Users = {u1}
    Requests = {r1, r2}
    None = None
    Ended = Ended
    AdminCacheTTL = 1
    SessionTimeOut = 1
    MaxSkewSeconds = 1
    NonceTTL = 2
    CallTimeout = 1
    ReadTimeout = 1
    MaxNonceCount = 1
    Enforce = FALSE
    MaxTime = 4
    PageTime = 2
    MaxChanges = 1
    MaxFaults = 1
SPECIFICATION MCSpec
INVARIANTS
    TypeOK
    HandledOnce
    RevokedIsRefused
PROPERTIES
    AdminIsCurrent
    PageFollowsAccount
CHECK_DEADLOCK FALSE
