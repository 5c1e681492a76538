CONSTANTS
    u1 = u1
    q1 = q1
    q2 = q2
    Users = {u1}
    Requests = {q1, q2}
    None = None
    PasswordTimeout = 1
    MaxTime = 2
    MaxFaults = 1
SPECIFICATION FairSpec
INVARIANTS
    FailuresBounded
PROPERTIES
    DisabledStays
    StatusFollowsPassword
CHECK_DEADLOCK FALSE
