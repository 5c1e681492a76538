CONSTANTS
    None = None
    t1 = t1
    t2 = t2
    r1 = r1
    Templates = {t1, t2}
    Roles = {r1, r2}
    Requests = {q1, q2}
    Applications = {a1, a2}
    InitialRows <- MCInitialRows
    InitialRoles <- MCInitialRoles
    MaxRows = 5
    MaxRequests = 2
    MaxEvents = 2
    MaxBoth = 3
    MaxFaults = 1
    Users = {u1, u2}
    Updates = {main, g1, g2}
    Main = main
    MaxRosters = 2
    MaxLists = 1
    Sources = {s1, s2}
    Accounts = {u1}
    Global = global
    Attempts = {q1, q2}
    Window = 1
    LockFor = 3
    AttemptMax = 1
    GlobalMax = 2
    MaxBuckets = 3
    MaxTime = 4
    MaxAttempts = 4
SPECIFICATION MCSpec
SYMMETRY Symmetry
INVARIANTS
    TypesOK
    UpdatesAgree
    BurstIsBounded
PROPERTIES
    HeldTemplateIsFixed
    WantedRoleIsKept
    AloneKeepsSound
    LockOutLasts
CHECK_DEADLOCK FALSE
