CONSTANTS
    u1 = u1
    reader = reader
    None = None
    Users = {u1}
    Roles = {reader}
    PermitAny = {}
    Periods <- TwoPeriods
    MaxRequests = 2
    MaxTime = 3
    MaxFaults = 1
SPECIFICATION FairSpec
INVARIANTS
    TypeOK
    OneDecision
PROPERTIES
    DecisionsStand
    RoleWithinWindow
    NoFalseWarning
    RolesSettle
    RequestsClose
CHECK_DEADLOCK FALSE
