CONSTANTS
    u1 = u1
    r1 = r1
    r2 = r2
    c1 = c1
    p1 = p1
    h1 = h1
    Users = {u1}
    Roles = {r1, r2}
    Cmds = {c1}
    Passwords = {p1}
    Hashes = {h1}
    HashedFrom <- MCHashedFrom
    NoRow = NoRow
    NoUser = NoUser
    NoRole = NoRole
    NoVersion = NoVersion
    InitialDatabases <- MCInitialDatabases
    Triggers = TRUE
    Swallowed = {}
    MaxChanges = 2
    MaxFaults = 2
SPECIFICATION PollSpec
INVARIANTS
    AckedIsCurrent
PROPERTIES
    EventuallyConsistent
    PublishesCopies
