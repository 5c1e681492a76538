CONSTANTS
    u1 = u1
    u2 = u2
    r1 = r1
    r2 = r2
    c1 = c1
    p1 = p1
    p2 = p2
    h1 = h1
    h2 = h2
    g1 = g1
    g2 = g2
    g3 = g3
    Users = {u1, u2}
    Roles = {r1, r2}
    Cmds = {c1}
    Passwords = {p1, p2}
    Hashes = {h1, h2}
    HashedFrom <- MCHashedFrom
    NoRow = NoRow
    NoUser = NoUser
    NoRole = NoRole
    Handlers = {g1, g2}
    NoHandler = NoHandler
    NoRequest = NoRequest
    Miss = Miss
    Kinds = {"author"}
    Published <- RoleSnapshots
    MaxRefreshes = 1
SPECIFICATION FairSpec
INVARIANTS
    PermitWasGranted
    AuthorExactWhenQuiet
    CommandCacheAgrees
PROPERTIES
    RequestsComplete
