CONSTANTS
    a = a
    b = b
    Ids = {a}
    None = None
    MuxModes <- AllModes
    IdleTimeout = TRUE
    MaxPackets = 3
    MaxPrompts = 1
SPECIFICATION FairSpec
PROPERTIES
    ConnectionEnds
    IdleConnectionCloses
CHECK_DEADLOCK FALSE
