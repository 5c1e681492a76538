CONSTANTS
    a = a
    b = b
    Ids = {a, b}
    None = None
    MuxModes <- AllModes
    IdleTimeout = TRUE
    MaxPackets = 3
    MaxPrompts = 1
SYMMETRY IdSymmetry
SPECIFICATION Spec
INVARIANTS
    RegistryIsExact
    TimerSparesSessions
    EverySessionIsAnswered
CHECK_DEADLOCK FALSE
