CONSTANTS
    a1 = a1  b1 = b1  b2 = b2
    A = A  B = B
    Device <- MCDevice
    User <- MCUser
    Owner <- MCOwner
    CallId = {k1, k2}
    ClientId = {i1, i2}
    None = None
    InviteTTL = 1
    MaxPending = 2
    MaxRecent = 2
    RateWindow = 2
    MaxTime = 3
SYMMETRY MCSymmetry
SPECIFICATION Spec
INVARIANTS
    RingingIsOpen
    ActiveIsExclusive
    TerminalIsQuiet
    NoOverlappingRing
    OneCallPerClientId
    MissedIsStale
PROPERTIES
    Lifecycle
CHECK_DEADLOCK FALSE
