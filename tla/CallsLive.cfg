CONSTANTS
    a1 = a1  b1 = b1  b2 = b2
    A = A  B = B
    Device <- MCDevice
    User <- MCUser
    Owner <- MCOwner
    CallId = {k1}
    ClientId = {i1}
    None = None
    InviteTTL = 1
    MaxPending = 2
    MaxRecent = 2
    RateWindow = 2
    MaxTime = 3
SPECIFICATION FairSpec
PROPERTY RingingResolves
CHECK_DEADLOCK FALSE
