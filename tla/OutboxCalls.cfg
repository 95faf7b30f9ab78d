CONSTANTS
    Kind = "call_invite"
    Worker = {w1, w2}
    Token = {t1, t2}
    None = None
    MaxEvents = 1
    Pool = 1
    Lease = 1
    TTL = 1
    MaxDelay = 1
    MaxGen = 1
    MaxRegs = 1
    MaxTime = 2
SPECIFICATION Spec
SYMMETRY MCSymmetry
INVARIANTS SingleFlight BlockedIsParked
PROPERTIES RotationRetains InvalidationIsEarned EndpointIsProven
CHECK_DEADLOCK FALSE
