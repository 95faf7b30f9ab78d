CONSTANTS
    Device = {d1, d2}
    Nonce = {n1, n2}
    TTL = 1
    Skew = 1
    MaxTime = 3
    MaxSigned = 2
SYMMETRY MCSymmetry
SPECIFICATION Spec
INVARIANTS
    AcceptedOnceWhileFresh
    FirstDeliveryIsNoReplay
CHECK_DEADLOCK FALSE
