CONSTANTS
    Width = 2
    RekeyEvery = 2
    HardCap = 3
    NonceRange = 3
    CtrRange = 6
    MaxEpoch = 1
SPECIFICATION Spec
INVARIANTS
    AcceptedOnce
    InWindowAccepted
    NonceFresh
PROPERTY
    ImplementsOnceChannel
CHECK_DEADLOCK FALSE
