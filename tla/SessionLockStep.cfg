CONSTANTS
    Width = 2
    RekeyEvery = 3
    HardCap = 4
    NonceRange = 4
    CtrRange = 8
    MaxEpoch = 1
SPECIFICATION TrafficSpec
INVARIANT NewestFrameAuthentic
CHECK_DEADLOCK FALSE
