CONSTANTS
    Width = 2
    RekeyEvery = 6
    HardCap = 8
    NonceRange = 8
    CtrRange = 8
    MaxEpoch = 0
    Uptime = 3
    MaxRestarts = 2
SPECIFICATION RestartSpec
PROPERTY HeardAgain
CHECK_DEADLOCK FALSE
