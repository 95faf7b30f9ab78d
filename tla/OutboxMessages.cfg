CONSTANTS
    Kind = "direct_message"
    Worker = {w1}
    Token = {t1}
    None = None
    MaxEvents = 2
    Pool = 1
    Lease = 1
    TTL = 1
    MaxDelay = 1
    MaxGen = 1
    MaxRegs = 0
    MaxTime = 2
SPECIFICATION FairSpec
PROPERTIES NewestAlertSurvives Drained
CHECK_DEADLOCK FALSE
