SPECIFICATION Spec
CONSTANTS
    MaxU32 = 100000000
    Executor = {e1, e2}
    None = None
    Honest = {e1}
    HonestVerifier = {2, 3}
    Golden = 16384
    Wrong = {39321, 32256}
    Start = 32
    Bond = 16
    Stake = 5
    VerifierStake = 50
    Window = 2
    MinRep = 50
    Gain = 20
    MinBps = 10000
    DisputeBps = 5000
    MaxTask = 2
    MaxEpoch = 3
    MaxResults = 2
    MaxDisputes = 2
    MaxFaults = 1
INVARIANTS
    ValueConserved
    EscrowConsistent
    HonestAreSafe
    VerdictAppliedOnce
PROPERTY CoveredWhileBonded
CHECK_DEADLOCK FALSE
