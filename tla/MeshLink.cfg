SPECIFICATION FairLinkSpec
CONSTANTS
    Node = {1, 2}
    MaxFaults = 2
INVARIANTS
    SilentIsDead
    NoFalseAlarm
PROPERTIES
    Settles
