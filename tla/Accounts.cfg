CONSTANTS
    Device = {d1, d2, d3}
    User = {A, B}
    Nickname <- MCNickname
    None = None
    CodeTTL = 0
    Prefix = 1
    MaxTime = 1
SYMMETRY MCSymmetry
SPECIFICATION Spec
INVARIANTS
    NicknamesApart
PROPERTIES
    LastDeviceStays
    CodeMovesOneDevice
    NamesFollowAccounts
CHECK_DEADLOCK FALSE
CONSTANT MaxCodes = 2
