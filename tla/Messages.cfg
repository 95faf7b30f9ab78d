SPECIFICATION Spec
CONSTANTS
    a = a  b = b  c = c
    A = A  B = B  C = C
    na = na  nb = nb
    Device = {a, b, c}
    User = {A, B, C}
    Chat = {g1}
    Nickname = {na, nb}
    ClientId = {i1}
    None = None
    Owner <- MCOwner
    Named <- MCNamed
    Page = 1
    Attempts = 3
    MaxLog = 2
    MaxChanges = 2
INVARIANTS
    NoDeviceLeftOut
    InboxHasNoGaps
    RetryIsAnswered
    HeardOnce
PROPERTIES
    NewIsUnread
    AnswersAreForTheToken
SYMMETRY MCSwap
CHECK_DEADLOCK FALSE
