SPECIFICATION Safety
CONSTANTS
    Fd = {0, 3, 4, 5, 6, 7}
    Client = {a, b, k}
    UserFd = 4
    MaxUnread = 1
    AcceptedBlock = FALSE
    a = a
    b = b
    k = k
SYMMETRY ClientSymmetry
INVARIANTS
    RecordsAreConnections
    WatchedAreOpen
    LoopEndsAtTerm
    NothingLeft
PROPERTY OnlyFinishedAreDropped
CHECK_DEADLOCK FALSE
