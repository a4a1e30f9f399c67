CONSTANTS
    Fd = {0, 3, 4}
    Resolved <- MCResolved
    UserFd = {0, 4}
SPECIFICATION Spec
INVARIANTS
    NoSocketLost
    SocketHasAddress
    WatchesWhatItHas
PROPERTY FailedInitHasNoEffect
CHECK_DEADLOCK FALSE
