SPECIFICATION Unraced
CONSTANTS
    Fd = {0, 3, 4, 5, 6}
    Client = {a, b, k}
    UserFd = 0
    MaxUnread = 1
    AcceptedBlock = TRUE
    a = a
    b = b
    k = k
PROPERTIES
    Serves
    TermReturns
CHECK_DEADLOCK FALSE
