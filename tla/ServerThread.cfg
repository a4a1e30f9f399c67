SPECIFICATION Spec
CONSTANTS
    Fd = {0, 3, 4}
    Client = {a}
    UserFd = 0
    MaxUnread = 1
    AcceptedBlock = FALSE
    a = a
PROPERTY ThreadFinishes
CHECK_DEADLOCK FALSE
