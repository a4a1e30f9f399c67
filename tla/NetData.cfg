SPECIFICATION Spec
CONSTANTS
    Size = 4
    Total = 6
    WireRoom = 3
    MaxFails = 1
    Byte = {0, 1, 2, 3, 4, 5, 6}
INVARIANTS
    StreamIsExact
    StreamHasNoGap
    NothingLeftBehind
PROPERTIES
    RecvTakesAll
    Delivered
CHECK_DEADLOCK FALSE
