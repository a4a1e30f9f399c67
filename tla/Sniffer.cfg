CONSTANTS
    Conn = {c1, c2}
    c1 = c1
    c2 = c2
    Payload <- MCPayload
    Wrap = 3
    MaxKeywords = 2
    MaxPackets = 4
    MaxFails = 1
SPECIFICATION Spec
SYMMETRY MCSymmetry
INVARIANTS
    EveryBlockHasOneOwner
    BufferIsOneTurn
    NothingLost
CHECK_DEADLOCK FALSE
