CONSTANTS
    Conn = {c1}
    c1 = c1
    Payload <- MCPayload
    Wrap = 65536
    MaxKeywords = 1
    MaxPackets = 5
    MaxFails = 0
SPECIFICATION Spec
INVARIANT QuickCountsAll
CHECK_DEADLOCK FALSE
