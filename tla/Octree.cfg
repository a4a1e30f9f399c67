CONSTANTS
    Roots <- MCRoots
    Boxes <- MCBoxes
    Points <- MCPoints
    Scale = 64
    MaxItems = 3
    Tiny = 8
SPECIFICATION Spec
INVARIANTS
    LeavesHoldTheirItems
    OrderDoesNotMatter
    QueryIsSound
CHECK_DEADLOCK FALSE
