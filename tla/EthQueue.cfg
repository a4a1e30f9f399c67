SPECIFICATION Spec
CONSTANT MaxFrames = 4
INVARIANTS
    PrintedInOrder
    NeverEmptyFront
PROPERTIES
    FramesArePrinted
    EndReturns
CHECK_DEADLOCK FALSE
