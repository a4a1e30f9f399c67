SPECIFICATION Spec
CONSTANTS
    Size = 5
    Byte = {0, 1}
    MaxRequest = 5
INVARIANTS
    TypeOK
    WriterKeepsRegion
    ReaderKeepsRegion
    EmptyHasRoom
    FullHasData
    FreeCellsAreZero
    TwoCallsSuffice
PROPERTY RefinesByteFifo
