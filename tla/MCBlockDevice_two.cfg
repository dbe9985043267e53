SPECIFICATION Spec
CONSTANTS
    d1 = d1
    d2 = d2
    h1 = h1
    h2 = h2
    h3 = h3
    Device = {d1, d2}
    NBlocks = 2
    BlockSize = 2
    MaxInt = 7
    MaxBuf = 1
    Content = {0, 1}
    BaseImage <- MCBase
    Heap = {h1, h2, h3}
    Offset <- MCOffsetTwo
    Length <- MCLengthTwo
SYMMETRY MCSymmetry
INVARIANTS
    TypeOK
    Separation
    BaseIntact
PROPERTIES
    Isolation
    ImplementsFlatDisk
