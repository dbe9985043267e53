SPECIFICATION Spec
CONSTANTS
    d1 = d1
    d2 = d2
    h1 = h1
    h2 = h2
    h3 = h3
    Device = {d1}
    NBlocks = 3
    BlockSize = 2
    MaxInt = 7
    MaxBuf = 2
    Content = {0, 1}
    BaseImage <- MCBase
    Heap = {h1, h2, h3}
    Offset <- MCOffsetOne
    Length <- MCLengthOne
SYMMETRY MCSymmetry
INVARIANTS
    ArgumentsJudged
PROPERTIES
    ImplementsFlatDisk
