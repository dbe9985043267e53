SPECIFICATION Spec
CONSTANTS
    NBlocks = 3
    c1 = c1
    c2 = c2
    Content = {c1, c2}
    NoData = NoData
    MaxFaults = 1
    ResumeBases <- MCResumeBases
INVARIANT
    LossIsListedOrFlagged
