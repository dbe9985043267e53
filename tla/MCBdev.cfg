SPECIFICATION Spec
CONSTANTS
    NBlocks = 2
    c1 = c1
    c2 = c2
    c3 = c3
    p1 = p1
    p2 = p2
    Content = {c1, c2, c3}
    NoData = NoData
    Junk = Junk
    rsMinShardPayload = 2
    rsMaxTotalShards = 5
    rsShardPayload = 4
    rsDefaultData = 3
    rsDefaultParity = 2
    rsMaxDecodeAlloc = 20
    rsMetaSize = 2
    rsShardHdrSize = 1
    Proc = {p1, p2}
    Images <- MCImages
    MaxRuns = 3
    MaxEdits = 1
    Stray = {1}
    Wild = {0}
CHECK_DEADLOCK FALSE
SYMMETRY MCSymmetry
INVARIANTS
    TypeOK
    RoundTrip
    PartialIsMix
    InspectForetells
