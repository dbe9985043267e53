SPECIFICATION Spec
CONSTANTS
    NBlocks = 2
    c1 = c1
    c2 = c2
    Content = {c1, c2}
    NoData = NoData
    Junk = Junk
    rsMinShardPayload = 2
    rsMaxTotalShards = 5
    rsShardPayload = 4
    rsDefaultData = 3
    rsDefaultParity = 2
    rsMaxDecodeAlloc = 12
    rsMetaSize = 2
    rsShardHdrSize = 1
    Requests <- MCRequests
    MaxFaults = 1
    ResumeBases <- MCResumeBases
SYMMETRY MCSymmetry
INVARIANTS
    EncodableIsDecodable
