SPECIFICATION Spec
CONSTANTS
    NBlocks = 3
    c1 = c1
    c2 = c2
    Content = {c1, c2}
    NoData = NoData
    Junk = Junk
    rsMinShardPayload = 2
    rsMaxTotalShards = 5
    rsShardPayload = 4
    rsDefaultData = 3
    rsDefaultParity = 2
    rsMaxDecodeAlloc = 20
    rsMetaSize = 2
    rsShardHdrSize = 1
    Requests <- MCRequests
    MaxFaults = 2
    ResumeBases <- MCResumeBases
SYMMETRY MCSymmetry
INVARIANTS
    TypeOK
    ErasuresCostNothing
    RSNeverFabricates
    RSSilentMeansExact
    RSLossAccounted
    RSInspectAgrees
