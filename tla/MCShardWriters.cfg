SPECIFICATION FairSpec
CONSTANTS
    RecCounts <- MCRecCounts
    ProcCounts <- MCProcCounts
    Geometries <- MCGeometries
    MinPerWorker = 2
CHECK_DEADLOCK FALSE
INVARIANTS
    TypeOK
    ShardIdentity
    DisjointSpans
PROPERTIES
    JoinedBeforeParity
    ShardTermination
