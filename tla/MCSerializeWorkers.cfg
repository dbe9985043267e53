SPECIFICATION FairSpec
CONSTANTS
    RecCounts <- MCRecCounts
    ProcCounts <- MCProcCounts
    MinPerWorker = 2
CHECK_DEADLOCK FALSE
INVARIANTS
    TypeOK
    SlicesDisjoint
    ByteIdentity
PROPERTIES
    NoWriteAfterReturn
    Termination
