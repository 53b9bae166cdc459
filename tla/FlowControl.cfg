SPECIFICATION FairSpec
CONSTANTS
    MaxSeq <- MCMaxSeq
    MaxChunkBytes = 2
    Size <- MCSize
    Reserve <- MCReserve
    MessageOf <- MCMessageOf
    AckSet <- MCAckSet
    ReadLimit = 4
    WriteLimit = 4
    LowWater = 2
    ForceAckBytes = 4
    ForceAckChunks = 3
    Batching = TRUE
INVARIANTS IInv NoViolation AckIsComing DrainedMeansEmpty WaiterIsNeeded
PROPERTIES AckedStaysAcked EverythingSettles
CHECK_DEADLOCK FALSE
