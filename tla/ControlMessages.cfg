SPECIFICATION Spec
CONSTANTS
    MaxChunks = 6
INVARIANT HandledInTurn
PROPERTY EveryChunkProcessed
CHECK_DEADLOCK FALSE
