SPECIFICATION Spec
CONSTANTS
    Limit = 3
    Writes <- MCWrites
    Together <- MCTogether
INVARIANT EveryChunkAccounted
PROPERTY WaitsForWaiterOnly
CHECK_DEADLOCK FALSE
