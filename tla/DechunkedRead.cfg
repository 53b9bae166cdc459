SPECIFICATION Spec
CONSTANTS
    MaxMessages = 3
    MaxLength = 3
    Limit = 4
    LowWater = 2
    Batching = TRUE
PROPERTY EveryMessageRead
CHECK_DEADLOCK FALSE
