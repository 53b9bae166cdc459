SPECIFICATION Spec
CONSTANTS
    SizeClasses <- MCSizeClasses
    Low = 1
    High = 2
    Requests = {1, 2, 3}
    MaxHeld = 2
INVARIANTS NoLeftovers OneManager
PROPERTY LevelsRestored
CHECK_DEADLOCK FALSE
