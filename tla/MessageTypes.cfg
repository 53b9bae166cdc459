SPECIFICATION Spec
CONSTANTS
    Names = {x, y}
    Registrations = {{x}, {y}, {x, y}}
    MaxRequests = 2
    MaxWrites = 2
    MaxReads = 2
INVARIANTS NoFaults IdsAgree NoReadWaitsInVain
PROPERTIES ReadsInOrder NullMeansClosedIfCareful EverythingSettles
CHECK_DEADLOCK FALSE
