SPECIFICATION Spec
CONSTANTS
    Size = 5
    Zero = Zero
    Batch = TRUE
    ForceBytes = 4
    Reserves = {3, 5}
    Shapes <- MCShapes
    LineLength = 2
    MaxTasks = 2
    Kinds = {"pipe", "socket"}
INVARIANTS NothingStranded ReservationsHold BuffersAreWhole
PROPERTIES DeliversStream AllSettles
CHECK_DEADLOCK FALSE
