SPECIFICATION Spec
CONSTANTS
    MaxRequests = 3
    MaxCloses = 1
    Limits = {1, 2}
INVARIANTS NothingUnexpected OpenTogether
PROPERTY RequestsSettle
CHECK_DEADLOCK FALSE
