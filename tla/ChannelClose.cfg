SPECIFICATION Spec
CONSTANTS
    MaxWrites <- MCMaxWrites
    MessageChunks = 2
    Limit = 1
    MaxCloses <- MCMaxCloses
    MayDisconnect = {"a"}
INVARIANT OnlyEchoIsLate
PROPERTIES ImplementsClosure CloseCompletes
CHECK_DEADLOCK FALSE
