SPECIFICATION Spec
CONSTANTS
    MaxWrites <- MCMaxWrites
    MessageChunks = 2
    Limit = 1
    MaxCloses <- MCMaxCloses
    MayDisconnect = {"a"}
INVARIANT EchoIsHarmless
CHECK_DEADLOCK FALSE
