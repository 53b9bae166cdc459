SPECIFICATION Spec
CONSTANTS
    Troubles = {"timeout", "early", "handler", "accept", "text", "abort", "loss",
                "starting", "sending", "draining", "crash"}
    MaxStops = 2
    MaxRequests = 2
INVARIANTS NoChannelOutlives StoppedTogether
CHECK_DEADLOCK FALSE
PROPERTIES TerminalStays RequestsSettle StopSettles
