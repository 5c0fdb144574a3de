SPECIFICATION FairSpec
CONSTANTS
    Stream = {"a", "b"}
    GateLimit = 1
    Cause <- MC_Cause
    Fallback = "fallback"
    Canceled = "canceled"
    NoCause = "none"
INVARIANTS SessionSound
PROPERTIES ImplementsContract EndsComplete
CHECK_DEADLOCK FALSE
