SPECIFICATION FairSpec
CONSTANTS
    Stream = {s1, s2}
    c1 = c1
    c2 = c2
    Caller <- Closers
    RemoteError <- Errors
    NoCode = NoCode
    NoCause = NoCause
INVARIANTS OneEnding
PROPERTIES ImplementsContract EndsComplete
CHECK_DEADLOCK FALSE
