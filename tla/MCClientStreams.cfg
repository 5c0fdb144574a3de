CONSTANTS
    Streams = {s1, s2}
    Sessions = 2
    Capacity = 1
    KindOf <- MC_KindOf
SPECIFICATION FairSpec
INVARIANTS SlotsExact ResponseSound
PROPERTIES HandlersEnd
CHECK_DEADLOCK FALSE
