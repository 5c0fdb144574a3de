CONSTANTS
    Transport = "auto"
    Addresses = 2
    MaxCycles = 3
SPECIFICATION DialFairSpec
INVARIANTS OneCandidate FallbackRight NoLeak
PROPERTIES CycleEnds
CHECK_DEADLOCK FALSE
