SPECIFICATION LogFairSpec
CONSTANTS
    MaxEvents = 3
    MaxInode = 3
    MaxStops = 1
    Buffer = 1
    MaxBytes = 1
    BatchSize = 1
INVARIANTS CursorCovers LossCounted
PROPERTIES ShippedBeforeRemoved LogDrains
CONSTRAINT Unlapsed
CHECK_DEADLOCK FALSE
