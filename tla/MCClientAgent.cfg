SPECIFICATION MC_Spec
CONSTANTS
    c1 = c1
    c2 = c2
    n1 = n1
    n2 = n2
    None = None
    Caller = {c1, c2}
    Name = {n1, n2}
    Port = {1, 2}
    MaxCalls = 2
    MaxSessions = 2
    MaxQueue = 1
INVARIANTS RegisterSound NoGhost
PROPERTIES ReplayCompletes RegisterReturns
CHECK_DEADLOCK FALSE
