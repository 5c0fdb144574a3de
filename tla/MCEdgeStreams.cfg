SPECIFICATION MC_Spec
CONSTANTS
    s1 = s1
    s2 = s2
    r1 = r1
    r2 = r2
    h = h
    Session = {s1, s2}
    Request = {r1, r2}
    Host = {h}
    None = None
    HostOf <- MC_OneHost
    MaxStreamsTotal = 2
    MaxStreams = 1
    MaxRoutes = 2
    MaxBytes = 1
INVARIANTS SlotsSound StaleNeverOpens TrafficComplete
PROPERTIES SlotsReturn
CHECK_DEADLOCK FALSE
