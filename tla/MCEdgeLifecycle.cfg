SPECIFICATION FairSpec
CONSTANTS
    Tcp = {t}
    Quic = {q}
    Public = {v}
    None = None
    MaxHandshakes = 1
    MaxPreAuth = 1
    MaxSessions = 1
INVARIANTS Admission FlushComplete
PROPERTIES NoLateAdd TunnelsEnd
CHECK_DEADLOCK FALSE
