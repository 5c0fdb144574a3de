SPECIFICATION FairSpec
CONSTANTS
    Tcp = {t}
    Quic = {q}
    Public = {v}
    None = None
    MaxHandshakes = 1
    MaxPreAuth = 1
    MaxSessions = 1
PROPERTIES SkippedOnlyForWorkers
CHECK_DEADLOCK FALSE
