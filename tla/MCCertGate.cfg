SPECIFICATION FairSpec
CONSTANTS
    h1 = h1
    h2 = h2
    d1 = d1
    k1 = k1
    Handshake = {h1, h2}
    Domain = {d1}
    Key = {k1}
    PosTTL = 2
    NegTTL = 1
    FailCooldown = 2
    AskTimeout = 1
    KickCooldown = 1
    None = None
INVARIANTS OrderAuthorized IssuanceBounded
PROPERTIES RetriedUnderTraffic
