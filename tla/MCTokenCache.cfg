SPECIFICATION TokenSpec
CONSTANTS
    c1 = c1
    c2 = c2
    t1 = t1
    u1 = u1
    u2 = u2
    Caller = {c1, c2}
    Token = {t1, u1, u2}
    Scope = {"a", "b"}
    Grant <- MC_Grant
    Unknown <- MC_Unknown
    Live = {t1}
    NoScope = "none"
    TTL = 2
    NegativeTTL = 1
    Timeout = 1
    MaxEntries = 2
SYMMETRY MC_Symmetry
INVARIANTS CacheBounded AnswersFresh
