SPECIFICATION MCSpec
CONSTANTS
    q1 = q1
    q2 = q2
    s1 = s1
    s2 = s2
    None = None
    Names = {q1, q2}
    Nameservers = {s1, s2}
    Orders <- OneOrder
    AlwaysMaxSize = {s2}
    SearchLists <- Lists
    UseCache = TRUE
    RetryServfail = TRUE
    Lifetime = 3
    Timeout = 2
    FirstBackoff = 1
    LastBackoff = 2
    MaxSetBack = 2
    Label = {"s", "t", "o"}
    Classes = {"IN", "CH"}
    Types = {"A", "CNAME", "SOA"}
    Questions <- MCQuestions
    Additions <- MCAdditions
    MAX_CHAIN = 3
    MAX_TTL = 4
    MaxRecords = 4
INVARIANTS
    OutcomeIsTrue
    NoNameserversIsEarned
    InTime
    ChainIsFollowed
PROPERTIES
    ResolveReturns
