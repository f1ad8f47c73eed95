SPECIFICATION MCSpec
CONSTANTS
    t1 = t1
    t2 = t2
    a1 = a1
    Threads = {t1, t2}
    Addresses = {a1}
    Scoped = {}
    MaxConns = 2
    MAX_SESSION_TICKETS = 1
    SESSIONS_TO_DELETE = 1
    MaxCalls = 4
    None = 0
    Modes <- BothModes
    Sizes <- MessageSizes
    Lengths <- StreamLengths
    Timeouts = {TRUE, FALSE}
CHECK_DEADLOCK FALSE
INVARIANTS
    TableHasTheOpen
    UnsentIsAnnounced
    ReceiveIsHonest
PROPERTIES
    CallsReturn
    ReceiveEnds
