SPECIFICATION MCSpec
CONSTANTS
    k1 = k1
    k2 = k2
    k3 = k3
    short = short
    long = long
    n0 = n0
    n1 = n1
    n2 = n2
    n3 = n3
    Keys = {k1, k2, k3}
    Answers = {short, long}
    Lifetime <- MCLifetime
    Cells = {n0, n1, n2, n3}
    Sentinel = n0
    None = None
    NoValue = NoValue
    MaxLabel = 2
    MaxName = 6
    MinimalOctet = 0
    AtSign = 1
    LeftBracket = 3
    MaximalOctet = 5
    ToLower = 2
    Universe <- MCUniverse
    Origins <- MCOrigins
    Written <- MCWritten
    DictLabels = {1, 2}
    MaxDepth = 2
    Zones <- MCZones
    Edits <- MCEdits
    Deletions <- MCDeletions
    Signings <- MCSignings
    Owners <- MCOwners
    Covered = {"A", "CNAME"}
    Contents <- MCContents
    Rings <- MCRings
    Times = {1, 2, 3}
    DeniedToSign = {"bad"}
    DeniedToValidate = {"old"}
    MaxEdits = 1
    MaxSignings = 2
    MaxSize = 3
    EndOfTime = 1
    Half = 16
    MaxValue = 33
CHECK_DEADLOCK FALSE
VIEW Live
INVARIANTS
    FormsAreFaithful
    NeighboursAreAdjacent
    NamesSurvive
    DeepestIsFound
    FilesAreFaithful
PROPERTIES
    PutReturns
    ImplementsRecencyList
    IncrementsAreSeen
    SigningIsSound
