SPECIFICATION MessageSpec
CONSTANTS
    MaxPointer = 16383
    RenderSizes = {}
    RenderQuestions = {}
    RenderRRsets = {}
    MaxCalls = 0
    MinSize = 62
    MaxSize = 65535
    Flags <- MCFlags
    Items <- MCItems
    UpdateZone <- MCUpdateZone
    Updates <- MCUpdates
    Opts <- MCOpts
    Sizes <- MCSizes
    Readers <- MCReaders
    MaxItems = 3
    MaxReceived = 50
    MaxDamaged = 38
    Bodies = {"x"}
    ServerKeys <- MCKeys
    ClientKey <- TheKey
    Fudge = 1
    MaxTime = 2
    MaxMessages = 3
    Options <- MCOptions
    Backends = {"socket", "asyncio"}
    MaxQueries = 2
    MaxDatagrams = 1
    MaxOctets = 8
CHECK_DEADLOCK FALSE
INVARIANTS
    OptIsWelcome
