SPECIFICATION FairSpec
CONSTANTS
    w1 = w1
    w2 = w2
    w3 = w3
    r1 = r1
    c1 = c1
    none = none
    o1 = o1
    NoOne = NoOne
    NoOrigin = NoOrigin
    Empty = none
    NoSerial = 0
    SerialOf <- MCSerialOf
    Contents <- MCContents
    Origins = {o1}
    Writers <- ThreeWriters
    Readers = {r1}
    Policies <- AnyPolicy
    FactoryMayRaise = TRUE
    MaxId = 3
INVARIANTS
    NoLostWakeup
    NoLostUpdate
    ReadersPin
    RetentionBound
PROPERTIES
    ImplementsStore
    WriterRuns
