SPECIFICATION Spec
CONSTANTS
    w1 = w1
    w2 = w2
    w3 = w3
    r1 = r1
    c1 = c1
    none = none
    o1 = o1
    NoOne = NoOne
    NoOrigin = NoOrigin
    Empty = none
    NoSerial = 0
    SerialOf <- MCSerialOf
    Contents <- MCContents
    Origins = {}
    Writers <- TwoWriters
    Readers = {r1}
    Policies <- AnyPolicy
    FactoryMayRaise = FALSE
    MaxId = 3

INVARIANTS
    CommitFailureRollsBack
