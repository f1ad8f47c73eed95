SPECIFICATION FairSpec
CONSTANTS
    None = None
    a = a
    b = b
    MaxVersions = 4
    Half = 2
    Data <- TwoRecords
INVARIANTS
    CopyOfPrimary
PROPERTIES
    HonestAnswersAccepted
    NeverBack
    DifferencesFit
    TransferEnds
