SPECIFICATION FairStreamSpec
CONSTANTS
    Modes <- OnlyDoQ
    Sizes <- MessageSizes
    Lengths <- StreamLengths
    Timeouts = {FALSE}
CHECK_DEADLOCK FALSE
PROPERTIES
    ArrivedIsReceived
