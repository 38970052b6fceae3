SPECIFICATION FairSpec
CONSTANTS
    InRoom = 1
    OutRoom = 3
    MaxRequests = 2
    MaxPackets = 2
    ReadsAlways = TRUE
INVARIANT TypeOK
INVARIANT WholeMessages
INVARIANT PairedByOrder
PROPERTY AllAnswered
