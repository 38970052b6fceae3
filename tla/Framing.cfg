SPECIFICATION FairSpec
CONSTANTS
    BYTE = 8
    Streams <- MCStreams
    Junk <- MCJunk
    SplitHeaders = FALSE
INVARIANT TypeOK
INVARIANT InSync
INVARIANT KeptIsShort
PROPERTY AllProcessed
