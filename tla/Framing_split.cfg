SPECIFICATION Spec
CONSTANTS
    BYTE = 8
    Streams <- MCStreams
    Junk <- MCJunk
    SplitHeaders = TRUE
INVARIANT InSync
