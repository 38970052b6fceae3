SPECIFICATION Spec
CONSTANTS
    MAX_SWITCH_COUNT = 4
    MaxPort = 2
    MaxLines = 3
INVARIANT TypeOK
INVARIANT LookupFollowsFile
