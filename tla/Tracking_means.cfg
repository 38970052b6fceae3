SPECIFICATION Spec
CONSTANTS
    TIMESTAMP_COUNT = 2
    Delta_t = 2
    MaxTime = 6
    MaxReceived = 3
    MaxSent = 3
    MaxSessions = 2
INVARIANT DeltaMeansInRange
