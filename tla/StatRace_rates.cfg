SPECIFICATION Spec
CONSTANTS
    TIMESTAMP_COUNT = 2
    Delta_t = 1
    MaxTime = 4
    MaxSent = 3




INVARIANT RatesOverDelta
