SPECIFICATION Spec
CONSTANTS
    TIMESTAMP_COUNT = 2
    Delta_t = 1
    MaxTime = 5
    MaxSent = 3
INVARIANT TypeOK
INVARIANT RingSurvives
INVARIANT TotalsUnlessClash
INVARIANT RatesUnlessClash
