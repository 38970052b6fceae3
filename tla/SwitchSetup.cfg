SPECIFICATION MCSpec
CONSTANTS
    Timely = TRUE
    MaxLines = 3
    MaxRecords = 3
INVARIANT TypeOK
INVARIANT SetBeforeUse
INVARIANT AsWritten
INVARIANT InStepUnlessTooLong
PROPERTY ImplementsSource
PROPERTY PacketsRecur
