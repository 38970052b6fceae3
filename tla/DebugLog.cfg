SPECIFICATION Spec
CONSTANTS
    Relays = {relay}
    Parts = 2
    MaxTime = 2
    MaxLines = 2
    MaxCalls = 3
INVARIANT TypeOK
INVARIANT CrashOnlyIfEarly
INVARIANT OwnTimeUnlessDisturbed
INVARIANT KeepsWhatItWasTold
CHECK_DEADLOCK FALSE
