SPECIFICATION Spec
CONSTANTS
    MinSwitches = 1
    MaxSwitches = 2
    N_TRY_TO_CONNECT = 1
    MaxInFlight = 2
    TimelyBatch = FALSE
    Prompt = FALSE
INVARIANT StartedNotLockedOut
