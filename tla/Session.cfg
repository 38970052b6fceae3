SPECIFICATION FairSpec
CONSTANTS
    MinSwitches = 2
    MaxSwitches = 3
    N_TRY_TO_CONNECT = 1
    MaxInFlight = 2
    TimelyBatch = TRUE
    Prompt = TRUE
INVARIANT TypeOK
INVARIANT GateFollowsMain
INVARIANT StragglerBound
INVARIANT NoCarryOver
PROPERTY ImplementsGate
PROPERTY SessionsEnd
