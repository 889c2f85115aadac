\* With and without a session, a script with a net module, three requests to stop.
CONSTANTS
    MayFail <- MCMayFail
    HasNet = TRUE
    Sessions = {"off", "resolving", "broken"}
    MaxSignals = 3
SPECIFICATION LifeFairSpec
INVARIANTS
    DeinitAtMostOnce
    ProcessHasWhatItUses
PROPERTIES
    StopReturns
    StartSettles
CHECK_DEADLOCK FALSE
