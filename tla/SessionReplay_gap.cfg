SPECIFICATION ReplaySpec
CONSTANTS
    LogLimit = 4
    TailLimit = 1
    MaxPrompts = 2
    MaxChunks = 2
    MaxOpens = 2
    MaxCrashes = 1
    MaxRespawns = 1
    MaxEffort = 7
INVARIANT
    ReconnectSeesAll
CHECK_DEADLOCK FALSE
