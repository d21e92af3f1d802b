CONSTANTS
    Keys = {k1}
    MaxObjects = 2
    MaxQueued = 1
    MaxCalls = 1
    AllocMayFail = TRUE
    FreedSndBuf = {TRUE, FALSE}
SPECIFICATION TunnelFairSpec
PROPERTY EmptyMeansSent
