CONSTANTS
    Keys = {k1}
    MaxObjects = 2
    MaxQueued = 1
    MaxCalls = 1
    AllocMayFail = TRUE
    FreedSndBuf = {TRUE, FALSE}
    WND = 4
    StreamLen = 6
    MinUpd = 2
    Threshold = 1
    NagleMayHold = TRUE
    AckMayFail = TRUE
    CopyMayFail = TRUE
    FinAtEdge = FALSE
    Pbufs = {1, 2, 3}
    Lengths = {2}
    MaxLen = 3
    Headers = {0}
    PoolBufSize = 1
    MaxHeld = 2
    MaxMade = 2
    Types = {"PBUF_POOL", "PBUF_ROM"}
SPECIFICATION MCSpec
INVARIANTS BuffersSound Received LiveIsFound ToldOfEnd 
PROPERTIES EdgeKept ImplementsCore NothingLingers
