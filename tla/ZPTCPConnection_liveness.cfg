\* Progress of one connection under the fairness of its timer.
SPECIFICATION FairSpec
CONSTANTS
    WND = 1
    StreamLen = 1
    SND_BUF = 1
    MaxWritten = 1
    MaxPeerWnd = 1
    MAXRTX = 1
    FIN_WAIT_TIMEOUT = 1
    SYN_RCVD_TIMEOUT = 1
    TWO_MSL = 1
    KEEP_TIMEOUT = 1
    Garbage = {}
    AllocMayFail = FALSE
PROPERTIES
    HandshakeEnds
    ClosedIsForgotten
    RefusedIsRead
    WritingEnds
