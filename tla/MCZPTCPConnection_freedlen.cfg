\* The length is read from a freed pbuf.
SPECIFICATION MCSpec
CONSTANTS
    WND = 1
    StreamLen = 1
    SND_BUF = 1
    MaxWritten = 1
    MaxPeerWnd = 1
    MAXRTX = 1
    FIN_WAIT_TIMEOUT = 1
    SYN_RCVD_TIMEOUT = 1
    TWO_MSL = 1
    KEEP_TIMEOUT = 1
    Garbage = {0}
    AllocMayFail = FALSE
PROPERTIES
    CloseResetsOnlyUnread
