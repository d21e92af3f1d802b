\* Safety of one connection, and that it implements ZPTCPService.
SPECIFICATION Spec
CONSTANTS
    WND = 2
    StreamLen = 3
    SND_BUF = 2
    MaxWritten = 2
    MaxPeerWnd = 1
    MAXRTX = 1
    FIN_WAIT_TIMEOUT = 1
    SYN_RCVD_TIMEOUT = 1
    TWO_MSL = 1
    KEEP_TIMEOUT = 1
    Garbage = {}
    AllocMayFail = TRUE
INVARIANTS
    TypeOK
    WindowAccounting
    NothingLost
    EofAfterAllData
    SendAccounting
    EndsKnown
PROPERTIES
    RequestsRespected
    ImplementsService
