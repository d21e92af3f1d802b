\* Acknowledgements, window updates and delivery when tcp_output can send.
SPECIFICATION MCFairSpec
CONSTANTS
    WND = 4
    StreamLen = 5
    MinUpd = 1
    Threshold = 2
    NagleMayHold = FALSE
    AckMayFail = FALSE
    CopyMayFail = TRUE
    FinAtEdge = FALSE
INVARIANTS
    Owed
PROPERTIES
    StreamArrives
