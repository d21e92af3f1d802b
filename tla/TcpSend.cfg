SPECIFICATION Spec
CONSTANTS
    MSS = 2
    SND_BUF = 4
    SND_QUEUELEN = 3
    U16 = 8
    SynWindows = {2, 4}
    Windows = {0, 1, 2, 3, 4}
    MayShrink = FALSE
    Lengths = {1, 3}
    StreamLen = 5
INVARIANTS StreamKept SendAccounting QueuesSound WindowObeyed
