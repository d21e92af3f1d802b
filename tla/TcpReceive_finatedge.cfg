\* A FIN behind data that fills the window, out of sequence.
SPECIFICATION Spec
CONSTANTS
    WND = 2
    StreamLen = 2
    MinUpd = 1
    Threshold = 1
    NagleMayHold = FALSE
    AckMayFail = FALSE
    CopyMayFail = FALSE
    FinAtEdge = TRUE
INVARIANTS
    AssertionsHold
