CONSTANTS
    Opens = {a, b}
    OtherTxs = {}
    MaxAttempts = 1
    ForceCloseCanFail = FALSE
    NoTx = NoTx
SPECIFICATION FairSpec
PROPERTIES Answered FailedOpenDropped
CHECK_DEADLOCK FALSE
