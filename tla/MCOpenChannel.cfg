\* Two concurrent opens and one unrelated broadcast; LDK may refuse a force-close.
CONSTANTS
    Opens = {a, b}
    OtherTxs = {x}
    MaxAttempts = 1
    ForceCloseCanFail = TRUE
    NoTx = NoTx
SPECIFICATION Spec
SYMMETRY Symmetry
INVARIANTS
    TypeOK
    RetryNeverFunded
    NoForceCloseAfterHandoff
    SuccessIsOwnBroadcast
    EarlyBroadcastHonoured
PROPERTIES KeepsPromise
\* every request ends and nothing is left to do
CHECK_DEADLOCK FALSE
