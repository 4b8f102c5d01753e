\* Two processes, a channel and its output, crashes at every step.
CONSTANTS
    Processes = {p, q}
    Generated = {g, h}
    Backup = Backup
    Invalid = Invalid
    None = None
    Empty = Empty
    RacedGoOn = FALSE
    Channels = {x}
    CanFail = TRUE
SPECIFICATION FairSpec
INVARIANTS TypeOK WordsOpenWallet RecoveryKept KnownChannelsWatched OutputsKept
PROPERTIES StopEnds
CHECK_DEADLOCK FALSE
