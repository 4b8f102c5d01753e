\* Reorgs of one block, aborted passes and scans, a failing write, a restart.
CONSTANTS
    x = x
    y = y
    Branches <- MCBranches
    Start <- MCStart
    MaxHeight = 2
    MaxReorg = 1
    MaxAborts = 1
    MaxFailures = 1
    MaxRestarts = 1
    JumpCanFail = TRUE
SPECIFICATION FairSpec
INVARIANTS TypeOK OnlyLostSkipped RunningCaughtUp
PROPERTIES WalletCatchesUp InitialSyncCompletes
