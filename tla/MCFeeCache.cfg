\* A rate under the floor and one above; bitcoin gives a failed refresh up, regtest and signet fall back.
CONSTANTS
    Rates = {100, 1000}
    Networks = {"bitcoin", "regtest", "signet"}
    Repeating = {"bitcoin", "regtest"}
SPECIFICATION FairSpec
INVARIANTS WholeRefresh SharedEstimate OneRefresh
PROPERTIES RefreshEnds
CHECK_DEADLOCK FALSE
