\* Two channels, four scripts, any number of restarts and failing writes.
CONSTANTS
    Channels = {x, y}
    Lookahead = 1
    MaxIndex = 4
SPECIFICATION ScriptsSpec
INVARIANTS FreshScripts OutputsClaimable
CHECK_DEADLOCK FALSE
