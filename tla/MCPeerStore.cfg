\* Two calls, crashes and failing writes.
CONSTANTS
    n1 = n1
    n2 = n2
    h1 = h1
    h2 = h2
    Nodes <- MCNodes
    Hosts <- MCHosts
    Home <- MCHome
    Callers = {c1, c2}
    CanCrash = TRUE
    CanFail = TRUE
    None = None
    Truncated = Truncated
    Garbled = Garbled
SPECIFICATION Spec
INVARIANTS TypeOK StoreAnswered
