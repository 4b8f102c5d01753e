\* Two nodes, two calls in turn for one permit, and the reconnect loop.
CONSTANTS
    Nodes = {n1, n2}
    Callers = {c1, c2}
    Loop = Loop
    Locks = {l1, l2, l3, l4}
    Permits = 1
    None = None
SPECIFICATION FairSpec
INVARIANTS TypeOK DialsExclusive DialsIndependent
PROPERTIES DialsEnd
