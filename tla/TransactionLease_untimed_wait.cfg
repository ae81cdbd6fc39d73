SPECIFICATION Spec
CONSTANTS
    c1 = c1  c2 = c2  n1 = n1  n2 = n2  k1 = k1  k2 = k2  h1 = h1  h2 = h2
    Caller = {c1, c2}
    Key = {k1}
    Slot = {h1}
    Hash <- HashOne
    Conn = {n1, n2}
    Calls <- LeaseCalls
    LateCancel = FALSE
    SameTickAbort = FALSE
    MaxLeases = 3
    MaxDeaths = 0
    MaxOrphans = 3
    MaxDepth = 2
    NoConn = NoConn
    NoSlot = NoSlot
INVARIANTS
    WaitsIndefinitely
SYMMETRY Symmetry
