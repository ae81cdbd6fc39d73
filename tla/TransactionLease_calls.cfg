\* Every operation of two callers; backends die, waits end, no cancel request is late.
SPECIFICATION FairSpec
CONSTANTS
    c1 = c1  c2 = c2  n1 = n1  n2 = n2  k1 = k1  k2 = k2  h1 = h1  h2 = h2
    Caller = {c1, c2}
    Key = {k1}
    Slot = {h1}
    Hash <- HashOne
    Conn = {n1, n2}
    Calls <- AllCalls
    LateCancel = FALSE
    SameTickAbort = FALSE
    MaxLeases = 2
    MaxDeaths = 1
    MaxOrphans = 1
    MaxDepth = 1
    NoConn = NoConn
    NoSlot = NoSlot
INVARIANTS
    LeaseHoldsLock
    ConnectionsAccounted
    PoolClean
PROPERTIES
    LapseSurfaces
    CallsEnd
