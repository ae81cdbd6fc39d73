CONSTANTS
    r1 = r1  r2 = r2  c1 = c1  c2 = c2
    Runner <- MCRunner
    Schema <- MCSchema
    Wanted <- MCWanted
    Conn <- MCConn
    PoolOf <- MCPoolOf
    Lineage <- MCLineage
    Extension = {"001"}
    Servers <- MCServers
    MaxFaults = 1
    NoConn = NoConn
    Lost = Lost
SPECIFICATION Spec
INVARIANTS AppliedInOrder NoCollision ConnectionsClean
PROPERTIES CallsEnd Converges
CHECK_DEADLOCK FALSE
