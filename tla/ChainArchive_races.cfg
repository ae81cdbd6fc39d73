\* Two sessions race every write over three blocks of one height; two rollovers
\* race each other and a writer.
CONSTANTS
    ba = ba
    bb = bb
    bc = bc
    ha = ha
    hb = hb
    hc = hc
    ta = ta
    vkey = vkey
    Session = {s1, s2}
    Block = {ba, bb, bc}
    Role = {ha, hb, hc, ta, vkey}
    Height <- AllAtOne
    BlockRoles <- HeaderOf
    ChildRoles <- TransactionsOf
    VkRole = vkey
    Request <- Races
    NoRow = NoRow
    Runner = {r1, r2}
    Writer = {w}
    Heights = {1, 2}
    Buckets <- MCBuckets
    PartitionSize = 1
    Precreated = 1
    MaxCalls = 3
    MaxFaults = 1
    None = None
SPECIFICATION MCSpec
SYMMETRY Symmetry
INVARIANTS BundleComplete RolesBacked FirstSeenEarliest RowsReachable HierarchyWhole RepeatIsNoop
PROPERTIES CanonicalKept
