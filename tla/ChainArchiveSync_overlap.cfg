\* Two services sync one archive; calls overlap, throw and die.
SPECIFICATION FairSpec
CONSTANTS
    v1 = v1  v2 = v2  c1 = c1  c2 = c2
    Service = {v1, v2}
    Call = {c1, c2}
    ServiceOf <- TwoServices
    DValue = {x, y}
    Unknown = Unknown
    MaxBlocks = 2
    MaxHeight = 2
    MaxFails = 1
INVARIANTS NoGap ChangesRecorded
PROPERTIES CatchesUp
