\* A save, a prune and a reader, whose transactions may outlive the grace window.
SPECIFICATION Spec
CONSTANTS
    a = a
    b = b
    s1 = s1
    s2 = s2
    p1 = p1
    p2 = p2
    Pair = {w1}
    Chunk = {a}
    Payload <- MCPayloadRepeat
    Advance = {FALSE}
    Saver = {s1}
    Pruner = {p1}
    Reader = {r1}
    RetainCount = {1}
    PageLimit = {2}
    Grace = 0
    MaxTxAge = 1
    MaxSaves = 3
    MaxFails = 0
INVARIANTS GraceSuffices NoDanglingChunk ReadsNotTorn
