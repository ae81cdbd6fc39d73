\* Saves of one pair race each other and a prune, over two chunks upserted in either order.
SPECIFICATION FairSpec
CONSTANTS
    a = a
    b = b
    s1 = s1
    s2 = s2
    p1 = p1
    p2 = p2
    Pair = {w1}
    Chunk = {a, b}
    Payload <- MCPayloadOrders
    Advance = {TRUE, FALSE}
    Saver = {s1, s2}
    Pruner = {p1}
    Reader = {}
    RetainCount = {1}
    PageLimit = {1}
    Grace = 1
    MaxTxAge = 1
    MaxSaves = 2
    MaxFails = 1
PROPERTIES ImplementsContract TransactionsEnd GarbageCollected
