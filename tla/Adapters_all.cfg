\* The functions on bounded inputs; a listing of four keys in batches of two; a
\* process over three events, with four faults.
SPECIFICATION MCSpec
CONSTANTS
    MAX_JSON_DEPTH = 2
    MAX_IDENTIFIER = 8
    INT4_MAX = 4
    KeyOrder <- MCKeyOrder
    Prefix <- MCPrefix
    BATCH = 2
    Conn = {c1, c2, c3}
    Schedules = {"fixed", "free"}
    NoConn = NoConn
    MaxEvents = 3
    MaxFaults = 4
INVARIANTS
    CodecFaithful
    OutputsNumbered
    TranslationStable
    
    ListingFaithful
    NoEventSkipped
    AcknowledgedStays
PROPERTIES
    ListingEnds
    SyncCompletes
CHECK_DEADLOCK FALSE
