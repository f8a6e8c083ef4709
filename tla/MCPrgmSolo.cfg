CONSTANTS
    Modes = {"a1", "a2"}
    Sizes = {2}
    LoadaAddrs = {2}
    MaxAddr = 5
    MaxLoads = 2
    MaxReads = 2
    MaxProfiles = 2
    Buckets = {0, 1}
    HashBkt <- MCHashBkt
    NULL = NULL
SPECIFICATION PrgmSpec
INVARIANTS PrgmTypeOK TablesSound SequentialIntact
PROPERTIES SequentialAccepted
CHECK_DEADLOCK FALSE
