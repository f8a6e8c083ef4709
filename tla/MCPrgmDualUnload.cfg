CONSTANTS
    Modes = {"dual"}
    Sizes = {2}
    LoadaAddrs = {}
    MaxAddr = 5
    MaxLoads = 2
    MaxReads = 2
    MaxProfiles = 1
    Buckets = {0, 1}
    HashBkt <- MCHashBkt
    NULL = NULL
SPECIFICATION PrgmSpec
INVARIANTS NoFreedTable
CHECK_DEADLOCK FALSE
