CONSTANTS
    Modes = {"a2"}
    Sizes = {2}
    LoadaAddrs = {3}
    MaxAddr = 3
    MaxLoads = 3
    MaxReads = 2
    MaxProfiles = 2
    Buckets = {0, 1}
    HashBkt <- MCHashBkt
    NULL = NULL
SPECIFICATION PrgmSpec
INVARIANTS TablesSound
PROPERTIES DirectoryKept
CHECK_DEADLOCK FALSE
