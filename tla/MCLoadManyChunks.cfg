CONSTANTS
    Selected = {"a1", "a2"}
    StimTypes = {"dots", "raw", "bitstream"}
    NumVecs = 5
    VecsPerBurst = 4
    BurstsPerChunk = 1
    MAX_NUM_VECS = 11
    MaxPasses = 2
    Addrs = {0, 12, 10, 16}
    MaxAddr = 12
    MemVecs = 24
    NULL = NULL
SPECIFICATION UseSpec
PROPERTIES LoadsPattern
CHECK_DEADLOCK FALSE
