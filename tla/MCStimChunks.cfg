CONSTANTS
    Selected = {"a1", "a2"}
    StimTypes = {"dots", "raw", "bitstream"}
    NumVecs = 9
    VecsPerBurst = 4
    BurstsPerChunk = 2
    MAX_NUM_VECS = 16
    MaxPasses = 2
    NULL = NULL
SPECIFICATION Spec
INVARIANTS TypeOK UnitExclusion OnlyCurrentLoaded UnloadedIsClean ChunkGeometry LoadedIsPattern
CHECK_DEADLOCK FALSE
