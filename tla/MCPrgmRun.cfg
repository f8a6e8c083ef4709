CONSTANTS
    Stims = {s1, s2}
    Cycles = {0, 1}
    MaxArgs = 2
    ZONE = 0
    MaxRows = 2
    MaxStims = 2
    NULL = NULL
SPECIFICATION Spec
INVARIANTS PrgmRunTypeOK RowsTell LastRowAgrees ResultTold FirstUseDefined
PROPERTIES OnlyOverlapUndoes CallEnds
CHECK_DEADLOCK FALSE
