SPECIFICATION Spec
CONSTANTS
    Stims <- MCStims
    Units <- MCUnits
    Addr <- MCAddr
    Repeats <- MCRepeats
    Padding <- MCPadding
    PollLimit = 1
INVARIANTS
    ArtixTypeOK
    PassIsReal
    FailIsReal
    StartsTogether
    NothingHeldBack
PROPERTY RunReturns
CHECK_DEADLOCK FALSE
