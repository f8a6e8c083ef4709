CONSTANTS
    BURST = 2
    DMA_SIZE = 4
    FIFO = 4
    MEM = 15
    Addrs = {0, 3}
    Sizes = {1, 5, 10}
    MaxCalls = 2
    NULL = NULL
SPECIFICATION Spec
INVARIANTS BoardTypeOK CommandsTaken ChecksHold TransferDone DmaInsideMap
PROPERTIES CallReturns
CHECK_DEADLOCK FALSE
