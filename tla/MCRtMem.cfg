\* mmap and realloc may fail.
CONSTANTS
    b1 = b1  b2 = b2  b3 = b3
    Block <- MCBlock
    BlockSizes = {1, 2, 3}
    AreaSize = 4
    RingSlots = 15
    SizeMax = 1000
    MapFaults = TRUE
    MaxSum = 16
    MaxFails = 2
SPECIFICATION FairSpec
INVARIANTS
    OneRequestUnderWay
    UsedAccounts
PROPERTIES
    RequestAnswered
CHECK_DEADLOCK FALSE
