\* A ring that wraps around; wakeups may meet a packet on its way.
CONSTANTS
    small = small
    large = large
    Event <- MCEvent
    Size <- MCSize
    Header = 2
    Capacity = 7
    GarbageSizes = {0, 1, 9}
    MaxEvents = 4
    MaxRead = 8
SPECIFICATION FairSpec
INVARIANTS
    InOrderUntilDoubled
    InFlightKept
PROPERTIES
    AllSent
CHECK_DEADLOCK FALSE
