\* Two events, and what a wakeup makes of the first while it is on its way.
CONSTANTS
    small = small
    large = large
    Event <- MCEvent
    Size <- MCSize
    Header = 2
    Capacity = 7
    GarbageSizes = {0, 1, 9}
    MaxEvents = 2
    MaxRead = 8
SPECIFICATION Spec
INVARIANT PacketsInOrder
CHECK_DEADLOCK FALSE
