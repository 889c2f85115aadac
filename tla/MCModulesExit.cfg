\* No failures; what TLSF asserts when its pools are removed.
CONSTANTS
    in = in
    loopback = loopback
    up = up
    up2 = up2
    Module = {in, loopback, up}
    Kind <- MCKind
    Failing = {}
    MaxChildren = 1
    MaxEvents = 2
    Broadcast = Broadcast
    None = None
SPECIFICATION Spec
INVARIANTS
    PoolsEmptyAtExit
CHECK_DEADLOCK FALSE
