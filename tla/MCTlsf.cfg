\* Two pools, the second added or removed while blocks are live.
CONSTANTS
    o1 = o1
    o2 = o2
    o3 = o3
    large = large
    small = small
    Owner = {o1, o2, o3}
    Pool = {large, small}
    PoolAt <- MCPoolAt
    PoolWords <- MCPoolWords
    Top = 25
    SlLog2 = 1
    FlMax = 4
    Requests = {2, 5}
    Aligns = {2}
SYMMETRY MCOwners
SPECIFICATION Spec
INVARIANTS
    PoolsPhysical
    ListsAccurate
    ContentsKept
    RefusedOnlyWhenFull
PROPERTIES
    ImplementsAllocator
CHECK_DEADLOCK FALSE
