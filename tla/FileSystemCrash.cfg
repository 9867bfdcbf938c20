SPECIFICATION Spec
CONSTANTS
    big = big
    small = small
    Files = {big, small}
    NBlocks = 2
    NDIRECT = 1
    NINDIRECT = 2
    near <- MCnear
    MaxSize <- MCMaxSize
    Hole = Hole
    NoData = NoData
    Idle = Idle
INVARIANT NothingShared
