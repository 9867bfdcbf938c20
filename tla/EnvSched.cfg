SPECIFICATION FairSpec
CONSTANTS
    NCPU = 2
    NENV = 3
    NBoot = 2
    MaxGen = 1
    Lapses = {}
INVARIANTS
    FreeListExact
    OneCPU
    RunningExact
    RecvingIsBlocked
    Cr3Current
PROPERTIES
    DyingOnlyFreed
    RunnableRunsOnceStable
