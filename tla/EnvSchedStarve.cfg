SPECIFICATION FairSpec
CONSTANTS
    NCPU = 1
    NENV = 3
    NBoot = 2
    MaxGen = 1
    Lapses = {}
PROPERTIES
    RunnableRuns
