SPECIFICATION Spec
CONSTANTS
    NCPU = 2
    NENV = 3
    NBoot = 2
    MaxGen = 1
    Lapses = {}
INVARIANT
    Cr3Live
