SPECIFICATION Spec
CONSTANTS
    Clients = {c1, c2}
    Boot = {c1}
    Files = {f1, f2}
    MAXOPEN = 1
    MAXFD = 2
    HalfGens = 1
    MaxOffset = 1
    Kill = TRUE
    None = None
INVARIANT ServerLives
CHECK_DEADLOCK FALSE
