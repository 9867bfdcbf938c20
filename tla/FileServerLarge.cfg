SPECIFICATION Spec
CONSTANTS
    Clients = {c1, c2}
    Boot = {c1}
    Files = {f1, f2}
    MAXOPEN = 2
    MAXFD = 2
    HalfGens = 1
    MaxOffset = 1
    Kill = FALSE
    None = None
INVARIANTS
    TypeOK
    FdsExact
    RequestReaches
    NewDescriptor
CHECK_DEADLOCK FALSE
