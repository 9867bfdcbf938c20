SPECIFICATION FairSpec
CONSTANTS
    Clients = {c1, c2}
    Boot = {c1}
    Files = {f1, f2}
    MAXOPEN = 1
    MAXFD = 2
    HalfGens = 1
    MaxOffset = 1
    Kill = FALSE
    None = None
INVARIANTS
    FdsExact
    RequestReaches
    NewDescriptor
PROPERTY Answered
CHECK_DEADLOCK FALSE
