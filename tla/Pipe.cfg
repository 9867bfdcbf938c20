SPECIFICATION FairSpec
CONSTANTS
    Envs = {e1, e2}
    Reader = e1
    Writer = e2
    Unborn = {e1}
    NoEnv = NoEnv
    NCPU = 1
    PIPEBUFSIZ = 1
    MaxBytes = 2
INVARIANTS
    TypeOK
    InOrder
    ClosedIsTrue
PROPERTY ReadReturns
CHECK_DEADLOCK FALSE
