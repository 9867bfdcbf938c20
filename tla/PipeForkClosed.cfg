SPECIFICATION Spec
CONSTANTS
    Envs = {e1, e2, e3}
    Reader = e1
    Writer = e2
    Unborn = {e3}
    NoEnv = NoEnv
    NCPU = 1
    PIPEBUFSIZ = 1
    MaxBytes = 1
INVARIANT ClosedIsTrue
CHECK_DEADLOCK FALSE
