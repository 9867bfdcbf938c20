SPECIFICATION Spec
CONSTANTS
    Envs = {e1, e2}
    Reader = e1
    Writer = e2
    Unborn = {}
    NoEnv = NoEnv
    NCPU = 2
    PIPEBUFSIZ = 1
    MaxBytes = 1
INVARIANT ClosedIsTrue
CHECK_DEADLOCK FALSE
