SPECIFICATION Spec
CONSTANTS
    Envs = {e1, e2}
    Reader = e1
    Writer = e2
    Unborn = {}
    NoEnv = NoEnv
    NCPU = 1
    PIPEBUFSIZ = 2
    MaxBytes = 1
INVARIANT EofIsEnd
CHECK_DEADLOCK FALSE
