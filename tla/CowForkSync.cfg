SPECIFICATION Spec
CONSTANTS
    Envs = {e1, e2}
    First = e1
    NFrames = 4
    Values = {0, 1}
    Zero = 0
    NotBorn = NotBorn
INVARIANTS
    SyncReaches

CHECK_DEADLOCK FALSE
VIEW FrameView
