SPECIFICATION Spec
CONSTANTS
    Envs = {e1, e2}
    NVA = 3
    NPT = 2
    Pages = {k, p1, p2, p3, p4, p5}
    KernPage = k
    NoPage = NoPage
SYMMETRY AllFree
INVARIANT NoPanic
