SPECIFICATION Spec
CONSTANTS
    p1 = p1
    p2 = p2
    p3 = p3
    Proc = {p1, p2, p3}
    NoProc = NoProc
    Crashes = FALSE
CHECK_DEADLOCK FALSE
SYMMETRY Interchangeable
INVARIANTS MutualExclusion
