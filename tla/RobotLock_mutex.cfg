CONSTANTS
    NoPid = NoPid
    p1 = p1
    p2 = p2
    v1 = v1
    Policy = {p1, p2}
    Vr = {v1}
    MayDie = {p1}
    Rounds = 1
SPECIFICATION Spec
INVARIANT MutualExclusion
\* Every process may have used its rounds, and a killed one does nothing.
CHECK_DEADLOCK FALSE
