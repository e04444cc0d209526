CONSTANTS
    NoPid = NoPid
    p1 = p1
    p2 = p2
    v1 = v1
    Policy = {p1, p2}
    Vr = {v1}
    MayDie = {p1}
    Rounds = 2
SPECIFICATION FairSpec
INVARIANT NoLeak
PROPERTY StaleLockReclaimed
PROPERTY ImplementsArmMutex
\* Every process may have stopped.
CHECK_DEADLOCK FALSE
