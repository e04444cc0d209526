CONSTANTS
    Nobody = Nobody
    s1 = s1
    s2 = s2
    v1 = v1
    Session = {s1, s2}
    Vr = {v1}
    MayDie = {s1, s2}
    MayMirror = {s1}
    MayBreak = {s2}
SPECIFICATION FairSpec
PROPERTY ImplementsArmSchedule
INVARIANT NoArmLeak
INVARIANT NoAbandonedRequest
INVARIANT QueuedBehindReturn
PROPERTY ReturnHomeReleases
PROPERTY QueuedIsAttempted
\* Every process may have stopped.
CHECK_DEADLOCK FALSE
