CONSTANTS
    NoPid = NoPid
    s1 = s1
    s2 = s2
    Session = {s1, s2}
    Initial = {s1}
    Min = 1
    Max = 1
    MayDie = {s1, s2}
    Faults = {"unread", "unwritten", "expired"}
SPECIFICATION FairSpec
INVARIANT CeilingUndisturbed
INVARIANT SoleWriter
PROPERTY ImplementsOodQuota
INVARIANT PublishedFloor
PROPERTY BoundaryReturns
\* Every session may have exited.
CHECK_DEADLOCK FALSE
