CONSTANTS
    NoClient = NoClient
    c1 = c1
    c2 = c2
    Client = {c1, c2}
    Impatient = {c1}
    MayDie = {c1}
    Slots = 2
SPECIFICATION FairSpec
INVARIANT BeliefIsTrue
INVARIANT TakeoverIsOwned
INVARIANT NoOrphan
INVARIANT OneMoverUnlessOverlap
PROPERTY ImplementsArmMutex
PROPERTY ReturnEnds
\* The service may have stopped.
CHECK_DEADLOCK FALSE
