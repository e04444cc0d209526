CONSTANTS
    w1 = w1
    w2 = w2
    c1 = c1
    c2 = c2
    base = base
    v = v
    x = x
    Worker = {w1, w2}
    Camera = {c1, c2}
    Model = {base, v, x}
    Base = base
    Unbuildable = {x}
    MaxSeq <- MCMaxSeq
SPECIFICATION FairSpec
INVARIANT EveryJobHasToken
INVARIANT SurplusBounded
INVARIANT PublishedOnModel
PROPERTY ImplementsFrameFlow
PROPERTY JobIsTaken
\* The runtime may have stopped.
CHECK_DEADLOCK FALSE
