CONSTANTS
    v1 = v1
    v2 = v2
    x = x
    base = base
    Variant = {v1, v2, x}
    Base = base
    Unsound = {x}
    GridCapacity = 2
    MaxPins = 1
SPECIFICATION FairSpec
INVARIANT PinnedStaysCached
INVARIANT PinsFollowUse
INVARIANT OneBuilder
INVARIANT FewRetries
INVARIANT TokenPerJob
INVARIANT WaitHasBuilder
PROPERTY CallReturns
\* A grid that has lost sight of the pins of all variants asks for none (MaxPins).
CHECK_DEADLOCK FALSE
