SPECIFICATION Spec
CONSTANTS
    Variant = {v1, v2}
    Base = base
    MaxAttempts = 2
    MaxEpisodes = 3
    MaxTakeovers = 2
INVARIANT LabelIsTrue
CHECK_DEADLOCK FALSE
