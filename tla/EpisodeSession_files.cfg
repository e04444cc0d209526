SPECIFICATION FairSpec
CONSTANTS
    Variant = {v1, v2}
    Base = base
    MaxAttempts = 2
    MaxEpisodes = 3
    MaxTakeovers = 2
INVARIANT OodRunsItsVariant
INVARIANT OneSceneToAFile
INVARIANT FramesFollowRows
INVARIANT TagsTellTakeoversApart
INVARIANT RowFollowsTakeover
INVARIANT RetryBudget
PROPERTY PolicyWaitsForCheck
PROPERTY ReleaseIsJudged
\* The window may be closed.
CHECK_DEADLOCK FALSE
