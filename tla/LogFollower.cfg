CONSTANTS
    MaxLines = 5
    MaxFiles = 3
    MaxTruncations = 1
    InitialN = 1
    SilentRegrowth = FALSE
SPECIFICATION FairSpec
INVARIANTS
    TypeOK
    FollowsInOrder
    NothingSkipped
PROPERTY
    CatchesUp
