SPECIFICATION FairSpec
CONSTANTS
    Size = 4
    Need = 4
    PipeCap = 2
    DuplexCap = 1
INVARIANTS
    TypeOK
    OkMeansVerified
    NoSelfInflictedFailure
    RightBlame
PROPERTIES
    Contract
    FetchEnds
    ResourcesReleased
CHECK_DEADLOCK FALSE
