SPECIFICATION FairSpec
CONSTANTS
    Period = 2
    BmsTimeout = 2
    HpcTimeout = 6
    StatusTimeout = 6
    RetryAfter = 6
    Idle = 8
    Hold = 6
    HvReady = 2
    HvTarget = 3
    Lossy = {"0D5", "0EF", "0D2", "1D2", "2D2"}
    MaySkip = TRUE
INVARIANTS
    TypeOK
    ActiveNotLonger
PROPERTIES
    PrechargedFirst
    NotAskedForever
    ModesRecur
