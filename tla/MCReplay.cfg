SPECIFICATION FairSpec
CONSTANTS
    Content <- MCContent
    Modes = {"idle", "boost"}
    MaxLines = 2
INVARIANTS
    AttributionSound
    WaitForDecision
    SuccessIsWhole
PROPERTIES
    StopEnds
    ReplayEnds
\* The service ends.
CHECK_DEADLOCK FALSE
