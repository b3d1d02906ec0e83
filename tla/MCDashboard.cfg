SPECIFICATION FairSpec
CONSTANTS
    Scenario = {"normal", "attack"}
    First = "normal"
    Frames <- MCFrames
    Codes <- MCCodes
    MaxClicks = 3
INVARIANTS
    CountersAdd
    RunButtonNeverStuck
    StaleAtMostOnce
PROPERTIES
    CompleteIsWhole
    EveryRunEnds
\* The clicks are bounded.
CHECK_DEADLOCK FALSE
