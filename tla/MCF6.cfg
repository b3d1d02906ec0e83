SPECIFICATION FairSpec
CONSTANTS
    RingSize = 4
    FifoDepth = 2
    CounterMod = 8
    ExtFrames = {2}
    Codes <- MCCodes
    MaxFrames = 5
    MaxTicks = 5
CONSTRAINT MCBound
INVARIANTS
    EveryFrameAccounted
    EveryVerdictCounted
    OverrunNoticed
    NoTornFrame
    DeadlineStatistics
    ArrivalSpan
PROPERTIES
    ImplementsFifo
    ControlPriority
    EveryFrameSettled
