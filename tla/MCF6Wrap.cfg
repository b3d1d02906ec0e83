SPECIFICATION Spec
CONSTANTS
    RingSize = 2
    FifoDepth = 1
    CounterMod = 3
    ExtFrames = {2}
    Codes <- MCCodes
    MaxFrames = 2
    MaxTicks = 4
PROPERTIES
    ControlPriority
