SPECIFICATION SpecOff
CONSTANTS
    RingSize = 4
    FifoDepth = 2
    CounterMod = 8
    ExtFrames = {2}
    MaxFrames = 4
    MaxTicks = 3
PROPERTIES
    OffIsOnWithoutVerdicts
