SPECIFICATION Spec
CONSTANTS
    Id = {1}
    Tol = 2
    Reach = 1
    MaxClock = 4
    MaxFrames = 3
INVARIANT UnprocessedIsMissed
CHECK_DEADLOCK FALSE
