SPECIFICATION Spec
CONSTANTS
    Key = {a, b}
    NoKey = none
    Tol = 2
    MaxClock = 3
    MaxRows = 3
    MaxFrames = 3
SYMMETRY MCSymmetry
INVARIANTS
    OneToOne
    UnmatchedHasNone
    CapturedAttacksLabelled
\* The evaluation ends.
CHECK_DEADLOCK FALSE
