SPECIFICATION FairSpec
CONSTANTS
    \* Three frames of one identifier, a neighbourhood that may be too small.
    Id = {1}
    Tol = 2
    Reach = 1
    RecordingClock = 4
    MaxRecorded = 3
    \* Two bursts, a stall or a lag at every step.
    BurstsDuration = 7
    Gaps = {2}
    BurstLength = 1
    Period = 2
    MaxLag = 1
    BurstsClock = 8
    \* Three intervals, the last one short, and stalls over more than one.
    Interval = 2
    Duration = 5
    StabilityClock = 8
    MaxFrames = 3
    \* Two identifiers, histories that overflow, stamps that go backwards.
    Ids = {1, 2}
    Payloads = {0, 1}
    Stamps = {0, 1, 3}
    TEMP_WINDOW = 2
    BYTE_WINDOW = 3
    MaxLog = 5
INVARIANTS
    Attachment
    Windows
    Rows
    Histories
PROPERTIES
    RunEnds
\* Every program ends.
CHECK_DEADLOCK FALSE
