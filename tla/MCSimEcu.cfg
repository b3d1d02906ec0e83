SPECIFICATION FairSpec
CONSTANTS
    RingSize = 2
    TxSize = 3
    Burst = 2
    CounterMod = 2
    MaxWaiting = 1
    MaxFrames = 4
INVARIANTS
    ArrivalOfFrame
    NeverSleepsOnWork
PROPERTIES
    ImplementsTxFifo
    TransmitQueueEmpties
    SleepEnds
