CONSTANTS
    t1 = t1
    t2 = t2
    t3 = t3
    w1 = w1
    None = None
    Task <- ThreeTasks
    Thread <- Worker
    Delays <- Millisecond
    MaxTimers = 1
    MaxPending = 1
    GenWrap = 4
    MaskWrap = 4
    ForeignLoop = TRUE
SPECIFICATION FairSpec
INVARIANT AwaitedHoldsLoop
PROPERTY QueuesRun
CHECK_DEADLOCK FALSE
