CONSTANTS
    t1 = t1
    t2 = t2
    t3 = t3
    w1 = w1
    None = None
    Task <- TwoTasks
    Thread <- Worker
    Delays <- Millisecond
    MaxTimers = 3
    MaxPending = 1
    GenWrap = 4
    MaskWrap = 4
    ForeignLoop = FALSE
SPECIFICATION Spec
INVARIANT TypeOK
INVARIANT TaskOwnership
INVARIANT SlotsExact
INVARIANT WakeupToCome
INVARIANT LiveTimersArmed
PROPERTY RunReturnsDrained
CHECK_DEADLOCK FALSE
