CONSTANTS
    t1 = t1
    t2 = t2
    t3 = t3
    w1 = w1
    None = None
    Task <- TwoTasks
    Thread <- Worker
    Delays <- Zero
    MaxTimers = 1
    MaxPending = 0
    GenWrap = 4
    MaskWrap = 4
    ForeignLoop = FALSE
SPECIFICATION Spec
INVARIANT LiveTimersArmed
CHECK_DEADLOCK FALSE
