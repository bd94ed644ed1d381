CONSTANTS
    f = f
    g = g
    None = None
    Promise <- One
    Kind <- FrameKind
    MaxJobs = 1
    MaxElements = 0
    PairMax = 0
    Fuel <- NestedFuel
    ForeignLoop = TRUE
    LoopTells = TRUE
    Landing = FALSE
SPECIFICATION CheckpointSpec
INVARIANT StackSound
INVARIANT TaskRunsToCompletion
INVARIANT OutermostReports
CHECK_DEADLOCK FALSE
