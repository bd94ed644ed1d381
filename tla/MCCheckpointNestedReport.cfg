CONSTANTS
    f = f
    g = g
    None = None
    Promise <- Two
    Kind <- FrameKind
    MaxJobs = 1
    MaxElements = 0
    PairMax = 0
    Fuel <- NestedReportFuel
    ForeignLoop = FALSE
    LoopTells = FALSE
    Landing = FALSE
SPECIFICATION CheckpointSpec
INVARIANT CandidateReleasedOnce
CHECK_DEADLOCK FALSE
