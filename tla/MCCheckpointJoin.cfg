CONSTANTS
    f = f
    g = g
    None = None
    Promise <- One
    Kind <- FrameKind
    MaxJobs = 1
    MaxElements = 0
    PairMax = 0
    Fuel <- JoinFuel
    ForeignLoop = TRUE
    LoopTells = TRUE
    Landing = FALSE
SPECIFICATION CheckpointFairSpec
INVARIANT ReportsSound
INVARIANT CandidateReleasedOnce
PROPERTY JoinAnswers
PROPERTY JobsAndJoinsEnd
CHECK_DEADLOCK FALSE
