CONSTANTS
    e = e
    f = f
    c = c
    None = None
    Promise <- Three
    Kind <- ThreeKinds
    MaxJobs = 2
    MaxElements = 2
    PairMax = 2
SPECIFICATION Spec
INVARIANT ResolutionSound
INVARIANT JobsSound
INVARIANT AllMeansAll
INVARIANT RejectionsKnown
PROPERTY SettlesOnce
CHECK_DEADLOCK FALSE
