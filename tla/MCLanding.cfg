SPECIFICATION FairSpec
CONSTANTS
    c1 = c1
    c2 = c2
    Change <- TwoChanges
    Reverts = {c2}
    Waiters = {c1}
    Outside = Outside
    None = None
    MaxRounds = 2
    MaxOutside = 1
    MaxCrashes = 1
    MaxClock = 2
    MaxWithdraws = 1
INVARIANTS
    QueueSound
    LandedWasGreen
PROPERTIES
    ImplementsMainLine
    WaitedIsTaken
CHECK_DEADLOCK FALSE
