SPECIFICATION Spec
CONSTANTS
    c1 = c1
    c2 = c2
    Change <- OneChange
    Reverts = {}
    Waiters = {c1}
    Outside = Outside
    None = None
    MaxRounds = 2
    MaxOutside = 0
    MaxCrashes = 0
    MaxClock = 1
    MaxWithdraws = 1
PROPERTY WithdrawnNeverLands
CHECK_DEADLOCK FALSE
