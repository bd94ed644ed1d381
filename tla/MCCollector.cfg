SPECIFICATION FairSpec
CONSTANTS
    a = a
    b = b
    c = c
    Null = Null
    Obj <- MCObj
    NSlots = 1
    Cyclic <- Pair
    MayHold <- LeafHolds
    HasForeign = {a}
    Threshold = 1
    MaxExt = 2
INVARIANTS
    WellFormed
    CountsSound
    CandidatesSound
    GarbageHasCandidate
PROPERTIES
    FreesSound
    HeapSpec
    CollectionEndsUnlessFed
