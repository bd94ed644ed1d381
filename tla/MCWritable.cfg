SPECIFICATION FairSpec
CONSTANTS
    Write = {w1, w2}
    Closer = {c1}
    Aborter = {a1, a2}
    Sizes = {0, 1}
    HighWaterMark = 1
    MaxWriters = 2
    None = None
INVARIANTS
    StreamSound
    WriterTold
PROPERTIES
    ImplementsSink
    CallsAnswered
CHECK_DEADLOCK FALSE
