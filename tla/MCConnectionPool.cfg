SPECIFICATION FairSpec
CONSTANTS
    r1 = r1
    r2 = r2
    r3 = r3
    r4 = r4
    None = None
    Request <- Calls
    Origin <- ThreeOrigins
    OriginOf <- Targets
    MaxConnections = 2
    MaxPerOrigin = 1
    MaxPending = 2
INVARIANTS
    PoolSound
    PumpSound
PROPERTIES
    InOrder
    ImplementsLeases
    Settles
CHECK_DEADLOCK FALSE
