SPECIFICATION FairSpec
CONSTANTS
    None = None
    Conns = {k1, k2}
    Callers = {c1, c2}
    MaxOps = 2
    MaxFaults = 1
INVARIANTS
    TypeOK
    NoUnmanagedConnection
    RevokedMeansClosed
    DeletedCollectsNothing
PROPERTIES
    RevokedConnectionsEnd
CHECK_DEADLOCK FALSE
