SPECIFICATION MCSpec
CONSTANTS
    Producers = {p1, p2}
    QueueSize = 2
    BatchSize = 2
    WriteAttempts = 2
    MaxPoints = 4
    Readers = {s1, s2}
    MaxSources = 2
    MaxLoops = 2
    StreamLimit = 2
    Nobody = Nobody
INVARIANTS
    TypeOK
    Ledger
    NothingStranded
    ClientOutlivesWriter
    SourceIsShared
PROPERTIES
    ImplementsFeed
    WaitingPointLeaves
    ShutdownReturns
    SubscribersAreServed
CHECK_DEADLOCK FALSE
