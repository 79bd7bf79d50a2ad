SPECIFICATION Spec
CONSTANTS
    Conns = {c1, c2, c3, c4}
    None = None
    Reader = reader
    Sender = sender
    Watcher = watcher
    Closer = closer
    Terms = {t1}
    Kinds = {"ssh", "active", "passive"}
    Servers = {1, 2, 3}
    Items = {"status", "cpu_usage", "expiry_reminder"}
    Thresholds = {1}
    Durations = {1, 2}
    MaxLevel = 2
    BatchSize = 2
    MaxBranches = 1
    MaxRows = 3
    MaxEdits = 3
    MaxFaults = 1
INVARIANTS
    ConnectionsOwned
    TerminalOwned
    RecordedWasTold
PROPERTIES
    ReconnectSettles
    TerminalEnds
    AlarmAnnounced
CHECK_DEADLOCK FALSE
