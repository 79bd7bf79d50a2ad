SPECIFICATION Spec
CONSTANTS
    None = None
    Conns = {k1, k2}
    Callers = {c1, c2}
    MaxOps = 1
    MaxFaults = 0
INVARIANTS
    ReinstallStopsOldAgent
CHECK_DEADLOCK FALSE
