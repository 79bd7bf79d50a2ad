SPECIFICATION Spec
CONSTANTS
    None = None
    Servers = {s1, s2}
    Active = {s1}
    Stripes = {0}
    StripeOf <- OneStripe
    Callers = {c1, c2}
    Retries = {r1, r2}
    Workers = {w1, w2}
    MaxOps = 2
    MaxFaults = 1
    MaxCrashes = 0
SYMMETRY Symmetry
INVARIANTS
    TypeOK
    OneWorkerPerServer
    StopWaitsForWorker
    StaleRetryNeverActs
    DeletedStaysDown
    Settled
CHECK_DEADLOCK FALSE
