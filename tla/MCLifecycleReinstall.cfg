SPECIFICATION Spec
CONSTANTS
    None = None
    Servers = {s1}
    Active = {s1}
    Stripes = {0}
    StripeOf <- OneStripe
    Callers = {c1, c2}
    Retries = {r1, r2}
    Workers = {w1, w2}
    MaxOps = 1
    MaxFaults = 0
    MaxCrashes = 0
INVARIANTS
    ReinstallRepairs
CHECK_DEADLOCK FALSE
