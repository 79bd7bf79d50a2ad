SPECIFICATION FairSpec
CONSTANTS
    None = None
    Servers = {s1}
    Active = {s1}
    Stripes = {0}
    StripeOf <- OneStripe
    Callers = {c1, c2}
    Retries = {r1, r2}
    Workers = {w1}
    MaxOps = 2
    MaxFaults = 1
    MaxCrashes = 1
PROPERTIES
    Converges
CHECK_DEADLOCK FALSE
