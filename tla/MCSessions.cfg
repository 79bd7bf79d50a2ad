SPECIFICATION FairSpec
CONSTANTS
    Sids = {s1, s2, s3}
    NoSid = NoSid
    Teams = {1}
    Reqs = {r1, r2}
    MaxOps = 3
    MaxFaults = 2
INVARIANTS
    LiveSessionsAreListed
    TeamSessionsRevoked
PROPERTIES
    SignInRotates
    StreamsFollowAccess
CHECK_DEADLOCK FALSE
