SPECIFICATION Spec
CONSTANTS
    Parts = {"ssh", "agent", "oauth", "team"}
    MaxLogins = 4
    MaxClock = 3
    Own = {2}
    WtmpOverlap = 2
    WtmpTail = 3
    LastLines = 1
    MaxAgentLogins = 3
    MaxAgentClock = 2
    MaxInodes = 2
    MaxSeen = 2
    EvictCount = 1
    MaxPerReport = 1
    Admins = {a1, a2}
    Requests = {r1, r2}
    Users = {u1, u2}
    Subjects = {subject}
    Namespaces = {ns1, ns2}
    MaxRevision = 2
    MaxStates = 2
    Team = {1, 2}
    Import = {i1, i2}
    MaxId = 7
    MaxEdits = 1
SYMMETRY Symmetry
INVARIANTS
    SshLoginOnce
    AgentLoginOnce
    AccountsAreProved
    MemoryFollowsRow
    
