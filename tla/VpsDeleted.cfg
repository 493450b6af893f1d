CONSTANTS
    None = None
    Accounts = {v1}
    Wordpress = {}
    Servers = {s1, s2}
    Jobs = {j1, j2}
    Workers = {k1}
    Attempts <- OverlapAttempts
    MaxFails = 0
    LosesServers = FALSE
SPECIFICATION Spec
INVARIANTS DeletedIsCancelled
