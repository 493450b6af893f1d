CONSTANTS
    None = None
    Accounts = {v1}
    Wordpress = {}
    Servers = {s1, s2}
    Jobs = {j1, j2}
    Workers = {k1, k2}
    Attempts <- OverlapAttempts
    MaxFails = 1
    LosesServers = FALSE
SPECIFICATION Spec
SYMMETRY VpsSymmetry
INVARIANTS TypeOK NoServerUnapproved ApprovedLeavesTheQueue
PROPERTIES ImplementsPaidServers
