CONSTANTS
    None = None
    Accounts = {v1, w1}
    Wordpress = {w1}
    Servers = {s1, s2}
    Jobs = {j1, j2}
    Workers = {k1}
    Attempts <- TurnsAttempts
    MaxFails = 0
    LosesServers = TRUE
SPECIFICATION FairSpec
ACTION_CONSTRAINT NamesInOrder
INVARIANTS RejectedGetsNothing CredentialsPurged
PROPERTIES ProvisioningEnds
