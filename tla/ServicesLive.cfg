CONSTANTS
    None = None
    Parts = {"domains", "mail", "certificates"}
    Workers = {w1, w2}
    MaxFaults = 1
    Users = {u1}
    Settings = {"autoRenew"}
    MaxTerm = 1
    Jobs = {j1}
    Attempts = 2
    MailOrders = {o1, o2}
    Certs = {c1}
    MaxCertFaults = 1
    Vps = {v1}
    N = 3
SPECIFICATION FairServicesSpec
PROPERTIES ApprovalEnds DeletionEnds IssuanceSettles
CHECK_DEADLOCK FALSE
