CONSTANTS
    None = None
    Parts = {"reminders"}
    Workers = {w1, w2}
    MaxFaults = 1
    Users = {u1}
    Settings = {"lock"}
    MaxTerm = 1
    Jobs = {j1}
    Attempts = 2
    MailOrders = {o1}
    Certs = {c1}
    MaxCertFaults = 0
    Vps = {v1}
    N = 1
SPECIFICATION ServicesSpec
INVARIANTS UnsentIsRetried
CHECK_DEADLOCK FALSE
