CONSTANTS
    None = None
    Parts = {"domains", "mail", "certificates", "reminders", "saga"}
    Workers = {w1, w2}
    MaxFaults = 1
    Users = {u1, u2}
    Settings = {"lock", "nameservers"}
    MaxTerm = 2
    Jobs = {j1, j2}
    Attempts = 2
    MailOrders = {o1, o2}
    Certs = {c1, c2}
    MaxCertFaults = 0
    Vps = {v1, v2}
    N = 3
SPECIFICATION ServicesSpec
CONSTRAINT AtStake
SYMMETRY ServicesSymmetry
INVARIANTS ServicesTypeOK ActiveIsHeld ExpiryNeverAhead ClaimsEnd SettingsAgree PaidIsOnRecord
    OrdersOnRecord CancelledIsDeleted ActiveIsServed OneLiveCert ActiveIsReadable
    RemindedOnce StatusIsTrue
PROPERTIES OwnerKept NeverRequeued ImplementsAllOrNothing
CHECK_DEADLOCK FALSE
