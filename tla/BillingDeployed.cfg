CONSTANTS
    u1 = u1
    u2 = u2
    o1 = o1
    o2 = o2
    o3 = o3
    None = None
    Users = {u1}
    Resellers = {u1}
    Orders = {o1, o2}
    Owner <- OneOwner
    Payments = {p1, p2}
    Workers = {w1}
    Amounts = {100}
    DaysUsed = {15}
    Codes = {"SAVE10"}
    StoredCode = "SAVE10"
    PromoType = "PERCENTAGE"
    PromoValue = 50
    MaxUses = 1
    Opening = 120
    DunningLength = 3
    MaxFails = 0
    InvoiceFk = TRUE
SPECIFICATION FairSpec
INVARIANTS CreditsOnRecord
PROPERTIES PendingIsResolved
