CONSTANTS
    u1 = u1
    u2 = u2
    o1 = o1
    o2 = o2
    o3 = o3
    None = None
    Users = {u1}
    Resellers = {u1}
    Orders = {o1}
    Owner <- OneOwner
    Payments = {p1, p2}
    Workers = {w1, w2}
    Amounts = {100}
    DaysUsed = {0, 15}
    Codes = {"SAVE10"}
    StoredCode = "SAVE10"
    PromoType = "PERCENTAGE"
    PromoValue = 50
    MaxUses = 1
    Opening = 120
    DunningLength = 2
    MaxFails = 0
    InvoiceFk = FALSE
SPECIFICATION Spec
SYMMETRY WorkerSymmetry
INVARIANTS NoOverdraft
