CONSTANTS
    u1 = u1
    u2 = u2
    o1 = o1
    o2 = o2
    o3 = o3
    None = None
    Users = {u1}
    Resellers = {u1}
    Orders = {o1}
    Owner <- OneOwner
    Payments = {p1, p2}
    Workers = {w1, w2}
    Amounts = {100}
    DaysUsed = {15}
    Codes = {}
    StoredCode = "SAVE10"
    PromoType = "FIXED_AMOUNT"
    PromoValue = 50
    MaxUses = 1
    Opening = 120
    DunningLength = 2
    MaxFails = 1
    InvoiceFk = FALSE
SPECIFICATION Spec
SYMMETRY TableSymmetry
INVARIANTS IInv KhaltiPaymentWasCaptured WalletConservation PaidMeansSettled
PROPERTIES InternalPaymentsAreFinal
