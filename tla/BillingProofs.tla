----------------------------- MODULE BillingProofs -----------------------------
(****************************************************************************)
(* Billing proved for any number of customers, rows, workers and failures:  *)
(* what the money arithmetic returns, the types, and the invariant that     *)
(* ties a completed order, a paid invoice and a completed payment to one    *)
(* settlement, however handlers interleave.                                 *)
(****************************************************************************)
EXTENDS BillingProperties, TLAPS

--------------------------------------------------------------------------------
\* What the money arithmetic returns, for every amount.

\* Rounding half up gives a natural number within half a unit of the fraction,
\* the larger of the two nearest on a tie (Math.round on an amount that is not
\* negative).
LEMMA RoundHalfUpNearest ==
    ASSUME NEW a \in Nat, NEW b \in {30, 100}
    PROVE  /\ RoundHalfUp(a, b) \in Nat
           /\ 2 * b * RoundHalfUp(a, b) <= 2 * a + b
           /\ 2 * a < 2 * b * RoundHalfUp(a, b) + b
  BY DEF RoundHalfUp

\* VAT is the thirteen per cent of the amount, to the nearest paisa, so what a
\* customer is charged is never less than the taxable amount and never more
\* than 13 per cent and half a paisa above it (createOrder, renewOrder,
\* upgradePlan and calculateVAT round in the same way).
THEOREM VatIsNearest ==
    ASSUME NEW x \in Nat
    PROVE  /\ Vat(x) \in Nat
           /\ WithVat(x) \in Nat
           /\ x <= WithVat(x)
           /\ 200 * Vat(x) <= 26 * x + 100
           /\ 26 * x < 200 * Vat(x) + 100
<1>1. 13 * x \in Nat
  OBVIOUS
<1>2. /\ RoundHalfUp(13 * x, 100) \in Nat
      /\ 2 * 100 * RoundHalfUp(13 * x, 100) <= 2 * (13 * x) + 100
      /\ 2 * (13 * x) < 2 * 100 * RoundHalfUp(13 * x, 100) + 100
  BY <1>1, RoundHalfUpNearest
<1>3. QED
  BY <1>2 DEF Vat, WithVat

\* A larger taxable amount is never charged less: rounding keeps the order.
THEOREM WithVatMonotone ==
    ASSUME NEW x \in Nat, NEW y \in Nat, x <= y
    PROVE  WithVat(x) <= WithVat(y)
<1>1. /\ Vat(x) \in Nat
      /\ Vat(y) \in Nat
      /\ 200 * Vat(x) <= 26 * x + 100
      /\ 26 * y < 200 * Vat(y) + 100
  BY VatIsNearest
<1>2. 200 * Vat(x) < 200 * Vat(y) + 200
  BY <1>1
<1>3. QED
  BY <1>1, <1>2 DEF WithVat

--------------------------------------------------------------------------------

LEMMA ProductNat ==
    ASSUME NEW a \in Nat, NEW b \in Nat
    PROVE  a * b \in Nat
  OBVIOUS

LEMMA AtLeastZeroNat ==
    ASSUME NEW a \in Int
    PROVE  /\ AtLeastZero(a) \in Nat
           /\ a <= AtLeastZero(a)
           /\ AtLeastZero(a) = 0 \/ AtLeastZero(a) = a
  BY DEF AtLeastZero

\* Whatever the discount, even one above the subtotal, the total is an amount.
LEMMA OrderTotalNat ==
    ASSUME NEW subtotal \in Nat, NEW discount \in Nat
    PROVE  OrderTotal(subtotal, discount) \in Nat
<1>1. AtLeastZero(subtotal - discount) \in Nat
  BY AtLeastZeroNat
<1>2. QED
  BY <1>1, VatIsNearest DEF OrderTotal

LEMMA PercentOffNat ==
    ASSUME NEW subtotal \in Nat, NEW percent \in Nat
    PROVE  PercentOff(subtotal, percent) \in Nat
<1>1. subtotal * percent \in Nat
  BY ProductNat
<1>2. QED
  BY <1>1, RoundHalfUpNearest DEF PercentOff

LEMMA PromoDiscountNat ==
    ASSUME NEW subtotal \in Nat, NEW value \in Nat, NEW type
    PROVE  PromoDiscount(type, subtotal, value) \in Nat
  BY PercentOffNat DEF PromoDiscount, FixedOff, Least

\* A month's term: the credit is an amount between nothing and the old price,
\* so an upgrade never gives back more than the old order's price and never
\* costs more than the new plan (upgradePlan).
THEOREM ProrationBounds ==
    ASSUME NEW newSubtotal \in Nat, NEW amount \in Nat, NEW daysUsed \in Nat
    PROVE  /\ UpgradeCredit(amount, 1, daysUsed) \in 0 .. amount
           /\ ProratedAmount(newSubtotal, amount, 1, daysUsed) \in 0 .. newSubtotal
<1> DEFINE left == DaysLeft(1, daysUsed)
           credit == UpgradeCredit(amount, 1, daysUsed)
<1>1. left \in 0 .. 30
  BY DEF DaysLeft, AtLeastZero, DaysPerMonth
<1>2. amount * left \in Nat
  BY <1>1, ProductNat
<1>3. amount * left <= amount * 30
  <2>1. /\ amount * (30 - left) \in Nat
        /\ amount * (30 - left) = amount * 30 - amount * left
    BY <1>1, ProductNat
  <2>2. QED
    BY <1>2, <2>1
<1>4. credit = RoundHalfUp(amount * left, 30)
  BY DEF UpgradeCredit, DaysPerMonth
<1>5. credit \in Nat /\ 2 * 30 * credit <= 2 * (amount * left) + 30
  BY <1>2, <1>4, RoundHalfUpNearest
<1>6. credit <= amount
  <2> HIDE DEF credit, left
  <2>1. 60 * credit <= 60 * amount + 30
    BY <1>1, <1>2, <1>3, <1>5
  <2>2. QED
    BY <1>5, <2>1
<1>7. ProratedAmount(newSubtotal, amount, 1, daysUsed) \in 0 .. newSubtotal
  BY <1>5 DEF ProratedAmount, AtLeastZero
<1>8. QED
  BY <1>5, <1>6, <1>7

--------------------------------------------------------------------------------
\* The records.

LEMMA NoneIsNoRow == None \notin Orders /\ None \notin Payments /\ None \notin Users
  BY SetsAssumption

LEMMA OrderFields ==
    ASSUME NEW r \in OrderRow
    PROVE  /\ r.status \in OrderStatus
           /\ r.amt \in Nat
           /\ r.total \in Nat
           /\ r.topup \in BOOLEAN
           /\ r.promo \in Codes \cup {None}
           /\ r.pay \in Payments \cup {None}
  BY DEF OrderRow

LEMMA PaymentFields ==
    ASSUME NEW r \in PaymentRow
    PROVE  /\ r.status \in PaymentStatus
           /\ r.o \in Orders \cup {None}
           /\ r.gateway \in Online \cup Internal \cup {"NONE"}
           /\ r.amt \in Nat
  BY DEF PaymentRow

LEMMA WorkerFields ==
    ASSUME NEW r \in WorkerRow
    PROVE  /\ r.pc \in Steps
           /\ r.o \in Orders \cup {None}
           /\ r.p \in Payments \cup {None}
           /\ r.g \in GatewayChoices \cup {"NONE"}
           /\ r.row \in OrderRow
           /\ r.job \in Job \cup {None}
  BY DEF WorkerRow

LEMMA JobFields ==
    ASSUME NEW j \in Job
    PROVE  /\ j.p \in Payments
           /\ j.k \in Nat
           /\ [j EXCEPT !.kind = "email"] \in Job
           /\ [j EXCEPT !.k = @ + 1] \in Job
  BY DEF Job

LEMMA NoOrderType == NoOrder \in OrderRow
  BY DEF NoOrder, OrderRow, OrderStatus

LEMMA NewOrderType ==
    ASSUME NEW amt \in Nat, NEW total \in Nat, NEW topup \in BOOLEAN
    PROVE  NewOrder(amt, total, topup) \in OrderRow
  BY DEF NewOrder, NoOrder, OrderRow, OrderStatus

LEMMA OrderUpdateType ==
    ASSUME NEW r \in OrderRow, NEW status \in OrderStatus, NEW total \in Nat,
           NEW p \in Payments
    PROVE  /\ [r EXCEPT !.status = status] \in OrderRow
           /\ [r EXCEPT !.pay = p] \in OrderRow
           /\ [r EXCEPT !.status = status, !.pay = p, !.total = total] \in OrderRow
           /\ [r EXCEPT !.total = total] \in OrderRow
  BY DEF OrderRow

LEMMA NewPaymentType ==
    ASSUME NEW o \in Orders, NEW gateway \in Online \cup Internal, NEW amt \in Nat,
           NEW status \in PaymentStatus
    PROVE  NewPayment(o, gateway, amt, status) \in PaymentRow
  BY DEF NewPayment, PaymentRow

LEMMA PaymentUpdateType ==
    ASSUME NEW r \in PaymentRow, NEW status \in PaymentStatus
    PROVE  [r EXCEPT !.status = status] \in PaymentRow
  BY DEF PaymentRow

LEMMA IdleType == Idle \in WorkerRow
  BY NoOrderType DEF Idle, WorkerRow, Steps

LEMMA WorkerStepType ==
    ASSUME NEW r \in WorkerRow, NEW pc \in Steps
    PROVE  /\ [r EXCEPT !.pc = pc] \in WorkerRow
           /\ [r EXCEPT !.pc = pc, !.p = None] \in WorkerRow
           /\ [r EXCEPT !.pc = pc, !.g = "NONE"] \in WorkerRow
  BY DEF WorkerRow

LEMMA WorkerRowType ==
    ASSUME NEW r \in WorkerRow, NEW pc \in Steps, NEW row \in OrderRow
    PROVE  [r EXCEPT !.pc = pc, !.row = row] \in WorkerRow
  BY DEF WorkerRow

LEMMA WorkerPaymentType ==
    ASSUME NEW r \in WorkerRow, NEW pc \in Steps, NEW p \in Payments
    PROVE  [r EXCEPT !.pc = pc, !.p = p] \in WorkerRow
  BY DEF WorkerRow

LEMMA RequestTypes ==
    ASSUME NEW pc \in Steps, NEW o \in Orders, NEW row \in OrderRow
    PROVE  /\ [Idle EXCEPT !.pc = pc, !.o = o] \in WorkerRow
           /\ [Idle EXCEPT !.pc = pc, !.o = o, !.row = row] \in WorkerRow
           /\ \A g \in GatewayChoices :
                 [Idle EXCEPT !.pc = pc, !.o = o, !.g = g, !.row = row] \in WorkerRow
           /\ \A p \in Payments :
                 /\ [Idle EXCEPT !.pc = pc, !.o = o, !.p = p] \in WorkerRow
                 /\ [Idle EXCEPT !.o = o, !.p = p, !.pc = pc] \in WorkerRow
                 /\ \A j \in Job :
                       [Idle EXCEPT !.pc = pc, !.o = o, !.p = p, !.job = j] \in WorkerRow
  BY NoOrderType DEF WorkerRow, Idle

--------------------------------------------------------------------------------
\* The types are preserved.

LEMMA HandlerHasOrder ==
    ASSUME IInv, NEW w \in Workers, ~At(w, "idle")
    PROVE  worker[w].o \in Orders
  BY DEF IInv, CreatorInv, HandlerInv, Creating, At

LEMMA BecomeType ==
    ASSUME TypeOK, NEW w \in Workers, NEW next \in WorkerRow, Become(w, next)
    PROVE  worker' \in [Workers -> WorkerRow]
  BY DEF Become, TypeOK

LEMMA ReturnType ==
    ASSUME TypeOK, NEW w \in Workers, Return(w)
    PROVE  worker' \in [Workers -> WorkerRow]
  BY BecomeType, IdleType DEF Return

LEMMA GotoType ==
    ASSUME TypeOK, NEW w \in Workers, NEW step \in Steps, Goto(w, step) \/ Settle(w, step)
    PROVE  worker' \in [Workers -> WorkerRow]
<1>1. worker[w] \in WorkerRow
  BY DEF TypeOK
<1>2. /\ [worker[w] EXCEPT !.pc = step] \in WorkerRow
      /\ [worker[w] EXCEPT !.pc = step, !.g = "NONE"] \in WorkerRow
  BY <1>1, WorkerStepType
<1>3. QED
  BY <1>2, BecomeType DEF Goto, Settle

LEMMA PayInvoicesType ==
    ASSUME TypeOK, NEW o \in Orders, PayInvoices(o)
    PROVE  invoice' \in [Orders -> InvoiceStatus]
  BY DEF TypeOK, PayInvoices, InvoiceStatus

LEMMA SettleWithType ==
    ASSUME TypeOK, NEW o \in Orders, NEW p \in Payments, NEW row \in PaymentRow,
           NEW total \in Nat, SettleWith(o, p, row, total)
    PROVE  /\ order' \in [Orders -> OrderRow]
           /\ payment' \in [Payments -> PaymentRow]
           /\ invoice' \in [Orders -> InvoiceStatus]
<1>1. order[o] \in OrderRow
  BY DEF TypeOK
<1>2. [order[o] EXCEPT !.status = "COMPLETED", !.pay = p, !.total = total] \in OrderRow
  BY <1>1, OrderUpdateType DEF OrderStatus
<1>3. order' = [order EXCEPT ![o] =
                   [order[o] EXCEPT !.status = "COMPLETED", !.pay = p, !.total = total]]
  BY DEF SettleWith, TypeOK
<1>4. QED
  BY <1>2, <1>3, PayInvoicesType DEF SettleWith, TypeOK

LEMMA RequestTypeStep ==
    ASSUME TypeOK, IInv, NEW w \in Workers, Request(w)
    PROVE  TypeOK'
<1> USE NumbersAssumption
<1>1. \A u : u \in Orders => order[u] \in OrderRow
  BY DEF TypeOK
<1>2. ASSUME NEW o \in Orders, NEW a \in Amounts, NEW code \in Codes \cup {None},
             CreateOrder(w, o, a, code)
      PROVE  TypeOK'
  <2> DEFINE free == isFree[Owner[o]]
             total == OrderTotal(a, IF free THEN a ELSE 0)
             status == IF free THEN "COMPLETED" ELSE "PENDING"
             promo == IF free THEN None ELSE code
             row == [NewOrder(a, total, FALSE) EXCEPT !.status = status, !.promo = promo]
             step == IF row.promo = None THEN "invoice" ELSE "promo"
  <2>1. a \in Nat
    BY DEF NumbersAssumption
  <2>2. total \in Nat
    BY <2>1, OrderTotalNat
  <2>3. NewOrder(a, total, FALSE) \in OrderRow
    BY <2>1, <2>2, NewOrderType
  <2>4. row \in OrderRow
    <3>1. status \in OrderStatus /\ promo \in Codes \cup {None}
      BY DEF OrderStatus
    <3> HIDE DEF free, total, status, promo
    <3>2. QED
      BY <2>3, <3>1 DEF OrderRow
  <2>5. step \in Steps
    BY DEF Steps
  <2>6. Become(w, [Idle EXCEPT !.pc = step, !.o = o, !.row = row])
    BY <1>2 DEF CreateOrder
  <2> HIDE DEF row, step
  <2>7. worker' \in [Workers -> WorkerRow]
    BY <2>4, <2>5, <2>6, RequestTypes, BecomeType
  <2>8. QED
    BY <1>2, <2>7 DEF CreateOrder, TypeOK, tables, purse, outside
<1>3. ASSUME NEW o \in Orders, NEW a \in Amounts, NEW g \in GatewayChoices,
             TopupWallet(w, o, a, g)
      PROVE  TypeOK'
  <2>1. NewOrder(a, a, TRUE) \in OrderRow
    BY NewOrderType DEF NumbersAssumption
  <2>2. worker' \in [Workers -> WorkerRow]
    BY <1>3, <2>1, RequestTypes, BecomeType DEF TopupWallet, Steps
  <2>3. QED
    BY <1>3, <2>1, <2>2 DEF TopupWallet, TypeOK, purse, outside
<1>4. ASSUME NEW o \in Orders, NEW g \in GatewayChoices, InitiatePayment(w, o, g)
      PROVE  TypeOK'
  <2>1. worker' \in [Workers -> WorkerRow]
    BY <1>1, <1>4, RequestTypes, BecomeType, ReturnType DEF InitiatePayment, ReadOrder, Steps
  <2>2. QED
    BY <1>4, <2>1 DEF InitiatePayment, TypeOK, tables, purse, outside
<1>5. ASSUME NEW o \in Orders, NEW n \in Orders, NEW row \in OrderRow,
             InsertSuccessor(w, o, n, row)
      PROVE  TypeOK'
  <2>1. worker' \in [Workers -> WorkerRow]
    BY <1>5, RequestTypes, BecomeType DEF InsertSuccessor, Steps
  <2>2. QED
    BY <1>5, <2>1 DEF InsertSuccessor, TypeOK, purse, outside
<1>6. ASSUME NEW o \in Orders, NEW n \in Orders, RenewOrder(w, o, n)
      PROVE  TypeOK'
  <2>1. order[o].amt \in Nat /\ order[o].topup \in BOOLEAN
    BY <1>1, OrderFields
  <2>2. NewOrder(order[o].amt, WithVat(order[o].amt), order[o].topup) \in OrderRow
    BY <2>1, VatIsNearest, NewOrderType
  <2>3. QED
    BY <1>5, <1>6, <2>2 DEF RenewOrder
<1>7. ASSUME NEW o \in Orders, NEW n \in Orders, NEW a \in Amounts, NEW d \in DaysUsed,
             UpgradePlan(w, o, n, a, d)
      PROVE  TypeOK'
  <2> DEFINE amt == ProratedAmount(a, order[o].amt, 1, d)
  <2>1. a \in Nat /\ d \in Nat /\ order[o].amt \in Nat
    BY <1>1, OrderFields DEF NumbersAssumption
  <2>2. amt \in 0 .. a
    BY <2>1, ProrationBounds
  <2>3. amt \in Nat
    BY <2>1, <2>2
  <2>4. NewOrder(amt, WithVat(amt), FALSE) \in OrderRow
    BY <2>3, VatIsNearest, NewOrderType
  <2>5. QED
    BY <1>5, <1>7, <2>4 DEF UpgradePlan
<1>8. ASSUME NEW p \in Payments, NEW ok \in BOOLEAN, ReceiveWebhook(w, p, ok)
      PROVE  TypeOK'
  <2>1. payment[p].o \in Orders
    BY <1>8 DEF ReceiveWebhook, IInv, TablesInv, Online
  <2>2. (IF ok THEN "accepted" ELSE "refused") \in Steps
    BY DEF Steps
  <2>3. worker' \in [Workers -> WorkerRow]
    BY <1>8, <2>1, <2>2, NoOrderType, RequestTypes, BecomeType DEF ReceiveWebhook
  <2>4. QED
    BY <1>8, <2>3 DEF ReceiveWebhook, TypeOK, tables, purse, outside
<1>9. ASSUME NEW o \in Orders, CancelOrder(w, o)
      PROVE  TypeOK'
  <2>1. worker' \in [Workers -> WorkerRow]
    BY <1>1, <1>9, RequestTypes, BecomeType DEF CancelOrder, Steps
  <2>2. QED
    BY <1>9, <2>1 DEF CancelOrder, TypeOK, tables, purse, outside
<1>10. ASSUME NEW o \in Orders, DunningSweep(w, o)
       PROVE  TypeOK'
  <2>1. worker' \in [Workers -> WorkerRow]
    BY <1>10, NoOrderType, RequestTypes, BecomeType DEF DunningSweep, Steps
  <2>2. QED
    BY <1>10, <2>1 DEF DunningSweep, TypeOK, tables, purse, outside
<1>11. QED
  BY <1>2, <1>3, <1>4, <1>6, <1>7, <1>8, <1>9, <1>10 DEF Request

LEMMA RunJobType ==
    ASSUME TypeOK, NEW w \in Workers, NEW j \in Job, NEW o \in Orders,
           NEW step \in Steps, RunJob(w, j, o, step)
    PROVE  worker' \in [Workers -> WorkerRow]
<1>1. j.p \in Payments
  BY JobFields
<1>2. [Idle EXCEPT !.pc = step, !.o = o, !.p = j.p, !.job = j] \in WorkerRow
  BY <1>1, NoOrderType, RequestTypes
<1>3. QED
  BY <1>2, IdleType, BecomeType DEF RunJob

LEMMA StartJobTypeStep ==
    ASSUME TypeOK, IInv, NEW w \in Workers, NEW j \in jobs, StartJob(w, j)
    PROVE  TypeOK'
<1>1. /\ j \in Job
      /\ j.p \in Payments
      /\ payment[j.p].o \in Orders
  BY JobFields DEF TypeOK, IInv, TablesInv, GatewayPayment, Online
<1>2. \A step \in Steps : RunJob(w, j, payment[j.p].o, step)
                              => worker' \in [Workers -> WorkerRow]
  BY <1>1, RunJobType
<1>3. {"idle", "lapse", "remind", "next", "overdue"} \subseteq Steps
  BY DEF Steps
<1>4. CASE ExpiryCheck(w, j)
  <2>1. worker' \in [Workers -> WorkerRow]
    BY <1>2, <1>3, <1>4 DEF ExpiryCheck
  <2>2. QED
    BY <1>4, <2>1 DEF ExpiryCheck, TakeJob, TypeOK, tables, purse, outside
<1>5. CASE PaymentRetry(w, j)
  <2>1. worker' \in [Workers -> WorkerRow]
    BY <1>2, <1>3, <1>5 DEF PaymentRetry
  <2>2. QED
    BY <1>5, <2>1 DEF PaymentRetry, TakeJob, TypeOK, tables, purse, outside
<1>6. CASE DunningEmail(w, j)
  <2>1. worker' \in [Workers -> WorkerRow]
    BY <1>2, <1>3, <1>6 DEF DunningEmail
  <2>2. QED
    BY <1>6, <2>1 DEF DunningEmail, TakeJob, TypeOK, tables, purse, outside
<1>7. QED
  BY <1>4, <1>5, <1>6 DEF StartJob

\* Steps that only read, and leave for one of a few next steps.
LEMMA ReadingTypeStep ==
    ASSUME TypeOK, IInv, NEW w \in Workers,
           \/ ValidatePromoCode(w) \/ TopupExempt(w) \/ InitiateTopup(w)
           \/ CheckExempt(w) \/ FindPending(w) \/ GatewayRefuses(w)
           \/ ReadBalance(w) \/ SettleIfExempt(w)
           \/ \E ok \in BOOLEAN : FindPayment(w, ok)
    PROVE  TypeOK'
<1>1. worker[w] \in WorkerRow
  BY DEF TypeOK
<1>2. \A step \in {"invoice", "credit", "initiate", "exempt", "find", "settle",
                   "charge", "expire", "deduct", "paid", "declined", "mismatch"} :
         step \in Steps
  BY DEF Steps
<1>3. UNCHANGED <<order, invoice, payment, wallet, credited, captured, isFree, fails,
                  promoUsed, jobs>>
  BY DEF ValidatePromoCode, TopupExempt, InitiateTopup, CheckExempt, FindPending,
         GatewayRefuses, ReadBalance, SettleIfExempt, FindPayment, tables, purse, outside
<1>4. ASSUME ValidatePromoCode(w) PROVE worker' \in [Workers -> WorkerRow]
  <2> DEFINE row == worker[w].row
             total == OrderTotal(row.amt, PromoDiscount(PromoType, row.amt, PromoValue))
  <2>1. row \in OrderRow /\ row.amt \in Nat
    BY <1>1, WorkerFields, OrderFields
  <2>2. total \in Nat
    BY <2>1, NumbersAssumption, PromoDiscountNat, OrderTotalNat
  <2> HIDE DEF total
  <2>3. [row EXCEPT !.total = total] \in OrderRow
    BY <2>1, <2>2 DEF OrderRow
  <2>4. [worker[w] EXCEPT !.pc = "invoice", !.row.total = total] \in WorkerRow
    BY <1>1, <1>2, <2>3, WorkerRowType
  <2>5. QED
    BY <1>4, <2>4, ReturnType, BecomeType DEF ValidatePromoCode, total
<1>5. ASSUME InitiateTopup(w) PROVE worker' \in [Workers -> WorkerRow]
  <2>1. worker[w].o \in Orders
    BY <1>5, HandlerHasOrder DEF InitiateTopup, At
  <2>2. order[worker[w].o] \in OrderRow
    BY <2>1 DEF TypeOK
  <2>3. worker[w].g \in GatewayChoices
        => [Idle EXCEPT !.pc = "exempt", !.o = worker[w].o, !.g = worker[w].g,
                        !.row = order[worker[w].o]] \in WorkerRow
    BY <1>2, <2>1, <2>2, RequestTypes
  <2>4. [Idle EXCEPT !.pc = "exempt", !.o = worker[w].o, !.g = "NONE",
                     !.row = order[worker[w].o]] \in WorkerRow
    BY <1>2, <2>1, <2>2 DEF WorkerRow, Idle
  <2>5. worker[w].g \in GatewayChoices \/ worker[w].g = "NONE"
    BY <1>1, WorkerFields
  <2>6. QED
    BY <1>5, <2>3, <2>4, <2>5, ReturnType, BecomeType DEF InitiateTopup, ReadOrder
<1>6. ASSUME FindPending(w) PROVE worker' \in [Workers -> WorkerRow]
  BY <1>1, <1>2, <1>6, GotoType, BecomeType, WorkerPaymentType DEF FindPending, PendingOf
<1>7. ASSUME \/ TopupExempt(w) \/ CheckExempt(w) \/ GatewayRefuses(w)
             \/ ReadBalance(w) \/ SettleIfExempt(w)
      PROVE  worker' \in [Workers -> WorkerRow]
  BY <1>2, <1>7, GotoType, ReturnType
     DEF TopupExempt, CheckExempt, GatewayRefuses, ReadBalance, SettleIfExempt
<1>8. ASSUME NEW ok \in BOOLEAN, FindPayment(w, ok) PROVE worker' \in [Workers -> WorkerRow]
  BY <1>1, <1>2, <1>8, ReturnType, BecomeType, WorkerPaymentType
     DEF FindPayment, PendingWithRefOf
<1>9. worker' \in [Workers -> WorkerRow]
  BY <1>4, <1>5, <1>6, <1>7, <1>8
<1>10. QED
  BY <1>3, <1>9 DEF TypeOK

\* Steps that settle an order with a new payment.
LEMMA SettlingTypeStep ==
    ASSUME TypeOK, IInv, NEW w \in Workers,
           PayFromWallet(w) \/ SettleFreeOrder(w) \/ RecordCredit(w)
    PROVE  TypeOK'
<1> DEFINE o == worker[w].o
           row == worker[w].row
<1>1. o \in Orders
  BY HandlerHasOrder DEF PayFromWallet, SettleFreeOrder, RecordCredit, At
<1>2. row.total \in Nat /\ row.amt \in Nat /\ order[o].total \in Nat
  BY <1>1, WorkerFields, OrderFields DEF TypeOK
<1>3. worker' \in [Workers -> WorkerRow]
  BY ReturnType DEF PayFromWallet, SettleFreeOrder, RecordCredit
<1>4. /\ NewPayment(o, "WALLET", row.total, "COMPLETED") \in PaymentRow
      /\ NewPayment(o, "ADMIN_CREDIT", 0, "COMPLETED") \in PaymentRow
      /\ NewPayment(o, "ADMIN_CREDIT", row.amt, "COMPLETED") \in PaymentRow
  BY <1>1, <1>2, NewPaymentType DEF Internal, PaymentStatus
<1>5. /\ order' \in [Orders -> OrderRow]
      /\ payment' \in [Payments -> PaymentRow]
      /\ invoice' \in [Orders -> InvoiceStatus]
  BY <1>1, <1>2, <1>4, SettleWithType DEF PayFromWallet, SettleFreeOrder, RecordCredit
<1>6. wallet' \in [Users -> Int]
  <2>1. wallet' = wallet \/ wallet' = [wallet EXCEPT ![Owner[o]] = @ - row.total]
    BY DEF PayFromWallet, SettleFreeOrder, RecordCredit, purse
  <2>2. QED
    BY <1>2, <2>1 DEF TypeOK
<1>7. UNCHANGED <<credited, captured, isFree, fails, promoUsed, jobs>>
  BY DEF PayFromWallet, SettleFreeOrder, RecordCredit, purse, outside
<1>8. QED
  BY <1>3, <1>5, <1>6, <1>7 DEF TypeOK

LEMMA CommitOrderTypeStep ==
    ASSUME TypeOK, IInv, NEW w \in Workers, CommitOrder(w)
    PROVE  TypeOK'
<1> DEFINE o == worker[w].o
           row == worker[w].row
<1>1. o \in Orders /\ row \in OrderRow
  BY HandlerHasOrder, WorkerFields DEF CommitOrder, At, TypeOK
<1>2. worker' \in [Workers -> WorkerRow]
  BY ReturnType DEF CommitOrder
<1>3. /\ order' \in [Orders -> OrderRow]
      /\ payment' \in [Payments -> PaymentRow]
      /\ invoice' \in [Orders -> InvoiceStatus]
  <2>1. CASE row.status = "COMPLETED"
    <3>1. PICK p \in Payments :
             /\ payment' = [payment EXCEPT ![p] =
                               NewPayment(o, "ADMIN_CREDIT", 0, "COMPLETED")]
             /\ order' = [order EXCEPT ![o] = [row EXCEPT !.pay = p]]
             /\ PayInvoices(o)
      BY <2>1 DEF CommitOrder
    <3>2. [row EXCEPT !.pay = p] \in OrderRow
      BY <1>1 DEF OrderRow
    <3>3. NewPayment(o, "ADMIN_CREDIT", 0, "COMPLETED") \in PaymentRow
      BY <1>1, NewPaymentType DEF Internal, PaymentStatus
    <3>4. QED
      BY <1>1, <3>1, <3>2, <3>3, PayInvoicesType DEF TypeOK
  <2>2. CASE row.status # "COMPLETED"
    BY <1>1, <2>2 DEF CommitOrder, TypeOK
  <2>3. QED
    BY <2>1, <2>2
<1>4. promoUsed' \in Int
  BY DEF CommitOrder, TypeOK
<1>5. UNCHANGED <<wallet, credited, captured, isFree, fails, jobs>>
  BY DEF CommitOrder, purse, outside
<1>6. QED
  BY <1>2, <1>3, <1>4, <1>5 DEF TypeOK

\* Steps that change the status of a payment they hold.
LEMMA PaymentStatusTypeStep ==
    ASSUME TypeOK, IInv, NEW w \in Workers,
           \/ ExpirePrevious(w) \/ RejectAmount(w) \/ DeclinePayment(w)
           \/ ExpirePayment(w) \/ CompletePayment(w)
    PROVE  TypeOK'
<1> DEFINE o == worker[w].o
           p == worker[w].p
<1>1. worker[w] \in WorkerRow
  BY DEF TypeOK
<1>2. p \in Payments /\ o \in Orders
  BY HandlerHasOrder DEF IInv, HandlerInv, Holding, GatewayPayment, At, ExpirePrevious,
     RejectAmount, DeclinePayment, ExpirePayment, CompletePayment
<1>3. payment[p] \in PaymentRow /\ order[o].total \in Nat
  BY <1>2, OrderFields DEF TypeOK
<1>4. /\ [payment[p] EXCEPT !.status = "EXPIRED"] \in PaymentRow
      /\ [payment[p] EXCEPT !.status = "FAILED"] \in PaymentRow
      /\ [payment[p] EXCEPT !.status = "COMPLETED"] \in PaymentRow
  BY <1>3, PaymentUpdateType DEF PaymentStatus
<1>5. worker' \in [Workers -> WorkerRow]
  <2>1. [worker[w] EXCEPT !.pc = "charge", !.p = None] \in WorkerRow
    BY <1>1, WorkerStepType DEF Steps
  <2>2. QED
    BY <2>1, ReturnType, GotoType, BecomeType DEF ExpirePrevious, RejectAmount,
       DeclinePayment, ExpirePayment, CompletePayment, Steps
<1>6. ASSUME CompletePayment(w) PROVE TypeOK'
  BY <1>2, <1>3, <1>4, <1>5, <1>6, SettleWithType
     DEF CompletePayment, TypeOK, purse, outside
<1>7. ASSUME ~CompletePayment(w) PROVE TypeOK'
  <2>1. \/ payment' = [payment EXCEPT ![p] = [payment[p] EXCEPT !.status = "EXPIRED"]]
        \/ payment' = [payment EXCEPT ![p] = [payment[p] EXCEPT !.status = "FAILED"]]
    BY <1>7 DEF ExpirePrevious, RejectAmount, DeclinePayment, ExpirePayment
  <2>2. payment' \in [Payments -> PaymentRow]
    BY <1>4, <2>1 DEF TypeOK
  <2>3. UNCHANGED <<order, invoice, wallet, credited, captured, isFree, fails,
                    promoUsed, jobs>>
    BY <1>7 DEF ExpirePrevious, RejectAmount, DeclinePayment, ExpirePayment, purse, outside
  <2>4. QED
    BY <1>5, <2>2, <2>3 DEF TypeOK
<1>8. QED
  BY <1>6, <1>7

\* The other steps that write a table or the wallet.
LEMMA WritingTypeStep ==
    ASSUME TypeOK, IInv, NEW w \in Workers,
           \/ InsertInvoice(w) \/ GenerateInvoice(w) \/ MarkOverdue(w)
           \/ OpenPayment(w) \/ CreditWallet(w) \/ CommitCancel(w)
    PROVE  TypeOK'
<1> DEFINE o == worker[w].o
<1>1. worker[w] \in WorkerRow /\ o \in Orders
  BY HandlerHasOrder DEF TypeOK, At, InsertInvoice, GenerateInvoice, MarkOverdue,
     OpenPayment, CreditWallet, CommitCancel
<1>2. worker[w].row.amt \in Nat /\ worker[w].row.total \in Nat
  BY <1>1, WorkerFields, OrderFields
<1>3. CASE InsertInvoice(w) \/ GenerateInvoice(w) \/ MarkOverdue(w)
  <2>1. worker' \in [Workers -> WorkerRow]
    BY <1>3, ReturnType, GotoType DEF InsertInvoice, GenerateInvoice, MarkOverdue, Steps
  <2>2. invoice' \in [Orders -> InvoiceStatus]
    BY <1>3 DEF InsertInvoice, GenerateInvoice, MarkOverdue, TypeOK, InvoiceStatus
  <2>3. QED
    BY <1>3, <2>1, <2>2 DEF InsertInvoice, GenerateInvoice, MarkOverdue, TypeOK, purse, outside
<1>4. CASE OpenPayment(w)
  <2>1. PICK p \in Payments :
           /\ payment' = [payment EXCEPT ![p] =
                 NewPayment(o, worker[w].g, worker[w].row.total, "PENDING")]
           /\ Become(w, [Idle EXCEPT !.pc = "schedule", !.o = o, !.p = p])
    BY <1>4 DEF OpenPayment
  <2>2. NewPayment(o, worker[w].g, worker[w].row.total, "PENDING") \in PaymentRow
    BY <1>1, <1>2, <1>4, NewPaymentType DEF OpenPayment, PaymentStatus
  <2>3. worker' \in [Workers -> WorkerRow]
    BY <1>1, <2>1, NoOrderType, RequestTypes, BecomeType DEF Steps
  <2>4. QED
    BY <1>4, <2>1, <2>2, <2>3 DEF OpenPayment, TypeOK, purse, outside
<1>5. CASE CreditWallet(w)
  <2>1. worker' \in [Workers -> WorkerRow]
    BY <1>5, ReturnType, GotoType DEF CreditWallet, Steps
  <2>2. wallet' \in [Users -> Int] /\ credited' \in [Users -> Nat]
    BY <1>2, <1>5 DEF CreditWallet, TypeOK, purse
  <2>3. QED
    BY <1>5, <2>1, <2>2 DEF CreditWallet, TypeOK, tables, outside
<1>6. CASE CommitCancel(w)
  <2>1. worker' \in [Workers -> WorkerRow]
    BY <1>6, ReturnType DEF CommitCancel
  <2>2. order' \in [Orders -> OrderRow]
    <3>1. [order[o] EXCEPT !.status = "CANCELLED"] \in OrderRow
      BY <1>1 DEF TypeOK, OrderRow, OrderStatus
    <3>2. QED
      BY <1>6, <3>1 DEF CommitCancel, TypeOK
  <2>3. payment' \in [Payments -> PaymentRow]
    <3>1. \A p \in Payments : [payment[p] EXCEPT !.status = "EXPIRED"] \in PaymentRow
      BY PaymentUpdateType DEF TypeOK, PaymentStatus
    <3>2. QED
      BY <1>6, <3>1 DEF CommitCancel, TypeOK
  <2>4. invoice' \in [Orders -> InvoiceStatus] /\ promoUsed' \in Int
    <3>1. invoice' = [invoice EXCEPT ![o] = IF @ = "DRAFT" THEN "CANCELLED" ELSE @]
      BY <1>6 DEF CommitCancel
    <3>2. promoUsed' = promoUsed - (IF worker[w].row.promo = StoredCode THEN 1 ELSE 0)
      BY <1>6 DEF CommitCancel
    <3>3. invoice' \in [Orders -> InvoiceStatus]
      BY <3>1 DEF TypeOK, InvoiceStatus
    <3>4. promoUsed' \in Int
      BY <3>2 DEF TypeOK
    <3>5. QED
      BY <3>3, <3>4
  <2>5. QED
    BY <1>6, <2>1, <2>2, <2>3, <2>4 DEF CommitCancel, TypeOK, purse, outside
<1>7. QED
  BY <1>3, <1>4, <1>5, <1>6

\* Steps that only write to the queue, and a handler that breaks off.
LEMMA QueueTypeStep ==
    ASSUME TypeOK, IInv, NEW w \in Workers,
           \/ ScheduleExpiryCheck(w) \/ StartDunning(w) \/ QueueReminder(w)
           \/ QueueNextAttempt(w) \/ Fail(w)
    PROVE  TypeOK'
<1>1. worker' \in [Workers -> WorkerRow]
  BY ReturnType, GotoType DEF ScheduleExpiryCheck, StartDunning, QueueReminder,
     QueueNextAttempt, Fail, Steps
<1>2. jobs' \subseteq Job
  <2>1. CASE ScheduleExpiryCheck(w) \/ StartDunning(w)
    <3>1. worker[w].p \in Payments
      BY <2>1 DEF IInv, HandlerInv, Holding, GatewayPayment, At, ScheduleExpiryCheck,
         StartDunning
    <3>2. \A kind \in {"expiry", "retry"}, k \in {0, 1} :
             [kind |-> kind, p |-> worker[w].p, k |-> k] \in Job
      BY <3>1 DEF Job
    <3>3. QED
      BY <2>1, <3>2 DEF ScheduleExpiryCheck, StartDunning, TypeOK
  <2>2. CASE QueueReminder(w) \/ QueueNextAttempt(w)
    <3>1. worker[w].job \in Job
      BY <2>2, WorkerFields DEF IInv, HandlerInv, At, QueueReminder, QueueNextAttempt, TypeOK
    <3>2. QED
      BY <2>2, <3>1, JobFields DEF QueueReminder, QueueNextAttempt, TypeOK
  <2>3. CASE Fail(w)
    BY <2>3, WorkerFields DEF Fail, TypeOK
  <2>4. QED
    BY <2>1, <2>2, <2>3
<1>3. fails' \in Nat
  BY DEF ScheduleExpiryCheck, StartDunning, QueueReminder, QueueNextAttempt, Fail,
     TypeOK, outside
<1>4. UNCHANGED <<order, invoice, payment, wallet, credited, captured, isFree, promoUsed>>
  BY DEF ScheduleExpiryCheck, StartDunning, QueueReminder, QueueNextAttempt, Fail,
     tables, purse, outside
<1>5. QED
  BY <1>1, <1>2, <1>3, <1>4 DEF TypeOK

LEMMA TypeStep == TypeOK /\ IInv /\ [Next]_vars => TypeOK'
<1> SUFFICES ASSUME TypeOK, IInv, [Next]_vars PROVE TypeOK'
  OBVIOUS
<1>1. ASSUME NEW w \in Workers, Proceed(w) PROVE TypeOK'
  BY <1>1, ReadingTypeStep, SettlingTypeStep, CommitOrderTypeStep, PaymentStatusTypeStep,
     WritingTypeStep, QueueTypeStep DEF Proceed
<1>2. ASSUME NEW p \in Payments, Capture(p) PROVE TypeOK'
  BY <1>2 DEF Capture, TypeOK, tables, purse
<1>3. ASSUME NEW u \in Users, SetUserFree(u) PROVE TypeOK'
  BY <1>3 DEF SetUserFree, TypeOK, tables, purse
<1>4. CASE UNCHANGED vars
  BY <1>4 DEF vars, TypeOK
<1>5. QED
  BY <1>1, <1>2, <1>3, <1>4, RequestTypeStep, StartJobTypeStep, QueueTypeStep DEF Next

LEMMA TypeInit == Init => TypeOK
<1> SUFFICES ASSUME Init PROVE TypeOK
  OBVIOUS
<1>1. NoPayment \in PaymentRow
  BY DEF NoPayment, PaymentRow, PaymentStatus
<1>2. QED
  BY <1>1, NoOrderType, IdleType, NumbersAssumption
     DEF Init, TypeOK, NumbersAssumption, InvoiceStatus

--------------------------------------------------------------------------------
\* How a step may touch the rows that handlers hold.

\* Rows stay, a payment's order and gateway never change, captures stay.
RowsKept ==
    /\ \A o \in Orders : order[o].status # "NONE" => order'[o].status # "NONE"
    /\ \A p \in Payments : payment[p].status # "NONE" =>
          /\ payment'[p].status # "NONE"
          /\ payment'[p].o = payment[p].o
          /\ payment'[p].gateway = payment[p].gateway
    /\ captured \subseteq captured'

\* Only w inserts, and no row that another handler is about to insert.
InsertsUnclaimed(w) ==
    \A o \in Orders : order[o].status = "NONE" /\ order'[o].status # "NONE" =>
        \A x \in Workers \ {w} : worker[x].o # o

\* The row w turns to is its own, an existing one or a fresh one.
TurnsTo(w, o) == \/ o \in {None, worker[w].o}
                 \/ o \in Orders /\ order[o].status # "NONE"
                 \/ FreshOrder(o)

LEMMA GatewayRowExists ==
    ASSUME IInv, NEW p, GatewayPayment(p)
    PROVE  p \in Payments /\ payment[p].status # "NONE" /\ payment[p].o \in Orders
  BY DEF IInv, TablesInv, GatewayPayment, Online

LEMMA GatewayPaymentKept ==
    ASSUME IInv, RowsKept, NEW p, GatewayPayment(p)
    PROVE  GatewayPayment(p)'
  BY GatewayRowExists DEF RowsKept, GatewayPayment

\* What the other handlers hold stays good.
LEMMA OthersKept ==
    ASSUME TypeOK, IInv, NEW w \in Workers, RowsKept, InsertsUnclaimed(w),
           NEW next, Become(w, next), TurnsTo(w, next.o)
    PROVE  \A x \in Workers \ {w} : CreatorInv(x)' /\ HandlerInv(x)'
<1> SUFFICES ASSUME NEW x \in Workers \ {w} PROVE CreatorInv(x)' /\ HandlerInv(x)'
  OBVIOUS
<1>1. worker'[x] = worker[x] /\ worker'[w] = next
  BY DEF Become, TypeOK
<1>2. \A y \in Workers \ {w} : worker'[y] = worker[y]
  BY DEF Become, TypeOK
<1>3. CreatorInv(x) /\ HandlerInv(x)
  BY DEF IInv
<1>4. CreatorInv(x)'
  <2> SUFFICES ASSUME worker[x].pc \in Creating PROVE CreatorInv(x)'
    BY <1>1 DEF CreatorInv
  <2>1. /\ worker[x].o \in Orders
        /\ order[worker[x].o].status = "NONE"
        /\ \A y \in Workers \ {x} : worker[y].o # worker[x].o
    BY <1>3 DEF CreatorInv
  <2>2. order'[worker[x].o].status = "NONE"
    BY <2>1 DEF InsertsUnclaimed
  <2>3. next.o # worker[x].o
    BY <2>1, NoneIsNoRow DEF TurnsTo, FreshOrder
  <2>4. \A y \in Workers \ {x} : worker'[y].o # worker'[x].o
    BY <1>1, <1>2, <2>1, <2>3
  <2>5. QED
    BY <1>1, <1>3, <2>1, <2>2, <2>4 DEF CreatorInv
<1>5. HandlerInv(x)'
  <2>1. worker[x].pc \notin Creating \cup {"idle"} =>
           worker[x].o \in Orders /\ order'[worker[x].o].status # "NONE"
    BY <1>3 DEF HandlerInv, RowsKept
  <2>2. worker[x].pc \in Holding => GatewayPayment(worker[x].p)'
    BY <1>1, <1>3, GatewayPaymentKept DEF HandlerInv
  <2>3. /\ worker[x].pc \in Verified => payment'[worker[x].p].o = worker[x].o
        /\ worker[x].pc \in {"accepted", "paid"} => MayAccept(worker[x].p)'
    <3> SUFFICES ASSUME worker[x].pc \in Verified
                 PROVE  /\ payment'[worker[x].p].o = worker[x].o
                        /\ MayAccept(worker[x].p) => MayAccept(worker[x].p)'
      BY <1>3 DEF HandlerInv, Verified
    <3>1. /\ GatewayPayment(worker[x].p)
          /\ payment[worker[x].p].o = worker[x].o
      BY <1>3 DEF HandlerInv, Holding, Verified
    <3>2. worker[x].p \in Payments /\ payment[worker[x].p].status # "NONE"
      BY <3>1, GatewayRowExists
    <3>3. MayAccept(worker[x].p) => MayAccept(worker[x].p)'
      BY <1>1, <3>2 DEF RowsKept, MayAccept
    <3>4. QED
      BY <3>1, <3>2, <3>3 DEF RowsKept
  <2>4. worker[x].job # None => GatewayPayment(worker[x].job.p)'
    BY <1>1, <1>3, GatewayPaymentKept DEF HandlerInv
  <2>5. worker[x].pc \in {"remind", "next"} => worker[x].job # None
    BY <1>3 DEF HandlerInv
  <2>6. QED
    BY <1>1, <2>1, <2>2, <2>3, <2>4, <2>5 DEF HandlerInv, GatewayPayment, Verified
<1>6. QED
  BY <1>4, <1>5

\* Steps at which a handler holds nothing but its order.
Plain == Steps \ (Creating \cup Holding \cup {"remind", "next"})

HandlersInv == \A w \in Workers : CreatorInv(w) /\ HandlerInv(w)

LEMMA BecomeKeeps ==
    ASSUME TypeOK, IInv, NEW w \in Workers, RowsKept, InsertsUnclaimed(w),
           NEW next, Become(w, next), TurnsTo(w, next.o), next.pc \in Plain,
           next.pc # "idle" => next.o \in Orders /\ order'[next.o].status # "NONE",
           next.job # None => GatewayPayment(next.job.p)
    PROVE  HandlersInv'
<1>1. worker'[w] = next
  BY DEF Become, TypeOK
<1>2. CreatorInv(w)'
  BY <1>1 DEF CreatorInv, Plain
<1>3. next.job # None => GatewayPayment(next.job.p)'
  BY <1>1, GatewayPaymentKept
<1>4. HandlerInv(w)'
  BY <1>1, <1>3 DEF HandlerInv, Plain, Holding, Verified, GatewayPayment
<1>5. QED
  BY <1>2, <1>4, OthersKept DEF HandlersInv

LEMMA ReturnKeeps ==
    ASSUME TypeOK, IInv, NEW w \in Workers, RowsKept, InsertsUnclaimed(w), Return(w)
    PROVE  HandlersInv'
<1>1. Idle.pc = "idle" /\ Idle.o = None /\ Idle.job = None
  BY DEF Idle
<1>2. TurnsTo(w, Idle.o) /\ Idle.pc \in Plain
  BY <1>1 DEF TurnsTo, Plain, Steps, Creating, Holding
<1>3. QED
  BY <1>1, <1>2, BecomeKeeps DEF Return

LEMMA GotoKeeps ==
    ASSUME TypeOK, IInv, NEW w \in Workers, RowsKept, InsertsUnclaimed(w),
           worker[w].pc \notin Creating \cup {"idle"},
           NEW step \in Plain, Goto(w, step) \/ Settle(w, step)
    PROVE  HandlersInv'
<1>1. worker[w] \in WorkerRow
  BY DEF TypeOK
<1>2. HandlerInv(w)
  BY DEF IInv
<1>3. /\ worker[w].o \in Orders
      /\ order'[worker[w].o].status # "NONE"
      /\ worker[w].job # None => GatewayPayment(worker[w].job.p)
  BY <1>2 DEF HandlerInv, RowsKept
<1>4. TurnsTo(w, worker[w].o)
  BY DEF TurnsTo
<1>5. CASE Goto(w, step)
  <2> DEFINE next == [worker[w] EXCEPT !.pc = step]
  <2>1. next.pc = step /\ next.o = worker[w].o /\ next.job = worker[w].job
    BY <1>1 DEF WorkerRow
  <2>2. Become(w, next)
    BY <1>5 DEF Goto
  <2> HIDE DEF next
  <2>3. QED
    BY <1>3, <1>4, <2>1, <2>2, BecomeKeeps
<1>6. CASE Settle(w, step)
  <2> DEFINE next == [worker[w] EXCEPT !.pc = step, !.g = "NONE"]
  <2>1. next.pc = step /\ next.o = worker[w].o /\ next.job = worker[w].job
    BY <1>1 DEF WorkerRow
  <2>2. Become(w, next)
    BY <1>6 DEF Settle
  <2> HIDE DEF next
  <2>3. QED
    BY <1>3, <1>4, <2>1, <2>2, BecomeKeeps
<1>7. QED
  BY <1>5, <1>6

\* A handler that goes on holding the payment it had, or takes up one.
LEMMA HoldKeeps ==
    ASSUME TypeOK, IInv, NEW w \in Workers, RowsKept, InsertsUnclaimed(w),
           NEW next, Become(w, next), TurnsTo(w, next.o), next.pc \in Holding,
           next.o \in Orders, order'[next.o].status # "NONE",
           GatewayPayment(next.p)',
           next.pc \in Verified => payment'[next.p].o = next.o,
           next.pc \in {"accepted", "paid"} => MayAccept(next.p)',
           next.job # None => GatewayPayment(next.job.p)
    PROVE  HandlersInv'
<1>1. worker'[w] = next
  BY DEF Become, TypeOK
<1>2. CreatorInv(w)'
  BY <1>1 DEF CreatorInv, Creating, Holding
<1>3. next.job # None => GatewayPayment(next.job.p)'
  BY <1>1, GatewayPaymentKept
<1>4. HandlerInv(w)'
  BY <1>1, <1>3 DEF HandlerInv, Holding, GatewayPayment, MayAccept
<1>5. QED
  BY <1>2, <1>4, OthersKept DEF HandlersInv

--------------------------------------------------------------------------------
\* How the tables' part of the invariant survives each kind of write.

TableFacts == PaidMeansSettled /\ KhaltiPaymentWasCaptured /\ TablesInv

LEMMA TablesUnchanged ==
    ASSUME IInv, UNCHANGED <<order, invoice, payment, captured>>,
           \A j \in jobs' : j \in jobs \/ GatewayPayment(j.p)
    PROVE  TableFacts' /\ RowsKept /\ \A w : InsertsUnclaimed(w)
<1>1. PaidMeansSettled' /\ KhaltiPaymentWasCaptured'
  BY DEF IInv, PaidMeansSettled, CompletedHasPayment, PaidInvoiceHasPayment,
     PaymentSettlesItsOrder, SettledStaysSettled, KhaltiPaymentWasCaptured
<1>2. TablesInv'
  BY DEF IInv, TablesInv, GatewayPayment
<1>3. QED
  BY <1>1, <1>2 DEF TableFacts, RowsKept, InsertsUnclaimed

\* A Khalti payment completed now was captured, if every payment that has
\* become complete was.
LEMMA CompletedWasCaptured ==
    ASSUME IInv, RowsKept,
           \A p \in Payments :
              payment'[p].status = "COMPLETED" /\ payment'[p].gateway = "KHALTI" =>
                 /\ payment[p].status # "NONE"
                 /\ payment[p].status = "COMPLETED" \/ MayAccept(p)
    PROVE  KhaltiPaymentWasCaptured'
<1> SUFFICES ASSUME NEW p \in Payments,
                    payment'[p].status = "COMPLETED", payment'[p].gateway = "KHALTI"
             PROVE  p \in captured'
  BY DEF KhaltiPaymentWasCaptured
<1>1. payment[p].status # "NONE" /\ payment[p].gateway = "KHALTI"
  BY DEF RowsKept
<1>2. p \in captured
  BY <1>1 DEF IInv, KhaltiPaymentWasCaptured, MayAccept
<1>3. QED
  BY <1>2 DEF RowsKept

\* An order that is completed with the payment that settles it.
LEMMA SettlementKeeps ==
    ASSUME TypeOK, IInv, NEW o \in Orders, NEW p \in Payments, NEW row \in PaymentRow,
           order'[o].status = "COMPLETED", order'[o].pay = p,
           \A x \in Orders \ {o} : order'[x] = order[x],
           payment' = [payment EXCEPT ![p] = row], PayInvoices(o),
           row.o = o, row.status = "COMPLETED",
           \/ FreshPayment(p) /\ row.gateway \in Internal
           \/ /\ GatewayPayment(p)
              /\ payment[p].o = o
              /\ row.gateway = payment[p].gateway
              /\ MayAccept(p),
           UNCHANGED <<captured, jobs>>
    PROVE  TableFacts' /\ RowsKept
<1>1. /\ payment'[p] = row
      /\ \A x \in Payments \ {p} : payment'[x] = payment[x]
      /\ \A x \in Orders \ {o} : order'[x] = order[x] /\ invoice'[x] = invoice[x]
  BY DEF TypeOK, PayInvoices
<1>2. order'[o].status = "COMPLETED" /\ order'[o].pay = p
  OBVIOUS
<1>3. row.gateway \in Online \cup Internal
  BY DEF GatewayPayment
<1>4. \A x \in Orders : order[x].status # "NONE" => order'[x].status # "NONE"
  BY <1>1, <1>2
<1>5. RowsKept
  <2> SUFFICES ASSUME NEW x \in Payments, payment[x].status # "NONE"
               PROVE  /\ payment'[x].status # "NONE"
                      /\ payment'[x].o = payment[x].o
                      /\ payment'[x].gateway = payment[x].gateway
    BY <1>4 DEF RowsKept
  <2>1. QED
    BY <1>1 DEF FreshPayment
<1>6. CompletedHasPayment'
  BY <1>1, <1>2, NoneIsNoRow DEF IInv, PaidMeansSettled, CompletedHasPayment
<1>7. PaidInvoiceHasPayment'
  BY <1>1, <1>2, NoneIsNoRow DEF IInv, PaidMeansSettled, PaidInvoiceHasPayment
<1>8. PaymentSettlesItsOrder'
  BY <1>1, <1>2, NoneIsNoRow DEF IInv, PaidMeansSettled, PaymentSettlesItsOrder, TablesInv
<1>9. SettledStaysSettled'
  <2> SUFFICES ASSUME NEW x \in Orders \ {o}, order[x].pay # None
               PROVE  order[x].pay \in Payments \ {p}
    BY <1>1, <1>2 DEF IInv, PaidMeansSettled, SettledStaysSettled
  <2>1. order[x].pay \in Payments
    BY DEF TypeOK, OrderRow
  <2>2. payment[order[x].pay].o = x /\ payment[order[x].pay].status # "NONE"
    BY DEF IInv, PaidMeansSettled, SettledStaysSettled
  <2>3. QED
    BY <2>1, <2>2 DEF FreshPayment
<1>10. KhaltiPaymentWasCaptured'
  <2> SUFFICES ASSUME NEW x \in Payments,
                      payment'[x].status = "COMPLETED", payment'[x].gateway = "KHALTI"
               PROVE  /\ payment[x].status # "NONE"
                      /\ payment[x].status = "COMPLETED" \/ MayAccept(x)
    BY <1>5, CompletedWasCaptured
  <2>1. CASE x = p
    BY <1>1, <2>1, GatewayRowExists DEF Online, Internal
  <2>2. CASE x # p
    BY <1>1, <2>2
  <2>3. QED
    BY <2>1, <2>2
<1>11. TablesInv'
  <2>1. \A x \in Orders : order'[x].status = "NONE" => order'[x].pay = None
    BY <1>1, <1>2 DEF IInv, TablesInv
  <2>2. \A x \in Payments :
           IF payment'[x].status = "NONE"
           THEN payment'[x].gateway = "NONE"
           ELSE payment'[x].o \in Orders /\ order'[payment'[x].o].status # "NONE"
    BY <1>1, <1>2, <1>4 DEF IInv, TablesInv
  <2>3. \A x : GatewayPayment(x) => GatewayPayment(x)'
    BY <1>5, GatewayPaymentKept
  <2>4. \A x \in Payments : payment'[x].status = "PENDING" => GatewayPayment(x)'
    BY <1>1, <2>3 DEF IInv, TablesInv
  <2>5. QED
    BY <2>1, <2>2, <2>3, <2>4 DEF IInv, TablesInv
<1>12. QED
  BY <1>5, <1>6, <1>7, <1>8, <1>9, <1>10, <1>11 DEF TableFacts, PaidMeansSettled

LEMMA SettleKeeps ==
    ASSUME TypeOK, IInv, NEW o \in Orders, NEW p \in Payments, NEW row \in PaymentRow,
           NEW total, order[o].status # "NONE", SettleWith(o, p, row, total),
           row.o = o, row.status = "COMPLETED",
           \/ FreshPayment(p) /\ row.gateway \in Internal
           \/ /\ GatewayPayment(p)
              /\ payment[p].o = o
              /\ row.gateway = payment[p].gateway
              /\ MayAccept(p),
           UNCHANGED <<captured, jobs>>
    PROVE  TableFacts' /\ RowsKept /\ \A w : InsertsUnclaimed(w)
<1>1. order' = [order EXCEPT ![o].status = "COMPLETED", ![o].pay = p, ![o].total = total]
  BY DEF SettleWith
<1>2. /\ order'[o].status = "COMPLETED"
      /\ order'[o].pay = p
      /\ \A x \in Orders \ {o} : order'[x] = order[x]
  BY <1>1 DEF TypeOK, OrderRow
<1>3. TableFacts' /\ RowsKept
  BY <1>2, SettlementKeeps DEF SettleWith
<1>4. \A w : InsertsUnclaimed(w)
  BY <1>2 DEF InsertsUnclaimed
<1>5. QED
  BY <1>3, <1>4

\* Every other write: no order is completed by it, no invoice paid, and no
\* payment but a fresh pending one or a gateway payment that fails is written.
LEMMA RevisionKeeps ==
    ASSUME TypeOK, IInv,
           \A x \in Orders :
              /\ order'[x].pay = order[x].pay
              /\ order[x].status # "NONE" => order'[x].status # "NONE"
              /\ order'[x].status = "COMPLETED" => order[x].status = "COMPLETED"
              /\ order[x].status \in {"COMPLETED", "CANCELLED"} =>
                    order'[x].status \in {"COMPLETED", "CANCELLED"}
              /\ invoice'[x] = "PAID" => invoice[x] = "PAID",
           \A x \in Payments :
              \/ payment'[x] = payment[x]
              \/ /\ GatewayPayment(x)
                 /\ payment'[x].o = payment[x].o
                 /\ payment'[x].gateway = payment[x].gateway
                 /\ payment'[x].status \in {"EXPIRED", "FAILED"}
              \/ /\ FreshPayment(x)
                 /\ payment'[x].gateway \in Online
                 /\ payment'[x].status = "PENDING"
                 /\ payment'[x].o \in Orders
                 /\ order[payment'[x].o].status # "NONE",
           captured' = captured,
           \A j \in jobs' : j \in jobs \/ GatewayPayment(j.p)
    PROVE  TableFacts' /\ RowsKept
<1>1. RowsKept
  BY GatewayRowExists DEF RowsKept, FreshPayment
<1>2. CompletedHasPayment'
  BY DEF IInv, PaidMeansSettled, CompletedHasPayment
<1>3. PaidInvoiceHasPayment'
  BY DEF IInv, PaidMeansSettled, PaidInvoiceHasPayment
<1>4. PaymentSettlesItsOrder'
  BY DEF IInv, PaidMeansSettled, PaymentSettlesItsOrder, TablesInv
<1>5. SettledStaysSettled'
  <2> SUFFICES ASSUME NEW x \in Orders, order[x].pay # None
               PROVE  /\ order'[x].status \in {"COMPLETED", "CANCELLED"}
                      /\ payment'[order[x].pay].o = x
                      /\ payment'[order[x].pay].status \in {"COMPLETED", "EXPIRED", "FAILED"}
    BY DEF SettledStaysSettled
  <2>1. /\ order[x].status \in {"COMPLETED", "CANCELLED"}
        /\ payment[order[x].pay].o = x
        /\ payment[order[x].pay].status \in {"COMPLETED", "EXPIRED", "FAILED"}
    BY DEF IInv, PaidMeansSettled, SettledStaysSettled
  <2>2. order[x].pay \in Payments
    BY DEF TypeOK, OrderRow
  <2>3. QED
    BY <2>1, <2>2 DEF FreshPayment
<1>6. KhaltiPaymentWasCaptured'
  BY <1>1, GatewayRowExists, CompletedWasCaptured DEF IInv, TablesInv, Online
<1>7. TablesInv'
  <2>1. \A x \in Orders : order'[x].status = "NONE" => order'[x].pay = None
    BY DEF IInv, TablesInv
  <2>2. \A x \in Payments :
           IF payment'[x].status = "NONE"
           THEN payment'[x].gateway = "NONE"
           ELSE payment'[x].o \in Orders /\ order'[payment'[x].o].status # "NONE"
    BY GatewayRowExists DEF IInv, TablesInv
  <2>3. \A x : GatewayPayment(x) => GatewayPayment(x)'
    BY <1>1, GatewayPaymentKept
  <2>4. \A x \in Payments : payment'[x].status = "PENDING" => GatewayPayment(x)'
    BY <2>3 DEF IInv, TablesInv, GatewayPayment
  <2>5. QED
    BY <2>1, <2>2, <2>3, <2>4 DEF IInv, TablesInv
<1>8. QED
  BY <1>1, <1>2, <1>3, <1>4, <1>5, <1>6, <1>7 DEF TableFacts, PaidMeansSettled

--------------------------------------------------------------------------------
\* The invariant is preserved, action by action.

LEMMA Joined == ASSUME TableFacts', HandlersInv' PROVE IInv'
  BY DEF TableFacts, HandlersInv, IInv

LEMMA CreateOrderStep ==
    ASSUME TypeOK, IInv, NEW w \in Workers, NEW o \in Orders, NEW a, NEW code,
           CreateOrder(w, o, a, code)
    PROVE  IInv'
<1> DEFINE free == isFree[Owner[o]]
           row == [NewOrder(a, OrderTotal(a, IF free THEN a ELSE 0), FALSE)
                     EXCEPT !.status = IF free THEN "COMPLETED" ELSE "PENDING",
                            !.promo = IF free THEN None ELSE code]
           next == [Idle EXCEPT !.pc = IF row.promo = None THEN "invoice" ELSE "promo",
                                !.o = o, !.row = row]
<1>1. FreshOrder(o) /\ Become(w, next)
  BY DEF CreateOrder
<1>2. UNCHANGED <<order, invoice, payment, captured, jobs>>
  BY DEF CreateOrder, tables, outside
<1>3. TableFacts' /\ RowsKept /\ InsertsUnclaimed(w)
  BY <1>2, TablesUnchanged
<1>4. row.status \in {"PENDING", "COMPLETED"} /\ row.pay = None
  BY DEF NewOrder, NoOrder
<1>5. next.o = o /\ next.pc \in Creating /\ next.row = row /\ next.job = None
  BY DEF Idle, Creating
<1> HIDE DEF next, row
<1>6. worker'[w] = next /\ \A x \in Workers \ {w} : worker'[x] = worker[x]
  BY <1>1 DEF Become, TypeOK
<1>7. CreatorInv(w)'
  BY <1>1, <1>2, <1>4, <1>5, <1>6 DEF CreatorInv, FreshOrder
<1>8. HandlerInv(w)'
  BY <1>5, <1>6 DEF HandlerInv, Creating, Holding, Verified
<1>9. HandlersInv'
  BY <1>1, <1>3, <1>5, <1>7, <1>8, OthersKept DEF HandlersInv, TurnsTo
<1>10. QED
  BY <1>3, <1>9, Joined

\* A row inserted by topupWallet, renewOrder or upgradePlan, which then hold it.
LEMMA InsertStep ==
    ASSUME TypeOK, IInv, NEW w \in Workers, NEW o \in Orders, NEW row, FreshOrder(o),
           row.status = "PENDING", row.pay = None, order' = [order EXCEPT ![o] = row],
           NEW next, Become(w, next), next.o = o, next.pc \in Plain, next.job = None,
           UNCHANGED <<invoice, payment, captured, jobs>>
    PROVE  IInv'
<1>1. /\ order'[o] = row
      /\ \A x \in Orders \ {o} : order'[x] = order[x]
  BY DEF TypeOK
<1>2. order[o].pay = None /\ order[o].status = "NONE"
  BY DEF FreshOrder, IInv, TablesInv
<1>3. TableFacts' /\ RowsKept
  BY <1>1, <1>2, RevisionKeeps
<1>4. InsertsUnclaimed(w)
  BY <1>1 DEF InsertsUnclaimed, FreshOrder
<1>5. HandlersInv'
  BY <1>1, <1>3, <1>4, BecomeKeeps DEF TurnsTo
<1>6. QED
  BY <1>3, <1>5, Joined

\* A request that reads an order or a payment and goes on with it.
LEMMA ReadRequestStep ==
    ASSUME TypeOK, IInv, NEW w \in Workers, NEW next, Become(w, next),
           next.pc \in Plain, next.o \in Orders, order[next.o].status # "NONE",
           next.job = None, UNCHANGED <<order, invoice, payment, captured>>,
           \A j \in jobs' : j \in jobs \/ GatewayPayment(j.p)
    PROVE  IInv'
<1>1. TableFacts' /\ RowsKept /\ InsertsUnclaimed(w)
  BY TablesUnchanged
<1>2. HandlersInv'
  BY <1>1, BecomeKeeps DEF TurnsTo
<1>3. QED
  BY <1>1, <1>2, Joined

LEMMA ReturnStep ==
    ASSUME TypeOK, IInv, NEW w \in Workers, Return(w),
           UNCHANGED <<order, invoice, payment, captured>>,
           \A j \in jobs' : j \in jobs \/ GatewayPayment(j.p)
    PROVE  IInv'
  BY TablesUnchanged, ReturnKeeps, Joined

LEMMA GotoStep ==
    ASSUME TypeOK, IInv, NEW w \in Workers, worker[w].pc \notin Creating \cup {"idle"},
           NEW step \in Plain, Goto(w, step) \/ Settle(w, step),
           UNCHANGED <<order, invoice, payment, captured>>,
           \A j \in jobs' : j \in jobs \/ GatewayPayment(j.p)
    PROVE  IInv'
  BY TablesUnchanged, GotoKeeps, Joined

LEMMA RequestStep ==
    ASSUME TypeOK, IInv, NEW w \in Workers, Request(w)
    PROVE  IInv'
<1>1. {"topup", "exempt", "bill", "cancel", "overdue"} \subseteq Plain
  BY DEF Plain, Steps, Creating, Holding
<1>2. \A amt, total, topup : /\ NewOrder(amt, total, topup).status = "PENDING"
                             /\ NewOrder(amt, total, topup).pay = None
  BY DEF NewOrder, NoOrder
<1>3. ASSUME NEW o \in Orders, NEW a \in Amounts, NEW g \in GatewayChoices,
             TopupWallet(w, o, a, g)
      PROVE  IInv'
  <2> DEFINE row == NewOrder(a, a, TRUE)
             next == [Idle EXCEPT !.pc = "topup", !.o = o, !.g = g, !.row = row]
  <2>1. next.o = o /\ next.pc = "topup" /\ next.job = None
    BY DEF Idle
  <2>2. Become(w, next) /\ order' = [order EXCEPT ![o] = row] /\ FreshOrder(o)
    BY <1>3 DEF TopupWallet
  <2>3. UNCHANGED <<invoice, payment, captured, jobs>>
    BY <1>3 DEF TopupWallet, outside
  <2>4. row.status = "PENDING" /\ row.pay = None
    BY <1>2
  <2> HIDE DEF next, row
  <2>5. QED
    BY <1>1, <2>1, <2>2, <2>3, <2>4, InsertStep
<1>4. ASSUME NEW o \in Orders, NEW g \in GatewayChoices, InitiatePayment(w, o, g)
      PROVE  IInv'
  <2> DEFINE next == [Idle EXCEPT !.pc = "exempt", !.o = o, !.g = g, !.row = order[o]]
  <2>1. next.o = o /\ next.pc = "exempt" /\ next.job = None
    BY DEF Idle
  <2>2. Become(w, next) /\ order[o].status # "NONE"
    BY <1>4 DEF InitiatePayment, ReadOrder
  <2>3. UNCHANGED <<order, invoice, payment, captured, jobs>>
    BY <1>4 DEF InitiatePayment, tables, outside
  <2> HIDE DEF next
  <2>4. QED
    BY <1>1, <2>1, <2>2, <2>3, ReadRequestStep
<1>5. ASSUME NEW o \in Orders, NEW n \in Orders, NEW row, InsertSuccessor(w, o, n, row),
             row.status = "PENDING", row.pay = None
      PROVE  IInv'
  <2> DEFINE next == [Idle EXCEPT !.pc = "bill", !.o = n, !.row = row]
  <2>1. next.o = n /\ next.pc = "bill" /\ next.job = None
    BY DEF Idle
  <2>2. Become(w, next) /\ order' = [order EXCEPT ![n] = row] /\ FreshOrder(n)
    BY <1>5 DEF InsertSuccessor
  <2>3. UNCHANGED <<invoice, payment, captured, jobs>>
    BY <1>5 DEF InsertSuccessor, outside
  <2> HIDE DEF next
  <2>4. QED
    BY <1>1, <1>5, <2>1, <2>2, <2>3, InsertStep
<1>6. ASSUME NEW o \in Orders, NEW n \in Orders, NEW a, NEW d,
             RenewOrder(w, o, n) \/ UpgradePlan(w, o, n, a, d)
      PROVE  IInv'
  BY <1>2, <1>5, <1>6 DEF RenewOrder, UpgradePlan
<1>7. ASSUME NEW p \in Payments, NEW ok \in BOOLEAN, ReceiveWebhook(w, p, ok)
      PROVE  IInv'
  <2>1. PICK next : next = [Idle EXCEPT !.pc = IF ok THEN "accepted" ELSE "refused",
                                        !.o = payment[p].o, !.p = p]
    OBVIOUS
  <2>2. /\ Become(w, next)
        /\ GatewayPayment(p) /\ (ok => MayAccept(p))
        /\ UNCHANGED <<order, invoice, payment, captured, jobs>>
    BY <1>7, <2>1 DEF ReceiveWebhook, GatewayPayment, tables, outside
  <2>3. payment[p].o \in Orders /\ order[payment[p].o].status # "NONE"
    BY <2>2, GatewayRowExists DEF IInv, TablesInv
  <2>4. next.o = payment[p].o /\ next.p = p /\ next.job = None /\ next.pc \in Holding
    BY <2>1 DEF Idle, Holding
  <2>5. next.pc \in {"accepted", "paid"} => MayAccept(next.p)'
    BY <2>1, <2>2, <2>4 DEF MayAccept, Idle
  <2>6. TableFacts' /\ RowsKept /\ InsertsUnclaimed(w)
    BY <2>2, TablesUnchanged
  <2>7. GatewayPayment(next.p)' /\ TurnsTo(w, next.o) /\ payment'[next.p].o = next.o
    BY <2>2, <2>3, <2>4 DEF GatewayPayment, TurnsTo
  <2>8. next.o \in Orders /\ order'[next.o].status # "NONE"
    BY <2>2, <2>3, <2>4
  <2>9. HandlersInv'
    BY <2>2, <2>4, <2>5, <2>6, <2>7, <2>8, HoldKeeps
  <2>10. QED
    BY <2>6, <2>9, Joined
<1>8. ASSUME NEW o \in Orders, CancelOrder(w, o) PROVE IInv'
  <2> DEFINE next == [Idle EXCEPT !.pc = "cancel", !.o = o, !.row = order[o]]
  <2>1. next.o = o /\ next.pc = "cancel" /\ next.job = None
    BY DEF Idle
  <2>2. Become(w, next) /\ order[o].status # "NONE"
    BY <1>8 DEF CancelOrder
  <2>3. UNCHANGED <<order, invoice, payment, captured, jobs>>
    BY <1>8 DEF CancelOrder, tables, outside
  <2> HIDE DEF next
  <2>4. QED
    BY <1>1, <2>1, <2>2, <2>3, ReadRequestStep
<1>9. ASSUME NEW o \in Orders, DunningSweep(w, o) PROVE IInv'
  <2> DEFINE next == [Idle EXCEPT !.pc = "overdue", !.o = o]
  <2>1. next.o = o /\ next.pc = "overdue" /\ next.job = None
    BY DEF Idle
  <2>2. Become(w, next) /\ order[o].status # "NONE"
    BY <1>9 DEF DunningSweep
  <2>3. UNCHANGED <<order, invoice, payment, captured, jobs>>
    BY <1>9 DEF DunningSweep, tables, outside
  <2> HIDE DEF next
  <2>4. QED
    BY <1>1, <2>1, <2>2, <2>3, ReadRequestStep
<1>10. QED
  BY <1>3, <1>4, <1>6, <1>7, <1>8, <1>9, CreateOrderStep DEF Request

LEMMA StartJobStep ==
    ASSUME TypeOK, IInv, NEW w \in Workers, NEW j \in jobs, StartJob(w, j)
    PROVE  IInv'
<1> DEFINE o == payment[j.p].o
<1>1. /\ GatewayPayment(j.p)
      /\ o \in Orders
      /\ order[o].status # "NONE"
  BY GatewayRowExists DEF IInv, TablesInv
<1>2. /\ UNCHANGED <<order, invoice, payment, captured>>
      /\ \A i \in jobs' : i \in jobs \/ GatewayPayment(i.p)
  BY DEF StartJob, ExpiryCheck, PaymentRetry, DunningEmail, TakeJob, tables, outside
<1>3. TableFacts' /\ RowsKept /\ InsertsUnclaimed(w)
  BY <1>2, TablesUnchanged
<1>4. PICK step \in {"idle", "lapse", "remind", "next", "overdue"} : RunJob(w, j, o, step)
  BY DEF StartJob, ExpiryCheck, PaymentRetry, DunningEmail
<1>5. CASE step = "idle"
  BY <1>2, <1>4, <1>5, ReturnStep DEF RunJob, Return
<1>6. CASE step # "idle"
  <2>1. PICK next : next = [Idle EXCEPT !.pc = step, !.o = o, !.p = j.p, !.job = j]
    OBVIOUS
  <2>2. next.pc = step /\ next.o = o /\ next.p = j.p /\ next.job = j
    BY <2>1 DEF Idle
  <2>3. Become(w, next)
    BY <1>4, <1>6, <2>1 DEF RunJob
  <2>4. worker'[w] = next
    BY <2>3 DEF Become, TypeOK
  <2>5. CreatorInv(w)'
    BY <1>4, <2>2, <2>4 DEF CreatorInv, Creating
  <2>6. GatewayPayment(next.p)' /\ GatewayPayment(next.job.p)'
    BY <1>1, <1>2, <2>2 DEF GatewayPayment
  <2>7. j # None
    BY JobAssumption DEF TypeOK
  <2>8. HandlerInv(w)'
    BY <1>1, <1>2, <1>4, <2>2, <2>4, <2>6, <2>7 DEF HandlerInv, GatewayPayment
  <2>9. HandlersInv'
    BY <1>1, <1>3, <2>2, <2>3, <2>5, <2>8, OthersKept DEF HandlersInv, TurnsTo
  <2>10. QED
    BY <1>3, <2>9, Joined
<1>7. QED
  BY <1>5, <1>6

LEMMA AtStep ==
    ASSUME IInv, NEW w \in Workers
    PROVE  /\ worker[w].pc \notin Creating \cup {"idle"} =>
                 worker[w].o \in Orders /\ order[worker[w].o].status # "NONE"
           /\ worker[w].pc \in Holding => GatewayPayment(worker[w].p)
           /\ worker[w].job # None => GatewayPayment(worker[w].job.p)
           /\ worker[w].pc \in Creating => CreatorInv(w)
  BY DEF IInv, HandlerInv

\* createOrder between its request and its transaction.
LEMMA CreatingStep ==
    ASSUME TypeOK, IInv, NEW w \in Workers, worker[w].pc \in Creating,
           NEW next, Become(w, next), next.pc \in Creating, next.o = worker[w].o,
           next.row.status \in {"PENDING", "COMPLETED"}, next.row.pay = None,
           next.job = worker[w].job, TableFacts', RowsKept, order' = order
    PROVE  IInv'
<1>1. worker'[w] = next /\ \A x \in Workers \ {w} : worker'[x] = worker[x]
  BY DEF Become, TypeOK
<1>2. CreatorInv(w) /\ HandlerInv(w)
  BY DEF IInv
<1>3. CreatorInv(w)'
  BY <1>1, <1>2 DEF CreatorInv
<1>4. HandlerInv(w)'
  <2>1. next.pc \notin Holding \cup Verified \cup {"remind", "next", "accepted", "paid", "idle"}
    BY DEF Creating, Holding, Verified
  <2>2. worker[w].job # None => GatewayPayment(worker[w].job.p)'
    BY <1>1, <1>2, GatewayPaymentKept DEF HandlerInv
  <2>3. QED
    BY <1>1, <1>2, <2>1, <2>2 DEF HandlerInv, GatewayPayment
<1>5. InsertsUnclaimed(w) /\ TurnsTo(w, next.o)
  BY DEF InsertsUnclaimed, TurnsTo
<1>6. HandlersInv'
  BY <1>3, <1>4, <1>5, OthersKept DEF HandlersInv
<1>7. QED
  BY <1>6, Joined

LEMMA ValidatePromoStep ==
    ASSUME TypeOK, IInv, NEW w \in Workers, ValidatePromoCode(w)
    PROVE  IInv'
<1>1. UNCHANGED <<order, invoice, payment, captured, jobs>>
  BY DEF ValidatePromoCode, tables, outside
<1>2. CASE Return(w)
  BY <1>1, <1>2, ReturnStep
<1>3. CASE ~Return(w)
  <2>1. PICK row : row = worker[w].row
    OBVIOUS
  <2>2. PICK total : total = OrderTotal(row.amt, PromoDiscount(PromoType, row.amt, PromoValue))
    OBVIOUS
  <2>3. PICK next : next = [worker[w] EXCEPT !.pc = "invoice", !.row.total = total]
    OBVIOUS
  <2>4. Become(w, next)
    BY <1>3, <2>1, <2>2, <2>3 DEF ValidatePromoCode
  <2>5. worker[w] \in WorkerRow /\ row \in OrderRow
    BY <2>1, WorkerFields DEF TypeOK
  <2>6. /\ next.pc = "invoice" /\ next.o = worker[w].o /\ next.job = worker[w].job
        /\ next.row = [row EXCEPT !.total = total]
    BY <2>1, <2>3, <2>5 DEF WorkerRow
  <2>7. next.row.status = row.status /\ next.row.pay = row.pay
    BY <2>5, <2>6 DEF OrderRow
  <2>8. worker[w].pc \in Creating /\ "invoice" \in Creating
    BY DEF ValidatePromoCode, At, Creating
  <2>9. row.status \in {"PENDING", "COMPLETED"} /\ row.pay = None
    BY <2>1, <2>8, AtStep DEF CreatorInv
  <2>10. QED
    BY <1>1, <2>4, <2>6, <2>7, <2>8, <2>9, TablesUnchanged, CreatingStep
<1>4. QED
  BY <1>2, <1>3

LEMMA InsertInvoiceStep ==
    ASSUME TypeOK, IInv, NEW w \in Workers, InsertInvoice(w)
    PROVE  IInv'
<1>1. UNCHANGED <<order, payment, captured, jobs>>
  BY DEF InsertInvoice, outside
<1>2. worker[w].pc \in Creating /\ "commit" \in Creating
  BY DEF InsertInvoice, At, Creating
<1>3. CASE InvoiceFk
  BY <1>1, <1>3, ReturnStep DEF InsertInvoice
<1>4. CASE ~InvoiceFk
  <2>1. invoice' = [invoice EXCEPT ![worker[w].o] = "DRAFT"] /\ Goto(w, "commit")
    BY <1>4 DEF InsertInvoice
  <2>2. TableFacts' /\ RowsKept
    BY <1>1, <2>1, RevisionKeeps DEF TypeOK
  <2>3. PICK next : next = [worker[w] EXCEPT !.pc = "commit"]
    OBVIOUS
  <2>4. /\ next.pc = "commit" /\ next.o = worker[w].o /\ next.job = worker[w].job
        /\ next.row = worker[w].row
    BY <2>3 DEF TypeOK, WorkerRow
  <2>5. next.row.status \in {"PENDING", "COMPLETED"} /\ next.row.pay = None
    BY <1>2, <2>4, AtStep DEF CreatorInv
  <2>6. QED
    BY <1>1, <1>2, <2>1, <2>2, <2>3, <2>4, <2>5, CreatingStep DEF Goto
<1>5. QED
  BY <1>3, <1>4

LEMMA CommitOrderStep ==
    ASSUME TypeOK, IInv, NEW w \in Workers, CommitOrder(w)
    PROVE  IInv'
<1>1. UNCHANGED <<captured, jobs>> /\ Return(w)
  BY DEF CommitOrder, outside
<1>2. PICK o : o = worker[w].o
  OBVIOUS
<1>3. PICK row : row = worker[w].row
  OBVIOUS
<1>4. /\ o \in Orders
      /\ order[o].status = "NONE"
      /\ row.status \in {"PENDING", "COMPLETED"}
      /\ row.pay = None
      /\ \A x \in Workers \ {w} : worker[x].o # o
  BY <1>2, <1>3, AtStep DEF CommitOrder, At, Creating, CreatorInv
<1>5. order[o].pay = None /\ row \in OrderRow
  BY <1>3, <1>4, WorkerFields DEF IInv, TablesInv, TypeOK
<1>6. \A x \in Orders \ {o} : order'[x] = order[x]
  BY <1>2 DEF CommitOrder, TypeOK
<1>7. InsertsUnclaimed(w)
  BY <1>4, <1>6 DEF InsertsUnclaimed
<1>8. CASE row.status = "COMPLETED"
  <2>1. PICK p \in Payments :
           /\ FreshPayment(p)
           /\ payment' = [payment EXCEPT ![p] =
                             NewPayment(o, "ADMIN_CREDIT", 0, "COMPLETED")]
           /\ order' = [order EXCEPT ![o] = [row EXCEPT !.pay = p]]
           /\ PayInvoices(o)
    BY <1>2, <1>3, <1>8 DEF CommitOrder
  <2>2. order'[o].status = "COMPLETED" /\ order'[o].pay = p
    BY <1>4, <1>5, <1>8, <2>1 DEF TypeOK, OrderRow
  <2>3. PICK paid : paid = NewPayment(o, "ADMIN_CREDIT", 0, "COMPLETED")
    OBVIOUS
  <2>4. /\ paid \in PaymentRow
        /\ paid.o = o /\ paid.status = "COMPLETED" /\ paid.gateway \in Internal
    BY <1>4, <2>3, NewPaymentType DEF NewPayment, Internal, PaymentStatus
  <2>5. TableFacts' /\ RowsKept
    BY <1>1, <1>4, <1>6, <2>1, <2>2, <2>3, <2>4, SettlementKeeps
  <2>6. QED
    BY <1>1, <1>7, <2>5, ReturnKeeps, Joined
<1>9. CASE row.status # "COMPLETED"
  <2>1. order' = [order EXCEPT ![o] = row] /\ UNCHANGED <<invoice, payment>>
    BY <1>2, <1>3, <1>9 DEF CommitOrder
  <2>2. order'[o] = row
    BY <1>4, <2>1 DEF TypeOK
  <2>3. TableFacts' /\ RowsKept
    BY <1>1, <1>4, <1>5, <1>6, <1>9, <2>1, <2>2, RevisionKeeps
  <2>4. QED
    BY <1>1, <1>7, <2>3, ReturnKeeps, Joined
<1>10. QED
  BY <1>8, <1>9

\* Steps that only read, and leave for one of a few next steps.
LEMMA ReadingStep ==
    ASSUME TypeOK, IInv, NEW w \in Workers,
           \/ TopupExempt(w) \/ InitiateTopup(w) \/ CheckExempt(w) \/ FindPending(w)
           \/ GatewayRefuses(w) \/ ReadBalance(w) \/ SettleIfExempt(w)
    PROVE  IInv'
<1>1. UNCHANGED <<order, invoice, payment, captured, jobs>>
  BY DEF TopupExempt, InitiateTopup, CheckExempt, FindPending, GatewayRefuses,
     ReadBalance, SettleIfExempt, tables, outside
<1>2. worker[w].pc \in {"topup", "initiate", "exempt", "find", "charge", "billed"}
  BY DEF TopupExempt, InitiateTopup, CheckExempt, FindPending, GatewayRefuses,
     ReadBalance, SettleIfExempt, At
<1>3. /\ worker[w].pc \notin Creating \cup {"idle"}
      /\ worker[w].o \in Orders
      /\ order[worker[w].o].status # "NONE"
  BY <1>2, AtStep DEF Creating
<1>4. {"credit", "initiate", "exempt", "find", "settle", "charge", "deduct"} \subseteq Plain
  BY DEF Plain, Steps, Creating, Holding
<1>5. CASE Return(w)
  BY <1>1, <1>5, ReturnStep
<1>6. ASSUME NEW step \in Plain, Goto(w, step) \/ Settle(w, step) PROVE IInv'
  BY <1>1, <1>3, <1>6, GotoStep
<1>7. CASE TopupExempt(w) \/ CheckExempt(w) \/ GatewayRefuses(w) \/ ReadBalance(w)
           \/ SettleIfExempt(w)
  BY <1>4, <1>5, <1>6, <1>7
     DEF TopupExempt, CheckExempt, GatewayRefuses, ReadBalance, SettleIfExempt
<1>8. CASE InitiateTopup(w) /\ ~Return(w)
  <2>1. PICK next : next = [Idle EXCEPT !.pc = "exempt", !.o = worker[w].o,
                                        !.g = worker[w].g, !.row = order[worker[w].o]]
    OBVIOUS
  <2>2. Become(w, next)
    BY <1>8, <2>1 DEF InitiateTopup, ReadOrder
  <2>3. next.pc = "exempt" /\ next.o = worker[w].o /\ next.job = None
    BY <2>1 DEF Idle
  <2>4. QED
    BY <1>1, <1>3, <1>4, <2>2, <2>3, ReadRequestStep
<1>9. CASE FindPending(w)
  <2>1. CASE Goto(w, "charge")
    BY <1>4, <1>6, <2>1
  <2>2. CASE ~Goto(w, "charge")
    <3>1. PICK p \in PendingOf(worker[w].o) :
             Become(w, [worker[w] EXCEPT !.pc = "expire", !.p = p])
      BY <1>9, <2>2 DEF FindPending
    <3>2. PICK next : next = [worker[w] EXCEPT !.pc = "expire", !.p = p]
      OBVIOUS
    <3>3. /\ next.pc = "expire" /\ next.o = worker[w].o /\ next.p = p
          /\ next.job = worker[w].job
      BY <3>2 DEF TypeOK, WorkerRow
    <3>4. GatewayPayment(p)
      BY <3>1 DEF PendingOf, IInv, TablesInv
    <3>5. /\ GatewayPayment(next.p)' /\ next.pc \in Holding
          /\ next.pc \notin Verified \cup {"accepted", "paid"}
      BY <1>1, <3>3, <3>4 DEF GatewayPayment, Holding, Verified
    <3>6. TableFacts' /\ RowsKept /\ InsertsUnclaimed(w)
      BY <1>1, TablesUnchanged
    <3>7. next.o \in Orders /\ order'[next.o].status # "NONE" /\ TurnsTo(w, next.o)
      BY <1>1, <1>3, <3>3 DEF TurnsTo
    <3>8. next.job # None => GatewayPayment(next.job.p)
      BY <3>3, AtStep
    <3>9. HandlersInv'
      BY <3>1, <3>2, <3>5, <3>6, <3>7, <3>8, HoldKeeps
    <3>10. QED
      BY <3>6, <3>9, Joined
  <2>3. QED
    BY <2>1, <2>2
<1>10. QED
  BY <1>5, <1>7, <1>8, <1>9

\* The pending row a verified callback is about.
LEMMA FindPaymentStep ==
    ASSUME TypeOK, IInv, NEW w \in Workers, NEW ok \in BOOLEAN, FindPayment(w, ok)
    PROVE  IInv'
<1>1. UNCHANGED <<order, invoice, payment, captured, jobs>>
  BY DEF FindPayment, tables, outside
<1>2. worker[w].pc \in Holding /\ worker[w].pc \notin Creating \cup {"idle"}
      /\ worker[w].pc \in Verified
  BY DEF FindPayment, Holding, Creating, Verified
<1>3. /\ worker[w].o \in Orders /\ order[worker[w].o].status # "NONE"
      /\ GatewayPayment(worker[w].p) /\ payment[worker[w].p].o = worker[w].o
      /\ worker[w].pc = "accepted" => MayAccept(worker[w].p)
  BY <1>2, AtStep DEF IInv, HandlerInv
<1>4. CASE Return(w)
  BY <1>1, <1>4, ReturnStep
<1>5. CASE ~Return(w)
  <2>1. PICK q \in PendingWithRefOf(worker[w].p), pc \in {"declined", "paid", "mismatch"} :
           /\ Become(w, [worker[w] EXCEPT !.pc = pc, !.p = q])
           /\ pc = "paid" => worker[w].pc = "accepted"
    BY <1>5 DEF FindPayment, At
  <2>2. PICK next : next = [worker[w] EXCEPT !.pc = pc, !.p = q]
    OBVIOUS
  <2>3. next.pc = pc /\ next.o = worker[w].o /\ next.p = q /\ next.job = worker[w].job
    BY <2>2 DEF TypeOK, WorkerRow
  <2>4. q \in Payments /\ payment[q].status = "PENDING" /\ SameRef(worker[w].p, q)
    BY DEF PendingWithRefOf
  <2>5. GatewayPayment(q) /\ payment[q].o = worker[w].o
    BY <1>3, <2>4 DEF IInv, TablesInv, SameRef
  <2>6. pc = "paid" => MayAccept(q)
    BY <1>3, <2>1, <2>4 DEF SameRef, MayAccept
  <2>7. /\ GatewayPayment(next.p)' /\ payment'[next.p].o = next.o
        /\ TurnsTo(w, next.o) /\ next.pc \in Holding
        /\ next.pc \in {"accepted", "paid"} => MayAccept(next.p)'
    BY <1>1, <2>3, <2>5, <2>6 DEF GatewayPayment, MayAccept, TurnsTo, Holding
  <2>8. TableFacts' /\ RowsKept /\ InsertsUnclaimed(w)
    BY <1>1, TablesUnchanged
  <2>9. next.o \in Orders /\ order'[next.o].status # "NONE"
    BY <1>1, <1>3, <2>3
  <2>10. next.job # None => GatewayPayment(next.job.p)
    BY <2>3, AtStep
  <2>11. HandlersInv'
    BY <2>1, <2>2, <2>7, <2>8, <2>9, <2>10, HoldKeeps
  <2>12. QED
    BY <2>8, <2>11, Joined
<1>6. QED
  BY <1>4, <1>5

\* Steps that settle an order with a new payment.
LEMMA SettlingStep ==
    ASSUME TypeOK, IInv, NEW w \in Workers,
           PayFromWallet(w) \/ SettleFreeOrder(w) \/ RecordCredit(w)
    PROVE  IInv'
<1>1. PICK o : o = worker[w].o
  OBVIOUS
<1>2. o \in Orders /\ order[o].status # "NONE"
  BY <1>1, AtStep DEF PayFromWallet, SettleFreeOrder, RecordCredit, At, Creating
<1>3. /\ worker[w].row.total \in Nat /\ worker[w].row.amt \in Nat
      /\ order[o].total \in Nat
  BY <1>2, WorkerFields, OrderFields DEF TypeOK
<1>4. PICK p \in Payments, amt \in Nat, gateway \in Internal, total \in Nat :
         /\ FreshPayment(p)
         /\ SettleWith(o, p, NewPayment(o, gateway, amt, "COMPLETED"), total)
  BY <1>1, <1>3 DEF PayFromWallet, SettleFreeOrder, RecordCredit, Internal
<1>5. PICK row : row = NewPayment(o, gateway, amt, "COMPLETED")
  OBVIOUS
<1>6. /\ row \in PaymentRow
      /\ row.o = o /\ row.status = "COMPLETED" /\ row.gateway \in Internal
  BY <1>2, <1>5, NewPaymentType DEF NewPayment, Internal, PaymentStatus
<1>7. UNCHANGED <<captured, jobs>> /\ Return(w)
  BY DEF PayFromWallet, SettleFreeOrder, RecordCredit, outside
<1>8. TableFacts' /\ RowsKept /\ InsertsUnclaimed(w)
  BY <1>2, <1>4, <1>5, <1>6, <1>7, SettleKeeps
<1>9. QED
  BY <1>7, <1>8, ReturnKeeps, Joined

LEMMA CompletePaymentStep ==
    ASSUME TypeOK, IInv, NEW w \in Workers, CompletePayment(w)
    PROVE  IInv'
<1>1. PICK o : o = worker[w].o
  OBVIOUS
<1>2. PICK p : p = worker[w].p
  OBVIOUS
<1>3. PICK row : row = [payment[p] EXCEPT !.status = "COMPLETED"]
  OBVIOUS
<1>4. worker[w].pc = "paid" /\ "paid" \in Holding /\ "paid" \notin Creating \cup {"idle"}
  BY DEF CompletePayment, At, Holding, Creating
<1>5. /\ o \in Orders /\ order[o].status # "NONE"
      /\ GatewayPayment(p) /\ payment[p].o = o
      /\ MayAccept(p)
  BY <1>1, <1>2, <1>4, AtStep DEF IInv, HandlerInv, Verified
<1>6. p \in Payments /\ payment[p] \in PaymentRow
  BY <1>5, GatewayRowExists DEF TypeOK
<1>7. /\ row \in PaymentRow /\ row.o = o /\ row.status = "COMPLETED"
      /\ row.gateway = payment[p].gateway
  BY <1>3, <1>5, <1>6 DEF PaymentRow, PaymentStatus
<1>8. SettleWith(o, p, row, order[o].total) /\ Return(w) /\ UNCHANGED <<captured, jobs>>
  BY <1>1, <1>2, <1>3 DEF CompletePayment, outside
<1>9. TableFacts' /\ RowsKept /\ InsertsUnclaimed(w)
  BY <1>5, <1>6, <1>7, <1>8, SettleKeeps
<1>10. QED
  BY <1>8, <1>9, ReturnKeeps, Joined

\* Steps that expire or fail the payment they hold.
LEMMA PaymentStatusStep ==
    ASSUME TypeOK, IInv, NEW w \in Workers,
           ExpirePrevious(w) \/ RejectAmount(w) \/ DeclinePayment(w) \/ ExpirePayment(w)
    PROVE  IInv'
<1>1. PICK p : p = worker[w].p
  OBVIOUS
<1>2. worker[w].pc \in {"expire", "mismatch", "declined", "lapse"}
  BY DEF ExpirePrevious, RejectAmount, DeclinePayment, ExpirePayment, At
<1>3. /\ worker[w].pc \in Holding
      /\ worker[w].pc \notin Creating \cup {"idle"}
      /\ worker[w].o \in Orders
      /\ order[worker[w].o].status # "NONE"
      /\ GatewayPayment(p)
  BY <1>1, <1>2, AtStep DEF Holding, Creating
<1>4. PICK status \in {"EXPIRED", "FAILED"} :
         payment' = [payment EXCEPT ![p].status = status]
  BY <1>1 DEF ExpirePrevious, RejectAmount, DeclinePayment, ExpirePayment
<1>5. UNCHANGED <<order, invoice, captured, jobs>>
  BY DEF ExpirePrevious, RejectAmount, DeclinePayment, ExpirePayment, outside
<1>6. p \in Payments /\ payment[p] \in PaymentRow
  BY <1>3, GatewayRowExists DEF TypeOK
<1>7. /\ payment'[p].status = status
      /\ payment'[p].o = payment[p].o
      /\ payment'[p].gateway = payment[p].gateway
      /\ \A x \in Payments \ {p} : payment'[x] = payment[x]
  BY <1>4, <1>6 DEF TypeOK, PaymentRow
<1>8. TableFacts' /\ RowsKept /\ InsertsUnclaimed(w)
  BY <1>3, <1>5, <1>7, RevisionKeeps DEF InsertsUnclaimed
<1>9. CASE Return(w)
  BY <1>8, <1>9, ReturnKeeps, Joined
<1>10. CASE ExpirePrevious(w)
  <2>1. PICK next : next = [worker[w] EXCEPT !.pc = "charge", !.p = None]
    OBVIOUS
  <2>2. next.pc = "charge" /\ next.o = worker[w].o /\ next.job = worker[w].job
    BY <2>1 DEF TypeOK, WorkerRow
  <2>3. Become(w, next)
    BY <1>10, <2>1 DEF ExpirePrevious
  <2>4. next.pc \in Plain /\ TurnsTo(w, next.o)
    BY <2>2 DEF Plain, Steps, Creating, Holding, TurnsTo
  <2>5. next.job # None => GatewayPayment(next.job.p)
    BY <2>2, AtStep
  <2>6. HandlersInv'
    BY <1>3, <1>5, <1>8, <2>2, <2>3, <2>4, <2>5, BecomeKeeps
  <2>7. QED
    BY <1>8, <2>6, Joined
<1>11. CASE DeclinePayment(w)
  <2>1. PICK next : next = [worker[w] EXCEPT !.pc = "dunning"]
    OBVIOUS
  <2>2. /\ next.pc = "dunning" /\ next.o = worker[w].o /\ next.p = p
        /\ next.job = worker[w].job
    BY <1>1, <2>1 DEF TypeOK, WorkerRow
  <2>3. Become(w, next)
    BY <1>11, <2>1 DEF DeclinePayment, Goto
  <2>4. /\ next.pc \in Holding /\ TurnsTo(w, next.o)
        /\ next.pc \notin Verified \cup {"accepted", "paid"}
    BY <2>2 DEF Holding, Verified, TurnsTo
  <2>5. GatewayPayment(next.p)'
    BY <1>3, <1>8, <2>2, GatewayPaymentKept
  <2>6. next.job # None => GatewayPayment(next.job.p)
    BY <2>2, AtStep
  <2>7. HandlersInv'
    BY <1>3, <1>5, <1>8, <2>2, <2>3, <2>4, <2>5, <2>6, HoldKeeps
  <2>8. QED
    BY <1>8, <2>7, Joined
<1>12. QED
  BY <1>9, <1>10, <1>11 DEF RejectAmount, ExpirePayment

\* The other steps that write a table or the wallet.
LEMMA WritingStep ==
    ASSUME TypeOK, IInv, NEW w \in Workers,
           \/ GenerateInvoice(w) \/ MarkOverdue(w) \/ CreditWallet(w) \/ CommitCancel(w)
    PROVE  IInv'
<1>1. worker[w].pc \in {"bill", "overdue", "credit", "cancel"}
  BY DEF GenerateInvoice, MarkOverdue, CreditWallet, CommitCancel, At
<1>2. /\ worker[w].pc \notin Creating \cup {"idle"}
      /\ worker[w].o \in Orders
      /\ order[worker[w].o].status # "NONE"
  BY <1>1, AtStep DEF Creating
<1>3. {"billed", "credited"} \subseteq Plain
  BY DEF Plain, Steps, Creating, Holding
<1>4. UNCHANGED <<captured, jobs>>
  BY DEF GenerateInvoice, MarkOverdue, CreditWallet, CommitCancel, outside
<1>5. CASE CreditWallet(w)
  BY <1>2, <1>3, <1>4, <1>5, GotoStep, ReturnStep DEF CreditWallet, tables
<1>6. CASE GenerateInvoice(w) \/ MarkOverdue(w)
  <2>1. UNCHANGED <<order, payment>>
    BY <1>6 DEF GenerateInvoice, MarkOverdue
  <2>2. \A x \in Orders : invoice'[x] = "PAID" => invoice[x] = "PAID"
    BY <1>6 DEF GenerateInvoice, MarkOverdue, TypeOK
  <2>3. TableFacts' /\ RowsKept /\ InsertsUnclaimed(w)
    BY <1>4, <2>1, <2>2, RevisionKeeps DEF InsertsUnclaimed
  <2>4. QED
    BY <1>2, <1>3, <1>6, <2>3, GotoKeeps, ReturnKeeps, Joined DEF GenerateInvoice, MarkOverdue
<1>7. CASE CommitCancel(w)
  <2>1. PICK o : o = worker[w].o
    OBVIOUS
  <2>2. order' = [order EXCEPT ![o].status = "CANCELLED"]
    BY <1>7, <2>1 DEF CommitCancel
  <2>3. \A x \in Orders : /\ order'[x].pay = order[x].pay
                          /\ \/ order'[x].status = order[x].status
                             \/ /\ order'[x].status = "CANCELLED"
                                /\ order[x].status # "NONE"
    BY <1>2, <2>1, <2>2 DEF TypeOK, OrderRow
  <2>4. \A x \in Orders : invoice'[x] = "PAID" => invoice[x] = "PAID"
    BY <1>7 DEF CommitCancel, TypeOK
  <2>5. ASSUME NEW x \in Payments
        PROVE  \/ payment'[x] = payment[x]
               \/ /\ GatewayPayment(x)
                  /\ payment'[x].o = payment[x].o
                  /\ payment'[x].gateway = payment[x].gateway
                  /\ payment'[x].status \in {"EXPIRED", "FAILED"}
    <3>1. payment[x] \in PaymentRow
      BY DEF TypeOK
    <3>2. \/ payment'[x] = payment[x]
          \/ x \in PendingOf(o) /\ payment'[x] = [payment[x] EXCEPT !.status = "EXPIRED"]
      BY <1>7, <2>1 DEF CommitCancel
    <3>3. x \in PendingOf(o) => GatewayPayment(x)
      BY DEF PendingOf, IInv, TablesInv
    <3>4. QED
      BY <3>1, <3>2, <3>3 DEF PaymentRow
  <2>6. TableFacts' /\ RowsKept
    BY <1>4, <2>3, <2>4, <2>5, RevisionKeeps
  <2>7. InsertsUnclaimed(w)
    BY <2>3 DEF InsertsUnclaimed
  <2>8. Return(w)
    BY <1>7 DEF CommitCancel
  <2>9. QED
    BY <2>6, <2>7, <2>8, ReturnKeeps, Joined
<1>8. QED
  BY <1>5, <1>6, <1>7

LEMMA OpenPaymentStep ==
    ASSUME TypeOK, IInv, NEW w \in Workers, OpenPayment(w)
    PROVE  IInv'
<1>1. PICK o : o = worker[w].o
  OBVIOUS
<1>2. PICK row : row = NewPayment(o, worker[w].g, worker[w].row.total, "PENDING")
  OBVIOUS
<1>3. PICK p \in Payments :
         /\ FreshPayment(p)
         /\ payment' = [payment EXCEPT ![p] = row]
         /\ Become(w, [Idle EXCEPT !.pc = "schedule", !.o = o, !.p = p])
  BY <1>1, <1>2 DEF OpenPayment
<1>4. PICK next : next = [Idle EXCEPT !.pc = "schedule", !.o = o, !.p = p]
  OBVIOUS
<1>5. o \in Orders /\ order[o].status # "NONE"
  BY <1>1, AtStep DEF OpenPayment, At, Creating
<1>6. row.o = o /\ row.status = "PENDING" /\ row.gateway \in Online
  BY <1>2 DEF OpenPayment, NewPayment
<1>7. payment'[p] = row /\ \A x \in Payments \ {p} : payment'[x] = payment[x]
  BY <1>3 DEF TypeOK
<1>8. UNCHANGED <<order, invoice, captured, jobs>>
  BY DEF OpenPayment, outside
<1>9. TableFacts' /\ RowsKept /\ InsertsUnclaimed(w)
  BY <1>3, <1>5, <1>6, <1>7, <1>8, RevisionKeeps DEF InsertsUnclaimed
<1>10. next.pc = "schedule" /\ next.o = o /\ next.p = p /\ next.job = None
  BY <1>4 DEF Idle
<1>11. /\ GatewayPayment(next.p)' /\ next.pc \in Holding /\ TurnsTo(w, next.o)
       /\ next.pc \notin Verified \cup {"accepted", "paid"}
  BY <1>1, <1>6, <1>7, <1>10 DEF GatewayPayment, Holding, Verified, TurnsTo
<1>12. HandlersInv'
  BY <1>3, <1>4, <1>5, <1>8, <1>9, <1>10, <1>11, HoldKeeps
<1>13. QED
  BY <1>9, <1>12, Joined

\* Steps that only write to the queue, and a handler that breaks off.
LEMMA QueueStep ==
    ASSUME TypeOK, IInv, NEW w \in Workers,
           \/ ScheduleExpiryCheck(w) \/ StartDunning(w) \/ QueueReminder(w)
           \/ QueueNextAttempt(w) \/ Fail(w)
    PROVE  IInv'
<1>1. UNCHANGED <<order, invoice, payment, captured>>
  BY DEF ScheduleExpiryCheck, StartDunning, QueueReminder, QueueNextAttempt, Fail,
     tables, outside
<1>2. CASE ScheduleExpiryCheck(w) \/ StartDunning(w)
  <2>1. GatewayPayment(worker[w].p)
    BY <1>2, AtStep DEF ScheduleExpiryCheck, StartDunning, At, Holding
  <2>2. \A j \in jobs' : j \in jobs \/ GatewayPayment(j.p)
    BY <1>2, <2>1 DEF ScheduleExpiryCheck, StartDunning
  <2>3. QED
    BY <1>1, <1>2, <2>2, ReturnStep DEF ScheduleExpiryCheck, StartDunning
<1>3. CASE QueueReminder(w) \/ QueueNextAttempt(w)
  <2>1. /\ worker[w].pc \in {"remind", "next"}
        /\ worker[w].job # None
        /\ GatewayPayment(worker[w].job.p)
        /\ worker[w].job \in Job
    BY <1>3, AtStep, WorkerFields DEF QueueReminder, QueueNextAttempt, At, IInv,
       HandlerInv, TypeOK
  <2>2. /\ [worker[w].job EXCEPT !.kind = "email"].p = worker[w].job.p
        /\ [worker[w].job EXCEPT !.k = @ + 1].p = worker[w].job.p
    BY <2>1 DEF Job
  <2>3. \A j \in jobs' : j \in jobs \/ GatewayPayment(j.p)
    BY <1>3, <2>1, <2>2 DEF QueueReminder, QueueNextAttempt
  <2>4. CASE QueueNextAttempt(w)
    BY <1>1, <2>3, <2>4, ReturnStep DEF QueueNextAttempt
  <2>5. CASE QueueReminder(w)
    <3>1. PICK next : next = [worker[w] EXCEPT !.pc = "next"]
      OBVIOUS
    <3>2. next.pc = "next" /\ next.o = worker[w].o /\ next.job = worker[w].job
      BY <3>1 DEF TypeOK, WorkerRow
    <3>3. Become(w, next)
      BY <2>5, <3>1 DEF QueueReminder, Goto
    <3>4. worker'[w] = next
      BY <3>3 DEF Become, TypeOK
    <3>5. TableFacts' /\ RowsKept /\ InsertsUnclaimed(w)
      BY <1>1, <2>3, TablesUnchanged
    <3>6. worker[w].o \in Orders /\ order[worker[w].o].status # "NONE"
      BY <2>1, AtStep DEF Creating
    <3>7. CreatorInv(w)' /\ HandlerInv(w)'
      BY <1>1, <2>1, <3>2, <3>4, <3>6
         DEF CreatorInv, HandlerInv, Creating, Holding, Verified, GatewayPayment
    <3>8. HandlersInv'
      BY <3>2, <3>3, <3>5, <3>7, OthersKept DEF HandlersInv, TurnsTo
    <3>9. QED
      BY <3>5, <3>8, Joined
  <2>6. QED
    BY <1>3, <2>4, <2>5
<1>4. CASE Fail(w)
  <2>1. \A j \in jobs' : j \in jobs \/ GatewayPayment(j.p)
    BY <1>4, AtStep DEF Fail
  <2>2. QED
    BY <1>1, <1>4, <2>1, ReturnStep DEF Fail
<1>5. QED
  BY <1>2, <1>3, <1>4

LEMMA IInvStep == TypeOK /\ IInv /\ [Next]_vars => IInv'
<1> SUFFICES ASSUME TypeOK, IInv, [Next]_vars PROVE IInv'
  OBVIOUS
<1>1. ASSUME NEW w \in Workers, Proceed(w) PROVE IInv'
  BY <1>1, ValidatePromoStep, InsertInvoiceStep, CommitOrderStep, ReadingStep, FindPaymentStep, SettlingStep,
     CompletePaymentStep, PaymentStatusStep, WritingStep, OpenPaymentStep, QueueStep
     DEF Proceed
<1>2. ASSUME NEW p \in Payments, Capture(p) PROVE IInv'
  <2>1. /\ UNCHANGED <<order, invoice, payment, jobs, worker>>
        /\ captured' = captured \cup {p}
        /\ GatewayPayment(p)
    BY <1>2 DEF Capture, tables, GatewayPayment, Online
  <2>2. \A x : MayAccept(x) => MayAccept(x)'
    BY <2>1 DEF MayAccept
  <2>3. PaidMeansSettled' /\ KhaltiPaymentWasCaptured'
    BY <2>1, <2>2 DEF IInv, PaidMeansSettled, CompletedHasPayment, PaidInvoiceHasPayment,
       PaymentSettlesItsOrder, SettledStaysSettled, KhaltiPaymentWasCaptured
  <2>4. TablesInv'
    BY <2>1 DEF IInv, TablesInv, GatewayPayment
  <2>5. \A w \in Workers : CreatorInv(w)' /\ HandlerInv(w)'
    BY <2>1, <2>2 DEF IInv, CreatorInv, HandlerInv, GatewayPayment
  <2>6. QED
    BY <2>3, <2>4, <2>5 DEF IInv
<1>3. ASSUME UNCHANGED <<order, invoice, payment, captured, jobs, worker>> PROVE IInv'
  <2>1. TableFacts'
    BY <1>3, TablesUnchanged
  <2>2. \A w \in Workers : CreatorInv(w)' /\ HandlerInv(w)'
    BY <1>3 DEF IInv, CreatorInv, HandlerInv, GatewayPayment, MayAccept
  <2>3. QED
    BY <2>1, <2>2 DEF TableFacts, IInv
<1>4. ASSUME NEW u \in Users, SetUserFree(u) PROVE IInv'
  BY <1>3, <1>4 DEF SetUserFree, tables
<1>5. CASE UNCHANGED vars
  BY <1>3, <1>5 DEF vars
<1>6. QED
  BY <1>1, <1>2, <1>4, <1>5, RequestStep, StartJobStep, QueueStep DEF Next

LEMMA IInvInit == Init => IInv
<1> SUFFICES ASSUME Init PROVE IInv
  OBVIOUS
<1>1. /\ \A o \in Orders : order[o].status = "NONE" /\ order[o].pay = None /\ invoice[o] = "NONE"
      /\ \A p \in Payments : payment[p].status = "NONE" /\ payment[p].gateway = "NONE"
      /\ \A w \in Workers : worker[w].pc = "idle" /\ worker[w].job = None
      /\ captured = {} /\ jobs = {}
  BY DEF Init, NoOrder, NoPayment, Idle
<1>2. PaidMeansSettled /\ KhaltiPaymentWasCaptured
  BY <1>1 DEF PaidMeansSettled, CompletedHasPayment, PaidInvoiceHasPayment,
     PaymentSettlesItsOrder, SettledStaysSettled, KhaltiPaymentWasCaptured
<1>3. TablesInv
  BY <1>1 DEF TablesInv
<1>4. \A w \in Workers : CreatorInv(w) /\ HandlerInv(w)
  BY <1>1 DEF CreatorInv, HandlerInv, Creating, Holding, Verified
<1>5. QED
  BY <1>2, <1>3, <1>4 DEF IInv

LEMMA FinalStep ==
    ASSUME TypeOK, IInv, [Next]_vars, NEW p \in Payments, payment[p].gateway \in Internal
    PROVE  payment'[p] = payment[p]
<1>1. /\ ~GatewayPayment(p)
      /\ ~FreshPayment(p)
      /\ payment[p].status # "PENDING"
  BY DEF GatewayPayment, Online, Internal, FreshPayment, IInv, TablesInv
<1>2. SUFFICES ASSUME payment' # payment PROVE payment'[p] = payment[p]
  OBVIOUS
<1>3. PICK w \in Workers :
         \/ CommitOrder(w) \/ ExpirePrevious(w) \/ OpenPayment(w) \/ PayFromWallet(w)
         \/ SettleFreeOrder(w) \/ RecordCredit(w) \/ CompletePayment(w) \/ RejectAmount(w)
         \/ DeclinePayment(w) \/ CommitCancel(w) \/ ExpirePayment(w)
  <2>1. ASSUME NEW w \in Workers, Request(w) PROVE payment' = payment
    BY <2>1 DEF Request, CreateOrder, TopupWallet, InitiatePayment, InsertSuccessor,
       RenewOrder, UpgradePlan, ReceiveWebhook, CancelOrder, DunningSweep, tables
  <2>2. ASSUME NEW w \in Workers, NEW j \in jobs, StartJob(w, j) PROVE payment' = payment
    BY <2>2 DEF StartJob, ExpiryCheck, PaymentRetry, DunningEmail, tables
  <2>3. ASSUME NEW w \in Workers,
               \/ ValidatePromoCode(w) \/ InsertInvoice(w) \/ TopupExempt(w)
               \/ InitiateTopup(w) \/ CheckExempt(w) \/ FindPending(w) \/ GatewayRefuses(w)
               \/ ScheduleExpiryCheck(w) \/ ReadBalance(w) \/ CreditWallet(w)
               \/ \E ok \in BOOLEAN : FindPayment(w, ok)
        PROVE  payment' = payment
    BY <2>3 DEF ValidatePromoCode, InsertInvoice, TopupExempt, InitiateTopup, CheckExempt,
       FindPending, GatewayRefuses, ScheduleExpiryCheck, ReadBalance, CreditWallet,
       FindPayment, tables
  <2>4. ASSUME NEW w \in Workers,
               \/ StartDunning(w) \/ GenerateInvoice(w) \/ SettleIfExempt(w)
               \/ QueueReminder(w) \/ QueueNextAttempt(w) \/ MarkOverdue(w) \/ Fail(w)
        PROVE  payment' = payment
    BY <2>4 DEF StartDunning, GenerateInvoice, SettleIfExempt, QueueReminder,
       QueueNextAttempt, MarkOverdue, Fail, tables
  <2>5. /\ \A q \in Payments : Capture(q) => payment' = payment
        /\ \A u \in Users : SetUserFree(u) => payment' = payment
        /\ UNCHANGED vars => payment' = payment
    BY DEF Capture, SetUserFree, tables, vars
  <2>6. QED
    BY <1>2, <2>1, <2>2, <2>3, <2>4, <2>5 DEF Next, Proceed
<1>4. CASE CommitOrder(w)
  BY <1>1, <1>4 DEF CommitOrder, TypeOK
<1>5. CASE PayFromWallet(w) \/ SettleFreeOrder(w) \/ RecordCredit(w)
  <2>1. \E x \in Payments : FreshPayment(x) /\ \E o, row, total : SettleWith(o, x, row, total)
    BY <1>5 DEF PayFromWallet, SettleFreeOrder, RecordCredit
  <2>2. QED
    BY <1>1, <2>1 DEF SettleWith, TypeOK
<1>6. CASE OpenPayment(w)
  BY <1>1, <1>6 DEF OpenPayment, TypeOK
<1>7. CASE \/ ExpirePrevious(w) \/ CompletePayment(w) \/ RejectAmount(w)
           \/ DeclinePayment(w) \/ ExpirePayment(w)
  <2>1. worker[w].p # p
    BY <1>1, <1>7, AtStep DEF ExpirePrevious, CompletePayment, RejectAmount, DeclinePayment,
       ExpirePayment, At, Holding
  <2>2. QED
    BY <1>7, <2>1 DEF ExpirePrevious, CompletePayment, RejectAmount, DeclinePayment,
       ExpirePayment, SettleWith, TypeOK
<1>8. CASE CommitCancel(w)
  BY <1>1, <1>8 DEF CommitCancel, PendingOf
<1>9. QED
  BY <1>3, <1>4, <1>5, <1>6, <1>7, <1>8

--------------------------------------------------------------------------------

\* Types are kept and what handlers hold stays good, for any number of
\* customers, orders, payments, overlapping handlers and failures.
THEOREM Inductive == Spec => [](TypeOK /\ IInv)
<1>1. Init => TypeOK /\ IInv
  BY TypeInit, IInvInit
<1>2. TypeOK /\ IInv /\ [Next]_vars => (TypeOK /\ IInv)'
  BY TypeStep, IInvStep
<1>3. QED
  BY <1>1, <1>2, PTL DEF Spec

\* Every variable keeps its type.
THEOREM TypeCorrect == Spec => []TypeOK
  BY Inductive, PTL

\* The strengthening itself, which the concurrent run checks as an invariant.
THEOREM HandlersHoldGoodRows == Spec => []IInv
  BY Inductive, PTL

\* A completed payment, a completed order or a paid invoice always leads to the
\* payment that settled the order, whichever handlers overlap or break off.
THEOREM PaidMeansSettledAlways == Spec => []PaidMeansSettled
<1>1. IInv => PaidMeansSettled
  BY DEF IInv
<1>2. QED
  BY <1>1, Inductive, PTL

\* No payment is completed online without a capture at the gateway.
THEOREM KhaltiPaymentWasCapturedAlways == Spec => []KhaltiPaymentWasCaptured
<1>1. IInv => KhaltiPaymentWasCaptured
  BY DEF IInv
<1>2. QED
  BY <1>1, Inductive, PTL

\* A wallet payment or an admin credit is never written again.
THEOREM InternalPaymentsStay == Spec => InternalPaymentsAreFinal
<1>1. TypeOK /\ IInv /\ [Next]_vars
      => [\A p \in Payments : payment[p].gateway \in Internal => payment'[p] = payment[p]]_vars
  BY FinalStep
<1>2. QED
  BY <1>1, Inductive, PTL DEF Spec, InternalPaymentsAreFinal

================================================================================
