-------------------------------- MODULE Billing --------------------------------
(****************************************************************************)
(* Orders, payments, invoices, promo codes, wallets and the Bull jobs of    *)
(* the billing module, at the granularity of its database statements.       *)
(*                                                                          *)
(* A request handler or a queue job is run by a worker.  What the code has  *)
(* read before an await is kept in the worker's record and may be stale     *)
(* when it is used; every statement outside a Prisma transaction is a step  *)
(* of its own, and a transaction is one step.  One worker means that        *)
(* handlers never overlap, several that their steps interleave.             *)
(****************************************************************************)
EXTENDS Pricing, FiniteSets

CONSTANTS
    Users,          \* the customers
    Resellers,      \* those with a Reseller row, hence a wallet
    Orders,         \* the rows the order table can hold
    Owner,          \* the customer who places each order
    Payments,       \* the rows the payment table can hold
    Workers,        \* handlers and jobs that can be in progress at once
    None,           \* null
    Amounts,        \* prices a customer can pick, in paisa
    DaysUsed,       \* ages an order can have when it is upgraded
    Codes,          \* texts customers type for the one promo code, in any case
    StoredCode,     \* that code as it is stored, in upper case
    PromoType,      \* the discountType of the one promo code
    PromoValue,     \* its discountValue
    MaxUses,        \* how often that code may be used, 0 for no limit
    Opening,        \* every wallet's balance at the start
    DunningLength,  \* DUNNING_SCHEDULE.length
    MaxFails,       \* bound on handlers that break off halfway
    InvoiceFk       \* does the database enforce Invoice.orderId -> Order.id?

ASSUME SetsAssumption ==
    /\ Resellers \subseteq Users
    /\ Owner \in [Orders -> Users]
    /\ None \notin Users \cup Orders \cup Payments \cup Codes \cup {StoredCode}
    /\ InvoiceFk \in BOOLEAN

ASSUME NumbersAssumption ==
    /\ Amounts \subseteq Nat
    /\ DaysUsed \subseteq Nat
    /\ {PromoValue, MaxUses, Opening, DunningLength, MaxFails} \subseteq Nat
    /\ PromoType \in {"PERCENTAGE", "FIXED_AMOUNT"}
    /\ DunningLength > 1

VARIABLES
    order,      \* the order table
    invoice,    \* the status of the one invoice of each order
    payment,    \* the payment table
    captured,   \* payments the customer has made good at Khalti
    wallet,     \* Reseller.walletBalanceNpr
    credited,   \* history: what creditWallet has added to each wallet
    isFree,     \* User.isFree
    promoUsed,  \* PromoCode.usedCount
    jobs,       \* waiting and delayed jobs of the queue billing-payment
    worker,     \* the handlers in progress
    fails       \* history: handlers that broke off

vars == <<order, invoice, payment, captured, wallet, credited, isFree,
          promoUsed, jobs, worker, fails>>

--------------------------------------------------------------------------------

Online == {"KHALTI", "ESEWA"}
Internal == {"WALLET", "ADMIN_CREDIT"}

\* What initiatePayment may be asked for (asked for a gateway it does not
\* support, it does what it does when a gateway refuses).
GatewayChoices == Online \cup {"WALLET"}

OrderStatus == {"NONE", "PENDING", "COMPLETED", "CANCELLED"}
InvoiceStatus == {"NONE", "DRAFT", "PAID", "OVERDUE", "CANCELLED"}
PaymentStatus == {"NONE", "PENDING", "COMPLETED", "FAILED", "EXPIRED"}

OrderRow == [status : OrderStatus, amt : Nat, total : Nat, topup : BOOLEAN,
             promo : Codes \cup {None}, pay : Payments \cup {None}]
PaymentRow == [status : PaymentStatus, o : Orders \cup {None},
               gateway : Online \cup Internal \cup {"NONE"}, amt : Nat]

\* A job carries the payment it was queued for; k is the dunning attempt.
Job == [kind : {"expiry", "retry", "email"}, p : Payments, k : Nat]

ASSUME JobAssumption == None \notin Job

Steps == {"idle", "promo", "invoice", "commit", "topup", "initiate", "exempt",
          "find", "expire", "charge", "schedule", "deduct", "settle", "credit",
          "credited", "accepted", "refused", "paid", "declined", "mismatch",
          "dunning", "cancel", "bill", "billed", "lapse", "remind", "next",
          "overdue"}

\* pc is the next step; o, p and g the order, payment and gateway it is about;
\* row the order as the handler read it; job the job a Bull worker is running.
WorkerRow == [pc : Steps, o : Orders \cup {None}, p : Payments \cup {None},
              g : GatewayChoices \cup {"NONE"}, row : OrderRow, job : Job \cup {None}]

NoOrder == [status |-> "NONE", amt |-> 0, total |-> 0, topup |-> FALSE,
            promo |-> None, pay |-> None]
NoPayment == [status |-> "NONE", o |-> None, gateway |-> "NONE", amt |-> 0]
Idle == [pc |-> "idle", o |-> None, p |-> None, g |-> "NONE", row |-> NoOrder,
         job |-> None]

Init ==
    /\ order = [o \in Orders |-> NoOrder]
    /\ invoice = [o \in Orders |-> "NONE"]
    /\ payment = [p \in Payments |-> NoPayment]
    /\ captured = {}
    /\ wallet = [u \in Users |-> IF u \in Resellers THEN Opening ELSE 0]
    /\ credited = [u \in Users |-> 0]
    /\ isFree \in [Users -> BOOLEAN]
    /\ promoUsed = 0
    /\ jobs = {}
    /\ worker = [w \in Workers |-> Idle]
    /\ fails = 0

--------------------------------------------------------------------------------
\* The worker's control state.

At(w, step) == worker[w].pc = step

Become(w, next) == worker' = [worker EXCEPT ![w] = next]
Goto(w, step) == Become(w, [worker[w] EXCEPT !.pc = step])
Return(w) == Become(w, Idle)

\* The request goes on to a settlement, without the gateway it asked for.
Settle(w, step) == Become(w, [worker[w] EXCEPT !.pc = step, !.g = "NONE"])

\* Groups of variables that most steps leave alone.
tables == <<order, invoice, payment>>
purse == <<wallet, credited>>
outside == <<captured, isFree, fails>>

\* A row of the order table nobody has inserted or is about to insert.
FreshOrder(o) ==
    /\ order[o].status = "NONE"
    /\ invoice[o] = "NONE"
    /\ \A w \in Workers : worker[w].o # o

FreshPayment(p) == payment[p].status = "NONE"

\* Bound: a request that may end in a payment row is accepted only while every
\* handler in progress, and this one, can still insert one.
RoomForPayment ==
    Cardinality({p \in Payments : FreshPayment(p)})
        > Cardinality({w \in Workers : ~At(w, "idle")})

NewOrder(amt, total, topup) ==
    [NoOrder EXCEPT !.status = "PENDING", !.amt = amt, !.total = total,
                    !.topup = topup]

NewPayment(o, gateway, amt, status) ==
    [status |-> status, o |-> o, gateway |-> gateway, amt |-> amt]

\* Mutant: the invoice is sent, not paid, when its order is settled.
PayInvoices_Sent(o) ==
    invoice' = [invoice EXCEPT ![o] =
                   IF @ \in {"NONE", "CANCELLED"} THEN @ ELSE "SENT"]

\* invoice.updateMany where orderId = o and status is not CANCELLED.
PayInvoices(o) ==
    invoice' = [invoice EXCEPT ![o] =
                   IF @ \in {"NONE", "CANCELLED"} THEN @ ELSE "PAID"]

\* Mutant: the order is completed without the id of the payment that settled it.
SettleWith_NoPaymentId(o, p, paymentRow, total) ==
    /\ payment' = [payment EXCEPT ![p] = paymentRow]
    /\ order' = [order EXCEPT ![o].status = "COMPLETED", ![o].total = total]
    /\ PayInvoices(o)

\* The writes every settlement makes in its transaction: the payment row, the
\* order it completes, with its totals, and the order's invoices.
SettleWith(o, p, paymentRow, total) ==
    /\ payment' = [payment EXCEPT ![p] = paymentRow]
    /\ order' = [order EXCEPT ![o].status = "COMPLETED", ![o].pay = p,
                              ![o].total = total]
    /\ PayInvoices(o)

--------------------------------------------------------------------------------
\* createOrder.

\* The request: totals are computed from the items, and the exemption is read.
\* The order will carry the promo code as it was typed.
CreateOrder(w, o, subtotal, code) ==
    LET free == isFree[Owner[o]]
        row == [NewOrder(subtotal, OrderTotal(subtotal, IF free THEN subtotal ELSE 0),
                         FALSE)
                   EXCEPT !.status = IF free THEN "COMPLETED" ELSE "PENDING",
                          !.promo = IF free THEN None ELSE code]
    IN  /\ At(w, "idle")
        /\ FreshOrder(o)
        /\ Become(w, [Idle EXCEPT !.pc = IF row.promo = None THEN "invoice" ELSE "promo",
                                  !.o = o, !.row = row])
        /\ UNCHANGED <<tables, purse, outside, promoUsed, jobs>>

\* validatePromoCode looks the code up in upper case, so any spelling of it will
\* do; the use count is read here and incremented later.
PromoHasUsesLeft == MaxUses = 0 \/ promoUsed < MaxUses

ValidatePromoCode(w) ==
    LET row == worker[w].row
        discount == PromoDiscount(PromoType, row.amt, PromoValue)
    IN  /\ At(w, "promo")
        /\ IF PromoHasUsesLeft
           THEN Become(w, [worker[w] EXCEPT
                    !.pc = "invoice",
                    !.row.total = OrderTotal(row.amt, discount)])
           ELSE Return(w)
        /\ UNCHANGED <<tables, purse, outside, promoUsed, jobs>>

\* Inside the transaction generateInvoice runs on the service's own connection:
\* it cannot see the order row, so with the foreign key the insert fails and
\* the transaction is rolled back; without it, the row is committed at once.
InsertInvoice(w) ==
    /\ At(w, "invoice")
    /\ IF InvoiceFk
       THEN Return(w) /\ UNCHANGED invoice
       ELSE /\ Goto(w, "commit")
            /\ invoice' = [invoice EXCEPT ![worker[w].o] = "DRAFT"]
    /\ UNCHANGED <<order, payment, purse, outside, promoUsed, jobs>>

\* The transaction commits: the order and the use of the code, counted for its
\* upper-case form; for an exempt customer also the ADMIN_CREDIT payment and the
\* paid invoice.
CommitOrder(w) ==
    LET o == worker[w].o
        row == worker[w].row
    IN  /\ At(w, "commit")
        /\ IF row.status = "COMPLETED"
           THEN \E p \in Payments :
                   /\ FreshPayment(p)
                   /\ payment' = [payment EXCEPT ![p] =
                                     NewPayment(o, "ADMIN_CREDIT", 0, "COMPLETED")]
                   /\ order' = [order EXCEPT ![o] = [row EXCEPT !.pay = p]]
                   /\ PayInvoices(o)
           ELSE /\ order' = [order EXCEPT ![o] = row]
                /\ UNCHANGED <<invoice, payment>>
        /\ promoUsed' = promoUsed + (IF row.promo = None THEN 0 ELSE 1)
        /\ Return(w)
        /\ UNCHANGED <<purse, outside, jobs>>

--------------------------------------------------------------------------------
\* topupWallet.

\* The top-up order is inserted: no VAT and no invoice.
TopupWallet(w, o, amt, g) ==
    /\ At(w, "idle")
    /\ FreshOrder(o)
    /\ order' = [order EXCEPT ![o] = NewOrder(amt, amt, TRUE)]
    /\ Become(w, [Idle EXCEPT !.pc = "topup", !.o = o, !.g = g,
                              !.row = NewOrder(amt, amt, TRUE)])
    /\ UNCHANGED <<invoice, payment, purse, outside, promoUsed, jobs>>

\* An exempt customer is credited directly, anyone else is sent to pay.
TopupExempt(w) ==
    /\ At(w, "topup")
    /\ IF isFree[Owner[worker[w].o]] THEN Settle(w, "credit") ELSE Goto(w, "initiate")
    /\ UNCHANGED <<tables, purse, outside, promoUsed, jobs>>

--------------------------------------------------------------------------------
\* initiatePayment.

\* getOrderById: the handler goes on with the order as it is now, if pending.
ReadOrder(w, o, g) ==
    IF order[o].status = "PENDING"
    THEN Become(w, [Idle EXCEPT !.pc = "exempt", !.o = o, !.g = g, !.row = order[o]])
    ELSE Return(w)

InitiatePayment(w, o, g) ==
    /\ At(w, "idle")
    /\ order[o].status = "PENDING"
    /\ ReadOrder(w, o, g)
    /\ UNCHANGED <<tables, purse, outside, promoUsed, jobs>>

InitiateTopup(w) ==
    /\ At(w, "initiate")
    /\ ReadOrder(w, worker[w].o, worker[w].g)
    /\ UNCHANGED <<tables, purse, outside, promoUsed, jobs>>

\* isUserFree: an exempt customer's order is settled for free, a top-up credited.
CheckExempt(w) ==
    /\ At(w, "exempt")
    /\ IF isFree[Owner[worker[w].o]]
       THEN Settle(w, IF worker[w].row.topup THEN "credit" ELSE "settle")
       ELSE Goto(w, "find")
    /\ UNCHANGED <<tables, purse, outside, promoUsed, jobs>>

\* Mutants: the query forgets the status, or looks at one gateway only.
PendingOf_AnyStatus(o) == {p \in Payments : payment[p].o = o}
PendingOf_OneGateway(o) ==
    {p \in Payments : /\ payment[p].status = "PENDING"
                      /\ payment[p].o = o
                      /\ payment[p].gateway = "KHALTI"}

\* findFirst for a pending payment of the order.
PendingOf(o) == {p \in Payments : payment[p].status = "PENDING" /\ payment[p].o = o}

FindPending(w) ==
    LET pending == PendingOf(worker[w].o)
    IN  /\ At(w, "find")
        /\ \/ /\ pending = {}
              /\ Goto(w, "charge")
           \/ \E p \in pending :
                 Become(w, [worker[w] EXCEPT !.pc = "expire", !.p = p])
        /\ UNCHANGED <<tables, purse, outside, promoUsed, jobs>>

\* Mutant: the previous payment is found but not expired.
ExpirePrevious_KeepsIt(w) ==
    /\ At(w, "expire")
    /\ Become(w, [worker[w] EXCEPT !.pc = "charge", !.p = None])
    /\ UNCHANGED <<tables, purse, outside, promoUsed, jobs>>

\* It is expired by its id, whatever its status has become.
ExpirePrevious(w) ==
    /\ At(w, "expire")
    /\ payment' = [payment EXCEPT ![worker[w].p].status = "EXPIRED"]
    /\ Become(w, [worker[w] EXCEPT !.pc = "charge", !.p = None])
    /\ UNCHANGED <<order, invoice, purse, outside, promoUsed, jobs>>

\* Mutant: the expiry check is never queued.
OpenPayment_NoExpiryCheck(w) ==
    LET o == worker[w].o
    IN  /\ At(w, "charge")
        /\ worker[w].g \in Online
        /\ \E p \in Payments :
              /\ FreshPayment(p)
              /\ payment' = [payment EXCEPT ![p] =
                    NewPayment(o, worker[w].g, worker[w].row.total, "PENDING")]
        /\ Return(w)
        /\ UNCHANGED <<order, invoice, purse, outside, promoUsed, jobs>>

\* A session with the gateway, and the pending payment row.
OpenPayment(w) ==
    LET o == worker[w].o
    IN  /\ At(w, "charge")
        /\ worker[w].g \in Online
        /\ \E p \in Payments :
              /\ FreshPayment(p)
              /\ payment' = [payment EXCEPT ![p] =
                    NewPayment(o, worker[w].g, worker[w].row.total, "PENDING")]
              /\ Become(w, [Idle EXCEPT !.pc = "schedule", !.o = o, !.p = p])
        /\ UNCHANGED <<order, invoice, purse, outside, promoUsed, jobs>>

\* The gateway call fails: a 400.
GatewayRefuses(w) ==
    /\ At(w, "charge")
    /\ worker[w].g # "WALLET"
    /\ Return(w)
    /\ UNCHANGED <<tables, purse, outside, promoUsed, jobs>>

ScheduleExpiryCheck(w) ==
    /\ At(w, "schedule")
    /\ jobs' = jobs \cup {[kind |-> "expiry", p |-> worker[w].p, k |-> 0]}
    /\ Return(w)
    /\ UNCHANGED <<tables, purse, outside, promoUsed>>

--------------------------------------------------------------------------------
\* processWalletPayment, settleFreeOrder, completeWalletTopup.

\* Mutant: the balance is not compared with the total.
ReadBalance_Unchecked(w) ==
    /\ At(w, "charge")
    /\ worker[w].g = "WALLET"
    /\ Settle(w, "deduct")
    /\ UNCHANGED <<tables, purse, outside, promoUsed, jobs>>

\* The balance is checked against the total that was read with the order.
ReadBalance(w) ==
    /\ At(w, "charge")
    /\ worker[w].g = "WALLET"
    /\ IF wallet[Owner[worker[w].o]] < worker[w].row.total
       THEN Return(w)
       ELSE Settle(w, "deduct")
    /\ UNCHANGED <<tables, purse, outside, promoUsed, jobs>>

\* Mutant: the decrement uses the order's total now, the payment the total read.
PayFromWallet_TotalNow(w) ==
    LET o == worker[w].o
        due == worker[w].row.total
    IN  /\ At(w, "deduct")
        /\ \E p \in Payments :
              /\ FreshPayment(p)
              /\ SettleWith(o, p, NewPayment(o, "WALLET", due, "COMPLETED"),
                            order[o].total)
        /\ wallet' = IF Owner[o] \in Resellers
                     THEN [wallet EXCEPT ![Owner[o]] = @ - order[o].total]
                     ELSE wallet
        /\ Return(w)
        /\ UNCHANGED <<credited, outside, promoUsed, jobs>>

\* The transaction: decrement by the total read, whatever the balance is now.
PayFromWallet(w) ==
    LET o == worker[w].o
        due == worker[w].row.total
    IN  /\ At(w, "deduct")
        /\ \E p \in Payments :
              /\ FreshPayment(p)
              /\ SettleWith(o, p, NewPayment(o, "WALLET", due, "COMPLETED"),
                            order[o].total)
        /\ wallet' = IF Owner[o] \in Resellers
                     THEN [wallet EXCEPT ![Owner[o]] = @ - due]
                     ELSE wallet
        /\ Return(w)
        /\ UNCHANGED <<credited, outside, promoUsed, jobs>>

SettleFreeOrder(w) ==
    LET o == worker[w].o
    IN  /\ At(w, "settle")
        /\ \E p \in Payments :
              /\ FreshPayment(p)
              /\ SettleWith(o, p, NewPayment(o, "ADMIN_CREDIT", 0, "COMPLETED"), 0)
        /\ Return(w)
        /\ UNCHANGED <<purse, outside, promoUsed, jobs>>

\* Mutant: the wallet is credited with the VAT as well.
CreditWallet_WithVat(w) ==
    LET u == Owner[worker[w].o]
        amt == worker[w].row.total
    IN  /\ At(w, "credit")
        /\ IF u \in Resellers
           THEN /\ wallet' = [wallet EXCEPT ![u] = @ + amt]
                /\ credited' = [credited EXCEPT ![u] = @ + amt]
                /\ Goto(w, "credited")
           ELSE Return(w) /\ UNCHANGED purse
        /\ UNCHANGED <<tables, outside, promoUsed, jobs>>

\* creditWallet: refused to a customer without a Reseller row; otherwise a
\* committed statement of its own, before the transaction that records it.
CreditWallet(w) ==
    LET u == Owner[worker[w].o]
        amt == worker[w].row.amt
    IN  /\ At(w, "credit")
        /\ IF u \in Resellers
           THEN /\ wallet' = [wallet EXCEPT ![u] = @ + amt]
                /\ credited' = [credited EXCEPT ![u] = @ + amt]
                /\ Goto(w, "credited")
           ELSE Return(w) /\ UNCHANGED purse
        /\ UNCHANGED <<tables, outside, promoUsed, jobs>>

RecordCredit(w) ==
    LET o == worker[w].o
    IN  /\ At(w, "credited")
        /\ \E p \in Payments :
              /\ FreshPayment(p)
              /\ SettleWith(o, p,
                    NewPayment(o, "ADMIN_CREDIT", worker[w].row.amt, "COMPLETED"),
                    order[o].total)
        /\ Return(w)
        /\ UNCHANGED <<purse, outside, promoUsed, jobs>>

--------------------------------------------------------------------------------
\* processPaymentWebhook.

\* The customer makes good a payment at Khalti (external).
Capture(p) ==
    /\ payment[p].gateway = "KHALTI"
    /\ p \notin captured
    /\ captured' = captured \cup {p}
    /\ UNCHANGED <<tables, purse, isFree, fails, promoUsed, jobs, worker>>

\* Khalti is asked, and answers "Completed" for a payment it has captured only
\* (any other answer, one in progress or refunded included, is a failure); eSewa
\* is not asked: what its callback says of the payment is taken as it is.
MayAccept(p) == payment[p].gateway = "KHALTI" => p \in captured

\* Mutant: Khalti's callback is believed without the lookup.
ReceiveWebhook_Unverified(w, p, accepted) ==
    /\ At(w, "idle")
    /\ payment[p].gateway \in Online
    /\ Become(w, [Idle EXCEPT !.pc = IF accepted THEN "accepted" ELSE "refused",
                              !.o = payment[p].o, !.p = p])
    /\ UNCHANGED <<tables, purse, outside, promoUsed, jobs>>

\* A callback for p, the first or a repeated one, and its verification.  One that
\* cannot be verified is a 400 and changes nothing.
ReceiveWebhook(w, p, accepted) ==
    /\ At(w, "idle")
    /\ payment[p].gateway \in Online
    /\ accepted => MayAccept(p)
    /\ Become(w, [Idle EXCEPT !.pc = IF accepted THEN "accepted" ELSE "refused",
                              !.o = payment[p].o, !.p = p])
    /\ UNCHANGED <<tables, purse, outside, promoUsed, jobs>>

\* A Khalti payment is referred to by its own pidx, an eSewa payment by the order
\* number, which every eSewa payment of the order shares.
SameRef(p, q) ==
    /\ payment[p].gateway = payment[q].gateway
    /\ p = q \/ (payment[p].gateway = "ESEWA" /\ payment[p].o = payment[q].o)

PendingWithRefOf(p) == {q \in Payments : payment[q].status = "PENDING" /\ SameRef(p, q)}

\* findFirst among the pending payments of that reference: a 404 if there is none.
FindPayment(w, amountMatches) ==
    LET found == PendingWithRefOf(worker[w].p)
        next == IF At(w, "refused") THEN "declined"
                ELSE IF amountMatches THEN "paid" ELSE "mismatch"
    IN  /\ worker[w].pc \in {"accepted", "refused"}
        /\ \/ found = {} /\ Return(w)
           \/ \E q \in found : Become(w, [worker[w] EXCEPT !.pc = next, !.p = q])
        /\ UNCHANGED <<tables, purse, outside, promoUsed, jobs>>

\* The transaction for a verified payment: all three updates are by id.
CompletePayment(w) ==
    LET p == worker[w].p
        o == worker[w].o
    IN  /\ At(w, "paid")
        /\ SettleWith(o, p, [payment[p] EXCEPT !.status = "COMPLETED"], order[o].total)
        /\ Return(w)
        /\ UNCHANGED <<purse, outside, promoUsed, jobs>>

RejectAmount(w) ==
    /\ At(w, "mismatch")
    /\ payment' = [payment EXCEPT ![worker[w].p].status = "FAILED"]
    /\ Return(w)
    /\ UNCHANGED <<order, invoice, purse, outside, promoUsed, jobs>>

\* Any verdict but COMPLETED, a payment Khalti still has in progress included.
DeclinePayment(w) ==
    /\ At(w, "declined")
    /\ payment' = [payment EXCEPT ![worker[w].p].status = "FAILED"]
    /\ Goto(w, "dunning")
    /\ UNCHANGED <<order, invoice, purse, outside, promoUsed, jobs>>

StartDunning(w) ==
    /\ At(w, "dunning")
    /\ jobs' = jobs \cup {[kind |-> "retry", p |-> worker[w].p, k |-> 1]}
    /\ Return(w)
    /\ UNCHANGED <<tables, purse, outside, promoUsed>>

--------------------------------------------------------------------------------
\* cancelOrder.

\* Mutant: any order that is not cancelled yet can be cancelled.
CancelOrder_AnyOrder(w, o) ==
    /\ At(w, "idle")
    /\ order[o].status \in {"PENDING", "COMPLETED"}
    /\ Become(w, [Idle EXCEPT !.pc = "cancel", !.o = o, !.row = order[o]])
    /\ UNCHANGED <<tables, purse, outside, promoUsed, jobs>>

CancelOrder(w, o) ==
    /\ At(w, "idle")
    /\ order[o].status = "PENDING"
    /\ Become(w, [Idle EXCEPT !.pc = "cancel", !.o = o, !.row = order[o]])
    /\ UNCHANGED <<tables, purse, outside, promoUsed, jobs>>

\* Mutant: the use of the promo code is not given back.
CommitCancel_KeepsUse(w) ==
    LET o == worker[w].o
    IN  /\ At(w, "cancel")
        /\ order' = [order EXCEPT ![o].status = "CANCELLED"]
        /\ invoice' = [invoice EXCEPT ![o] = IF @ = "DRAFT" THEN "CANCELLED" ELSE @]
        /\ payment' = [p \in Payments |->
                          IF p \in PendingOf(o)
                          THEN [payment[p] EXCEPT !.status = "EXPIRED"]
                          ELSE payment[p]]
        /\ Return(w)
        /\ UNCHANGED <<promoUsed, purse, outside, jobs>>

\* The transaction: the order by its id, draft invoices, pending payments, and
\* the use of the promo code the order was read with, which is looked up as it was
\* typed: spelt in any other way than it is stored, it matches no row.
CommitCancel(w) ==
    LET o == worker[w].o
    IN  /\ At(w, "cancel")
        /\ order' = [order EXCEPT ![o].status = "CANCELLED"]
        /\ invoice' = [invoice EXCEPT ![o] = IF @ = "DRAFT" THEN "CANCELLED" ELSE @]
        /\ payment' = [p \in Payments |->
                          IF p \in PendingOf(o)
                          THEN [payment[p] EXCEPT !.status = "EXPIRED"]
                          ELSE payment[p]]
        /\ promoUsed' = promoUsed - (IF worker[w].row.promo = StoredCode THEN 1 ELSE 0)
        /\ Return(w)
        /\ UNCHANGED <<purse, outside, jobs>>

--------------------------------------------------------------------------------
\* renewOrder and upgradePlan.

\* Both read an order, insert a pending successor n, and go on to bill it.
InsertSuccessor(w, o, n, row) ==
    /\ At(w, "idle")
    /\ FreshOrder(n)
    /\ Owner[n] = Owner[o]
    /\ order' = [order EXCEPT ![n] = row]
    /\ Become(w, [Idle EXCEPT !.pc = "bill", !.o = n, !.row = row])
    /\ UNCHANGED <<invoice, payment, purse, outside, promoUsed, jobs>>

\* A renewal costs the old amount, with VAT; a top-up is renewed as a top-up.
RenewOrder(w, o, n) ==
    /\ order[o].status \in {"COMPLETED", "CANCELLED"}
    /\ InsertSuccessor(w, o, n,
          NewOrder(order[o].amt, WithVat(order[o].amt), order[o].topup))

\* The credit is a share of the old order's amount, not of what was paid.  A
\* top-up has no term to prorate: its credit is not a number and the insert fails.
UpgradePlan(w, o, n, newSubtotal, daysUsed) ==
    LET amt == ProratedAmount(newSubtotal, order[o].amt, 1, daysUsed)
    IN  /\ order[o].status = "COMPLETED"
        /\ ~order[o].topup
        /\ InsertSuccessor(w, o, n, NewOrder(amt, WithVat(amt), FALSE))

GenerateInvoice(w) ==
    /\ At(w, "bill")
    /\ invoice' = [invoice EXCEPT ![worker[w].o] = "DRAFT"]
    /\ Goto(w, "billed")
    /\ UNCHANGED <<order, payment, purse, outside, promoUsed, jobs>>

\* Unlike initiatePayment, this does not ask whether the order is a top-up.
SettleIfExempt(w) ==
    /\ At(w, "billed")
    /\ IF isFree[Owner[worker[w].o]] THEN Settle(w, "settle") ELSE Return(w)
    /\ UNCHANGED <<tables, purse, outside, promoUsed, jobs>>

--------------------------------------------------------------------------------
\* The Bull jobs of the payment processor.

TakeJob(w, j) ==
    /\ At(w, "idle")
    /\ j \in jobs
    /\ jobs' = jobs \ {j}

\* The job is over, or goes on at a step with what it has read.
RunJob(w, j, o, step) ==
    Become(w, IF step = "idle" THEN Idle
              ELSE [Idle EXCEPT !.pc = step, !.o = o, !.p = j.p, !.job = j])

\* Mutant: the job does not ask whether the payment is still pending.
ExpiryCheck_AnyStatus(w, j) ==
    /\ j.kind = "expiry"
    /\ TakeJob(w, j)
    /\ RunJob(w, j, payment[j.p].o, "lapse")
    /\ UNCHANGED <<tables, purse, outside, promoUsed>>

\* The job asks whether the payment is PAYMENT_EXPIRY_MINUTES old, which it is by
\* then: it was queued after the row was written, with a delay of as many minutes.
ExpiryCheck(w, j) ==
    /\ j.kind = "expiry"
    /\ TakeJob(w, j)
    /\ RunJob(w, j, payment[j.p].o,
              IF payment[j.p].status = "PENDING" THEN "lapse" ELSE "idle")
    /\ UNCHANGED <<tables, purse, outside, promoUsed>>

\* The update is by id: the payment may no longer be pending.
ExpirePayment(w) ==
    /\ At(w, "lapse")
    /\ payment' = [payment EXCEPT ![worker[w].p].status = "EXPIRED"]
    /\ Return(w)
    /\ UNCHANGED <<order, invoice, purse, outside, promoUsed, jobs>>

PaymentRetry(w, j) ==
    LET o == payment[j.p].o
    IN  /\ j.kind = "retry"
        /\ TakeJob(w, j)
        /\ RunJob(w, j, o, IF order[o].status \in {"COMPLETED", "CANCELLED"} THEN "idle"
                           ELSE IF invoice[o] # "NONE" THEN "remind" ELSE "next")
        /\ UNCHANGED <<tables, purse, outside, promoUsed>>

QueueReminder(w) ==
    /\ At(w, "remind")
    /\ jobs' = jobs \cup {[worker[w].job EXCEPT !.kind = "email"]}
    /\ Goto(w, "next")
    /\ UNCHANGED <<tables, purse, outside, promoUsed>>

\* The next attempt is queued while there is one, so an attempt never reaches
\* the length of the schedule and the branch that fails the order is dead.
QueueNextAttempt(w) ==
    LET j == worker[w].job
    IN  /\ At(w, "next")
        /\ jobs' = IF j.k + 1 < DunningLength
                   THEN jobs \cup {[j EXCEPT !.k = @ + 1]}
                   ELSE jobs
        /\ Return(w)
        /\ UNCHANGED <<tables, purse, outside, promoUsed>>

DunningEmail(w, j) ==
    LET o == payment[j.p].o
    IN  /\ j.kind = "email"
        /\ TakeJob(w, j)
        /\ RunJob(w, j, o,
              IF order[o].status = "COMPLETED"
                    \/ invoice[o] \in {"PAID", "OVERDUE", "CANCELLED"}
              THEN "idle" ELSE "overdue")
        /\ UNCHANGED <<tables, purse, outside, promoUsed>>

\* runDunningSweep reads overdue invoices of completed orders past their due
\* date and then marks them overdue, here one invoice at a time.
DunningSweep(w, o) ==
    /\ At(w, "idle")
    /\ invoice[o] = "OVERDUE"
    /\ order[o].status = "COMPLETED"
    /\ ~isFree[Owner[o]]
    /\ Become(w, [Idle EXCEPT !.pc = "overdue", !.o = o])
    /\ UNCHANGED <<tables, purse, outside, promoUsed, jobs>>

MarkOverdue(w) ==
    /\ At(w, "overdue")
    /\ invoice' = [invoice EXCEPT ![worker[w].o] = "OVERDUE"]
    /\ Return(w)
    /\ UNCHANGED <<order, payment, purse, outside, promoUsed, jobs>>

--------------------------------------------------------------------------------
\* An administrator grants or withdraws a customer's exemption (setUserFree).
SetUserFree(u) ==
    /\ isFree' = [isFree EXCEPT ![u] = ~@]
    /\ UNCHANGED <<tables, purse, captured, fails, promoUsed, jobs, worker>>

\* A handler breaks off at its next step: a failed query or a dead process.
\* What it committed stays; Bull gives the job it was running to a worker again.
Fail(w) ==
    /\ ~At(w, "idle")
    /\ fails < MaxFails
    /\ fails' = fails + 1
    /\ jobs' = IF worker[w].job = None THEN jobs ELSE jobs \cup {worker[w].job}
    /\ Return(w)
    /\ UNCHANGED <<tables, purse, captured, isFree, promoUsed>>

--------------------------------------------------------------------------------

Request(w) ==
    \/ /\ RoomForPayment
       /\ \/ \E o \in Orders, a \in Amounts, code \in Codes \cup {None} :
                CreateOrder(w, o, a, code)
          \/ \E o \in Orders, a \in Amounts, g \in GatewayChoices : TopupWallet(w, o, a, g)
          \/ \E o \in Orders, g \in GatewayChoices : InitiatePayment(w, o, g)
          \/ \E o, n \in Orders : RenewOrder(w, o, n)
          \/ \E o, n \in Orders, a \in Amounts, d \in DaysUsed : UpgradePlan(w, o, n, a, d)
    \/ \E p \in Payments, accepted \in BOOLEAN : ReceiveWebhook(w, p, accepted)
    \/ \E o \in Orders : CancelOrder(w, o) \/ DunningSweep(w, o)

StartJob(w, j) == ExpiryCheck(w, j) \/ PaymentRetry(w, j) \/ DunningEmail(w, j)

\* The steps of a handler that has been started.
Proceed(w) ==
    \/ ValidatePromoCode(w) \/ InsertInvoice(w) \/ CommitOrder(w)
    \/ TopupExempt(w) \/ InitiateTopup(w) \/ CheckExempt(w)
    \/ FindPending(w) \/ ExpirePrevious(w) \/ OpenPayment(w)
    \/ GatewayRefuses(w) \/ ScheduleExpiryCheck(w)
    \/ ReadBalance(w) \/ PayFromWallet(w) \/ SettleFreeOrder(w)
    \/ CreditWallet(w) \/ RecordCredit(w)
    \/ \E amountMatches \in BOOLEAN : FindPayment(w, amountMatches)
    \/ CompletePayment(w) \/ RejectAmount(w) \/ DeclinePayment(w) \/ StartDunning(w)
    \/ CommitCancel(w) \/ GenerateInvoice(w) \/ SettleIfExempt(w)
    \/ ExpirePayment(w) \/ QueueReminder(w) \/ QueueNextAttempt(w) \/ MarkOverdue(w)

Next ==
    \/ \E w \in Workers : Request(w) \/ Proceed(w) \/ Fail(w)
    \/ \E w \in Workers, j \in jobs : StartJob(w, j)
    \/ \E p \in Payments : Capture(p)
    \/ \E u \in Users : SetUserFree(u)

Spec == Init /\ [][Next]_vars

\* A handler in progress goes on (its queries time out at the latest), and Bull
\* starts every delayed job some time after its delay.
Fairness ==
    /\ \A w \in Workers : WF_vars(Proceed(w))
    /\ \A p \in Payments :
          SF_vars(\E w \in Workers :
                     ExpiryCheck(w, [kind |-> "expiry", p |-> p, k |-> 0]))

FairSpec == Spec /\ Fairness

================================================================================
