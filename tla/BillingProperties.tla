--------------------------- MODULE BillingProperties ---------------------------
(****************************************************************************)
(* What the billing module keeps true: some of it whatever handlers overlap *)
(* and wherever they break off, the rest only while handlers take turns.    *)
(****************************************************************************)
EXTENDS Billing

TypeOK ==
    /\ order \in [Orders -> OrderRow]
    /\ invoice \in [Orders -> InvoiceStatus]
    /\ payment \in [Payments -> PaymentRow]
    /\ captured \subseteq Payments
    /\ wallet \in [Users -> Int]
    /\ credited \in [Users -> Nat]
    /\ isFree \in [Users -> BOOLEAN]
    /\ promoUsed \in Int
    /\ jobs \subseteq Job
    /\ worker \in [Workers -> WorkerRow]
    /\ fails \in Nat

--------------------------------------------------------------------------------
\* Whatever overlaps.

\* A completed payment, a completed order and a paid invoice all lead to the
\* payment that settled the order: it is a row of that order, it was a
\* settlement, and an order once settled is never offered for payment again.
\* (settleFreeOrder, processWalletPayment, processPaymentWebhook,
\* completeWalletTopup and createOrder write the three tables in one
\* transaction; cancelOrder and the queue jobs write them by id.)
CompletedHasPayment == \A o \in Orders : order[o].status = "COMPLETED" => order[o].pay # None
PaidInvoiceHasPayment == \A o \in Orders : invoice[o] = "PAID" => order[o].pay # None
PaymentSettlesItsOrder ==
    \A p \in Payments : payment[p].status = "COMPLETED" => order[payment[p].o].pay # None
SettledStaysSettled ==
    \A o \in Orders : order[o].pay # None =>
        /\ order[o].status \in {"COMPLETED", "CANCELLED"}
        /\ payment[order[o].pay].o = o
        /\ payment[order[o].pay].status \in {"COMPLETED", "EXPIRED", "FAILED"}

PaidMeansSettled ==
    /\ CompletedHasPayment
    /\ PaidInvoiceHasPayment
    /\ PaymentSettlesItsOrder
    /\ SettledStaysSettled

\* A wallet or admin-credit payment is written once and never revised: the
\* expiry job, the webhook, cancelOrder and a new initiatePayment only ever get
\* hold of gateway payments, however stale what they read is.
InternalPaymentsAreFinal ==
    [][\A p \in Payments : payment[p].gateway \in Internal => payment'[p] = payment[p]]_vars

\* No Khalti payment is completed that Khalti has not captured, whatever has become
\* of the row between the lookup and the update (processPaymentWebhook acts on its
\* own lookup, not on the callback).  Nothing of the kind is true of eSewa, whose
\* callback processPaymentWebhook takes at its word.
KhaltiPaymentWasCaptured ==
    \A p \in Payments :
        payment[p].status = "COMPLETED" /\ payment[p].gateway = "KHALTI"
            => p \in captured

--------------------------------------------------------------------------------
\* Why PaidMeansSettled is preserved: what a handler still holds when it comes
\* to write.  Only a payment that went through a gateway is ever held by id, the
\* row an order is about to be inserted into belongs to one handler, and a
\* handler about to complete a Khalti payment has been told of its capture.

Creating == {"promo", "invoice", "commit"}
Verified == {"accepted", "refused", "paid"}
Holding == {"accepted", "refused", "paid", "expire", "schedule", "declined", "mismatch",
            "dunning", "lapse"}

GatewayPayment(p) == p \in Payments /\ payment[p].gateway \in Online

TablesInv ==
    /\ \A o \in Orders : order[o].status = "NONE" => order[o].pay = None
    /\ \A p \in Payments :
          IF payment[p].status = "NONE"
          THEN payment[p].gateway = "NONE"
          ELSE payment[p].o \in Orders /\ order[payment[p].o].status # "NONE"
    /\ \A p \in Payments : payment[p].status = "PENDING" => GatewayPayment(p)
    /\ \A p \in captured : GatewayPayment(p)
    /\ \A j \in jobs : GatewayPayment(j.p)

CreatorInv(w) ==
    worker[w].pc \in Creating =>
        /\ worker[w].o \in Orders
        /\ order[worker[w].o].status = "NONE"
        /\ worker[w].row.status \in {"PENDING", "COMPLETED"}
        /\ worker[w].row.pay = None
        /\ \A x \in Workers \ {w} : worker[x].o # worker[w].o

HandlerInv(w) ==
    /\ worker[w].pc \notin Creating \cup {"idle"} =>
          worker[w].o \in Orders /\ order[worker[w].o].status # "NONE"
    /\ worker[w].pc \in Holding => GatewayPayment(worker[w].p)
    /\ worker[w].pc \in Verified => payment[worker[w].p].o = worker[w].o
    /\ worker[w].pc \in {"accepted", "paid"} => MayAccept(worker[w].p)
    /\ worker[w].pc \in {"remind", "next"} => worker[w].job # None
    /\ worker[w].job # None => GatewayPayment(worker[w].job.p)

IInv ==
    /\ PaidMeansSettled
    /\ KhaltiPaymentWasCaptured
    /\ TablesInv
    /\ \A w \in Workers : CreatorInv(w) /\ HandlerInv(w)

--------------------------------------------------------------------------------
\* What the wallets owe to the rows, whatever overlaps.

\* Adding up is counting: the sum of amount[x] over a set is the number of pairs
\* of a member and one of its units.
Units(amount, S) == UNION {{x} \X (1 .. amount[x]) : x \in S}
Total(amount, S) == Cardinality(Units(amount, S))

PaymentAmount == [p \in Payments |-> payment[p].amt]

WalletPaymentsOf(u) ==
    {p \in Payments : /\ payment[p].gateway = "WALLET"
                      /\ payment[p].status = "COMPLETED"
                      /\ Owner[payment[p].o] = u}

SpentBy(u) == Total(PaymentAmount, WalletPaymentsOf(u))

\* The wallet balance is its opening balance and every credit, less exactly the
\* wallet payments on record: no deduction without its payment row and no lost
\* update of the balance, even when two payments overlap or one breaks off.
WalletConservation ==
    \A u \in Resellers : wallet[u] = Opening + credited[u] - SpentBy(u)

\* No handler has broken off.
NoneBreaksOff == fails = 0

CreditPaymentsOf(u) ==
    {p \in Payments : payment[p].gateway = "ADMIN_CREDIT" /\ Owner[payment[p].o] = u}

CreditAmount == [w \in Workers |-> worker[w].row.amt]

CreditorsOf(u) == {w \in Workers : At(w, "credited") /\ Owner[worker[w].o] = u}

\* As long as no handler breaks off, every credit to a wallet has its ADMIN_CREDIT
\* payment of the same amount (completeWalletTopup: the auditable trail), or is
\* about to get it.
CreditsOnRecord ==
    \A u \in Resellers :
        credited[u] = Total(PaymentAmount, CreditPaymentsOf(u))
                          + Total(CreditAmount, CreditorsOf(u))

--------------------------------------------------------------------------------
\* While handlers take turns, even if they break off halfway.

\* At most one handler is in progress.
TakingTurns == \A v, w \in Workers : At(v, "idle") \/ At(w, "idle") \/ v = w

ChargesOf(o) ==
    {p \in Payments : /\ payment[p].o = o
                      /\ payment[p].status = "COMPLETED"
                      /\ payment[p].gateway # "ADMIN_CREDIT"}

ExemptionsOf(o) ==
    {p \in Payments : payment[p].o = o /\ payment[p].gateway = "ADMIN_CREDIT"}

\* A customer pays an order at most once, and it is waived at most once:
\* initiatePayment answers a repeated request for a paid order without paying again.
ChargedOnce ==
    \A o \in Orders : /\ Cardinality(ChargesOf(o)) <= 1
                      /\ Cardinality(ExemptionsOf(o)) <= 1

OpenPaymentsOf(o) == {p \in Payments : payment[p].o = o /\ payment[p].status = "PENDING"}

\* A customer has at most one open payment on an order: initiatePayment expires
\* the previous one first.
OneOpenPayment == \A o \in Orders : Cardinality(OpenPaymentsOf(o)) <= 1

\* The wallet is prepaid: processWalletPayment never overdraws it.
NoOverdraft == \A u \in Users : wallet[u] >= 0

\* A cancelled order gives the use of its promo code back only if the customer
\* typed the code in the letters it is stored in.
PromoOrders ==
    {o \in Orders : /\ order[o].promo # None
                    /\ \/ order[o].status \in {"PENDING", "COMPLETED"}
                       \/ order[o].status = "CANCELLED" /\ order[o].promo # StoredCode}

\* A promo code is used up exactly by the orders that carry it, less those cancelled
\* ones that have given their use back, and never more often than it allows
\* (createOrder counts the use under the upper-case code, cancelOrder takes it back
\* from the code as the order has it).
PromoUsesCounted ==
    /\ MaxUses # 0 => promoUsed <= MaxUses
    /\ promoUsed = Cardinality(PromoOrders)

\* A settled order is not dunned, cancelled or left with an open invoice.
SettledIsConsistent ==
    \A o \in Orders : order[o].status = "COMPLETED" =>
        /\ invoice[o] \in {"NONE", "PAID"}
        /\ payment[order[o].pay].status = "COMPLETED"

\* Once completed, an order stays completed: cancelOrder takes pending ones only.
CompletedIsFinal ==
    [][\A o \in Orders : order[o].status = "COMPLETED" => order'[o].status = "COMPLETED"]_vars

--------------------------------------------------------------------------------
\* Why taking turns is enough: nobody has touched what a handler has read by the
\* time it writes.  An order stays open, and without a charge, from the moment its
\* payment is asked for, a payment found pending is pending still when it is
\* settled or expired, and the balance and the use count are the ones checked.

Unpaid == {"topup", "initiate", "exempt", "find", "expire", "charge", "deduct",
           "settle", "credit", "credited", "cancel", "bill", "billed"}
Closing == {"expire", "paid", "declined", "mismatch", "lapse"}

AtMostOne(S) == \A x, y \in S : x = y

OncePerOrder(o) ==
    /\ AtMostOne(ChargesOf(o))
    /\ AtMostOne(ExemptionsOf(o))
    /\ AtMostOne(PendingOf(o))
    /\ ChargesOf(o) = {} \/ PendingOf(o) = {}

RowsInv ==
    /\ \A o \in Orders : invoice[o] = "CANCELLED" => order[o].status = "CANCELLED"
    /\ \A p \in Payments :
          /\ payment[p].status = "PENDING" => order[payment[p].o].status # "CANCELLED"
          /\ payment[p].gateway \in Internal => payment[p].status = "COMPLETED"

TurnInv(w) ==
    /\ worker[w].pc \in Unpaid => order[worker[w].o].status = "PENDING"
    /\ worker[w].pc \in Closing => payment[worker[w].p].status = "PENDING"
    /\ worker[w].pc = "expire" => payment[worker[w].p].o = worker[w].o
    /\ worker[w].pc \in {"charge", "deduct"} => PendingOf(worker[w].o) = {}
    /\ worker[w].pc = "deduct" => worker[w].row.total <= wallet[Owner[worker[w].o]]
    /\ worker[w].pc = "cancel" => worker[w].row.promo = order[worker[w].o].promo
    /\ worker[w].pc \in {"invoice", "commit"} /\ worker[w].row.promo # None
          => PromoHasUsesLeft
    /\ worker[w].pc = "overdue" => order[worker[w].o].status # "COMPLETED"

TurnsInv ==
    /\ SettledIsConsistent
    /\ NoOverdraft
    /\ PromoUsesCounted
    /\ IsFiniteSet(PromoOrders)
    /\ RowsInv
    /\ \A o \in Orders : OncePerOrder(o)
    /\ \A w \in Workers : TurnInv(w)

--------------------------------------------------------------------------------
\* Under fairness.

\* A payment left pending at a gateway is settled one way or the other
\* (initiatePayment queues the expiry check after it has written the row).
PendingIsResolved ==
    \A p \in Payments :
        payment[p].status = "PENDING" ~> payment[p].status # "PENDING"

\* A checkout that has got as far as its transaction creates its order
\* (createOrder answers 201 with the order and its invoice).
CheckoutCreatesOrder ==
    \A w \in Workers, o \in Orders :
        worker[w].pc = "invoice" /\ worker[w].o = o ~> order[o].status # "NONE"

================================================================================
