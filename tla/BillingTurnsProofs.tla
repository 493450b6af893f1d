-------------------------- MODULE BillingTurnsProofs --------------------------
(****************************************************************************)
(* Billing proved while handlers take turns: an order is paid once, has at  *)
(* most one open payment, stays completed and is not dunned; the wallet is  *)
(* not overdrawn; and a promo code is used as often as the orders say.  For *)
(* any number of customers, rows and workers, wherever handlers break off.  *)
(****************************************************************************)
EXTENDS BillingProofs, FiniteSetTheorems

--------------------------------------------------------------------------------
\* Counting.

LEMMA AtMostOneCounts ==
    ASSUME NEW S, AtMostOne(S)
    PROVE  Cardinality(S) <= 1
<1>1. CASE S = {}
  BY <1>1, FS_EmptySet
<1>2. CASE S # {}
  <2>1. PICK x : S = {x}
    BY <1>2 DEF AtMostOne
  <2>2. Cardinality({x}) = 1
    BY FS_Singleton
  <2>3. QED
    BY <2>1, <2>2
<1>3. QED
  BY <1>1, <1>2

LEMMA AtMostOneOf == AtMostOne({}) /\ \A x : AtMostOne({x})
  BY DEF AtMostOne

--------------------------------------------------------------------------------
\* The invariant in two halves: what the tables say between two steps, and what
\* the one handler in progress may rely on.

TurnTables ==
    /\ SettledIsConsistent
    /\ NoOverdraft
    /\ PromoUsesCounted
    /\ IsFiniteSet(PromoOrders)
    /\ RowsInv
    /\ \A o \in Orders : OncePerOrder(o)

TurnHandlers == \A w \in Workers : TurnInv(w)

LEMMA TurnHalves == TurnsInv <=> TurnTables /\ TurnHandlers
  BY DEF TurnsInv, TurnTables, TurnHandlers

LEMMA IdleTurn ==
    ASSUME NEW w \in Workers, At(w, "idle")
    PROVE  TurnInv(w)
  BY DEF TurnInv, Unpaid, Closing, At

\* A handler that goes on is the only one, so its own part is all there is to show.
LEMMA GoesOn ==
    ASSUME TypeOK, TakingTurns', NEW w \in Workers, NEW next, Become(w, next),
           next.pc # "idle",
           next.pc \in Unpaid => order'[next.o].status = "PENDING",
           next.pc \in Closing => payment'[next.p].status = "PENDING",
           next.pc = "expire" => payment'[next.p].o = next.o,
           next.pc \in {"charge", "deduct"} => PendingOf(next.o)' = {},
           next.pc = "deduct" => next.row.total <= wallet'[Owner[next.o]],
           next.pc = "cancel" => next.row.promo = order'[next.o].promo,
           next.pc \in {"invoice", "commit"} /\ next.row.promo # None => PromoHasUsesLeft',
           next.pc = "overdue" => order'[next.o].status # "COMPLETED"
    PROVE  TurnHandlers'
<1>1. worker'[w] = next
  BY DEF Become, TypeOK
<1>2. \A x \in Workers \ {w} : At(x, "idle")'
  BY <1>1 DEF TakingTurns, At
<1>3. \A x \in Workers \ {w} : TurnInv(x)'
  BY <1>2 DEF TurnInv, Unpaid, Closing, At
<1>4. TurnInv(w)'
  BY <1>1 DEF TurnInv, PendingOf
<1>5. QED
  BY <1>3, <1>4 DEF TurnHandlers

\* Once it has returned, none is in progress.
LEMMA ComesBack ==
    ASSUME TypeOK, TakingTurns, NEW w \in Workers, ~At(w, "idle"), Return(w)
    PROVE  TurnHandlers'
<1>1. worker'[w] = Idle /\ Idle.pc = "idle"
  BY DEF Return, Become, TypeOK, Idle
<1>2. \A x \in Workers : worker'[x].pc = "idle"
  BY <1>1 DEF TakingTurns, At, Return, Become, TypeOK
<1>3. QED
  BY <1>2 DEF TurnHandlers, TurnInv, Unpaid, Closing

\* A handler that is left alone, and so are the rows it relies on.
LEMMA LeftAlone ==
    ASSUME NEW w \in Workers, TurnInv(w), worker'[w] = worker[w],
           UNCHANGED <<order, payment, wallet, promoUsed>>
    PROVE  TurnInv(w)'
  BY DEF TurnInv, PendingOf, PromoHasUsesLeft

--------------------------------------------------------------------------------
\* What the tables' half survives.

\* An order that is not settled yet has no payment that has gone through.
LEMMA UnsettledHasNone ==
    ASSUME IInv, TurnTables, NEW o \in Orders, order[o].status \in {"NONE", "PENDING"}
    PROVE  /\ ChargesOf(o) = {}
           /\ ExemptionsOf(o) = {}
           /\ order[o].status = "NONE" => PendingOf(o) = {}
<1>1. order[o].pay = None
  BY DEF IInv, PaidMeansSettled, SettledStaysSettled
<1>2. \A p \in Payments : payment[p].o = o => payment[p].status # "COMPLETED"
  BY <1>1 DEF IInv, PaidMeansSettled, PaymentSettlesItsOrder
<1>3. ExemptionsOf(o) = {}
  BY <1>2 DEF ExemptionsOf, TurnTables, RowsInv, Internal
<1>4. order[o].status = "NONE" => PendingOf(o) = {}
  BY DEF PendingOf, IInv, TablesInv
<1>5. QED
  BY <1>2, <1>3, <1>4 DEF ChargesOf

LEMMA TablesSame ==
    ASSUME TurnTables, UNCHANGED <<order, invoice, payment, wallet, promoUsed>>
    PROVE  TurnTables'
<1>1. SettledIsConsistent' /\ NoOverdraft' /\ RowsInv'
  BY DEF TurnTables, SettledIsConsistent, NoOverdraft, RowsInv
<1>2. PromoOrders' = PromoOrders
  BY DEF PromoOrders
<1>3. \A o \in Orders : OncePerOrder(o)'
  BY DEF TurnTables, OncePerOrder, ChargesOf, ExemptionsOf, PendingOf
<1>4. QED
  BY <1>1, <1>2, <1>3 DEF TurnTables, PromoUsesCounted

LEMMA OnceKept ==
    ASSUME NEW o \in Orders, OncePerOrder(o),
           ChargesOf(o)' \subseteq ChargesOf(o), ExemptionsOf(o)' \subseteq ExemptionsOf(o),
           PendingOf(o)' \subseteq PendingOf(o)
    PROVE  OncePerOrder(o)'
  BY DEF OncePerOrder, AtMostOne

LEMMA PromoKept ==
    ASSUME TurnTables, promoUsed' = promoUsed,
           \A o \in Orders : o \in PromoOrders' <=> o \in PromoOrders
    PROVE  PromoUsesCounted' /\ IsFiniteSet(PromoOrders')
<1>1. PromoOrders' = PromoOrders
  BY DEF PromoOrders
<1>2. QED
  BY <1>1 DEF TurnTables, PromoUsesCounted

\* The invoice of an order that is not settled is written.
LEMMA InvoiceWritten ==
    ASSUME TypeOK, TurnTables, NEW o \in Orders, NEW status \in {"DRAFT", "OVERDUE"},
           order[o].status # "COMPLETED", invoice' = [invoice EXCEPT ![o] = status],
           UNCHANGED <<order, payment, wallet, promoUsed>>
    PROVE  TurnTables'
<1>1. SettledIsConsistent' /\ NoOverdraft' /\ RowsInv'
  BY DEF TurnTables, SettledIsConsistent, NoOverdraft, RowsInv, TypeOK
<1>2. PromoUsesCounted' /\ IsFiniteSet(PromoOrders')
  BY PromoKept DEF PromoOrders
<1>3. \A x \in Orders : OncePerOrder(x)'
  BY DEF TurnTables, OncePerOrder, ChargesOf, ExemptionsOf, PendingOf
<1>4. QED
  BY <1>1, <1>2, <1>3 DEF TurnTables

\* A pending row is inserted that uses no promo code.
LEMMA OrderInserted ==
    ASSUME TypeOK, IInv, TurnTables, NEW o \in Orders, NEW row, FreshOrder(o),
           row.status = "PENDING", row.promo = None, order' = [order EXCEPT ![o] = row],
           UNCHANGED <<invoice, payment, wallet, promoUsed>>
    PROVE  TurnTables'
<1>1. /\ order'[o] = row
      /\ \A x \in Orders \ {o} : order'[x] = order[x]
      /\ order[o].status = "NONE" /\ invoice[o] = "NONE"
  BY DEF TypeOK, FreshOrder
<1>2. SettledIsConsistent' /\ NoOverdraft'
  BY <1>1 DEF TurnTables, SettledIsConsistent, NoOverdraft
<1>3. RowsInv'
  <2>1. \A p \in Payments : payment[p].status = "PENDING" => payment[p].o \in Orders
    BY DEF IInv, TablesInv
  <2>2. QED
    BY <1>1, <2>1 DEF TurnTables, RowsInv
<1>4. PromoUsesCounted' /\ IsFiniteSet(PromoOrders')
  BY <1>1, PromoKept DEF PromoOrders
<1>5. \A x \in Orders : OncePerOrder(x)'
  BY DEF TurnTables, OncePerOrder, ChargesOf, ExemptionsOf, PendingOf
<1>6. QED
  BY <1>2, <1>3, <1>4, <1>5 DEF TurnTables

\* A pending payment is expired or fails.
LEMMA PaymentClosed ==
    ASSUME TypeOK, IInv, TurnTables, NEW p \in Payments, payment[p].status = "PENDING",
           NEW status \in {"EXPIRED", "FAILED"},
           payment' = [payment EXCEPT ![p].status = status],
           UNCHANGED <<order, invoice, wallet, promoUsed>>
    PROVE  TurnTables'
<1>1. /\ payment'[p].status = status
      /\ payment'[p].o = payment[p].o
      /\ payment'[p].gateway = payment[p].gateway
      /\ \A x \in Payments \ {p} : payment'[x] = payment[x]
  BY DEF TypeOK, PaymentRow
<1>2. SettledIsConsistent'
  <2>1. \A o \in Orders : order[o].status = "COMPLETED" => order[o].pay \in Payments \ {p}
    BY DEF TurnTables, SettledIsConsistent, TypeOK, OrderRow, IInv, PaidMeansSettled,
       CompletedHasPayment
  <2>2. QED
    BY <1>1, <2>1 DEF TurnTables, SettledIsConsistent
<1>3. RowsInv'
  <2>1. payment[p].gateway \notin Internal
    BY DEF IInv, TablesInv, GatewayPayment, Online, Internal
  <2>2. QED
    BY <1>1, <2>1 DEF TurnTables, RowsInv
<1>4. PromoUsesCounted' /\ IsFiniteSet(PromoOrders')
  BY PromoKept DEF PromoOrders
<1>5. \A o \in Orders : OncePerOrder(o)'
  <2> SUFFICES ASSUME NEW o \in Orders PROVE OncePerOrder(o)'
    OBVIOUS
  <2>1. ChargesOf(o)' \subseteq ChargesOf(o)
    BY <1>1 DEF ChargesOf
  <2>2. ExemptionsOf(o)' \subseteq ExemptionsOf(o) /\ PendingOf(o)' \subseteq PendingOf(o)
    BY <1>1 DEF ExemptionsOf, PendingOf
  <2>3. QED
    BY <2>1, <2>2, OnceKept DEF TurnTables
<1>6. NoOverdraft'
  BY DEF TurnTables, NoOverdraft
<1>7. QED
  BY <1>2, <1>3, <1>4, <1>5, <1>6 DEF TurnTables

\* A payment is opened on an order that is pending and has none open.
LEMMA PaymentOpened ==
    ASSUME TypeOK, IInv, TurnTables, NEW o \in Orders, order[o].status = "PENDING",
           PendingOf(o) = {}, NEW p \in Payments, FreshPayment(p), NEW row,
           row.status = "PENDING", row.o = o, row.gateway \in Online,
           payment' = [payment EXCEPT ![p] = row],
           UNCHANGED <<order, invoice, wallet, promoUsed>>
    PROVE  TurnTables'
<1>1. /\ payment'[p] = row
      /\ payment[p].status = "NONE"
      /\ \A x \in Payments \ {p} : payment'[x] = payment[x]
  BY DEF TypeOK, FreshPayment
<1>2. SettledIsConsistent'
  <2>1. \A x \in Orders : order[x].status = "COMPLETED" => order[x].pay \in Payments \ {p}
    BY <1>1 DEF TurnTables, SettledIsConsistent, TypeOK, OrderRow, IInv, PaidMeansSettled,
       CompletedHasPayment
  <2>2. QED
    BY <1>1, <2>1 DEF TurnTables, SettledIsConsistent
<1>3. RowsInv'
  BY <1>1 DEF TurnTables, RowsInv, Online, Internal
<1>4. PromoUsesCounted' /\ IsFiniteSet(PromoOrders')
  BY PromoKept DEF PromoOrders
<1>5. OncePerOrder(o)'
  <2>1. ChargesOf(o)' = {} /\ ExemptionsOf(o)' = {}
    BY <1>1, UnsettledHasNone DEF ChargesOf, ExemptionsOf, Online
  <2>2. PendingOf(o)' = {p}
    BY <1>1 DEF PendingOf
  <2>3. QED
    BY <2>1, <2>2 DEF OncePerOrder, AtMostOne
<1>6. ASSUME NEW x \in Orders, x # o PROVE OncePerOrder(x)'
  <2>1. ChargesOf(x)' \subseteq ChargesOf(x)
    BY <1>1, <1>6 DEF ChargesOf
  <2>2. ExemptionsOf(x)' \subseteq ExemptionsOf(x) /\ PendingOf(x)' \subseteq PendingOf(x)
    BY <1>1, <1>6 DEF ExemptionsOf, PendingOf
  <2>3. QED
    BY <2>1, <2>2, OnceKept DEF TurnTables
<1>7. NoOverdraft'
  BY DEF TurnTables, NoOverdraft
<1>8. QED
  BY <1>2, <1>3, <1>4, <1>5, <1>6, <1>7 DEF TurnTables

\* How a payment can come to settle an order: the first of an order that is
\* neither settled nor, for the wallet, being paid for otherwise; or an open one.
FirstPayment(o, p, row) ==
    /\ FreshPayment(p)
    /\ order[o].status \in {"NONE", "PENDING"}
    /\ row.gateway = "WALLET" => PendingOf(o) = {}
    /\ row.gateway \in Internal

OpenPaymentPaid(o, p, row) ==
    /\ payment[p].status = "PENDING"
    /\ payment[p].o = o
    /\ row.gateway = payment[p].gateway

\* The payments of the order after either.
LEMMA SettledOnce ==
    ASSUME TypeOK, IInv, TurnTables, NEW o \in Orders, NEW p \in Payments, NEW row,
           row.o = o, row.status = "COMPLETED", payment' = [payment EXCEPT ![p] = row],
           FirstPayment(o, p, row) \/ OpenPaymentPaid(o, p, row)
    PROVE  \A x \in Orders : OncePerOrder(x)'
<1>1. /\ payment'[p] = row
      /\ \A x \in Payments \ {p} : payment'[x] = payment[x]
  BY DEF TypeOK
<1>2. ASSUME NEW x \in Orders, x # o PROVE OncePerOrder(x)'
  <2>1. ChargesOf(x)' \subseteq ChargesOf(x)
    BY <1>1, <1>2 DEF ChargesOf
  <2>2. ExemptionsOf(x)' \subseteq ExemptionsOf(x) /\ PendingOf(x)' \subseteq PendingOf(x)
    BY <1>1, <1>2 DEF ExemptionsOf, PendingOf
  <2>3. QED
    BY <2>1, <2>2, OnceKept DEF TurnTables
<1>3. CASE FirstPayment(o, p, row)
  <2>1. ChargesOf(o) = {} /\ ExemptionsOf(o) = {}
    BY <1>3, UnsettledHasNone DEF FirstPayment
  <2>2. PendingOf(o)' = PendingOf(o)
    BY <1>1, <1>3 DEF PendingOf, FirstPayment, FreshPayment
  <2>3. OncePerOrder(o)
    BY DEF TurnTables
  <2>4. ASSUME row.gateway = "WALLET" PROVE OncePerOrder(o)'
    <3>1. ChargesOf(o)' = {p} /\ ExemptionsOf(o)' = {} /\ PendingOf(o)' = {}
      BY <1>1, <1>3, <2>1, <2>2, <2>4 DEF ChargesOf, ExemptionsOf, FirstPayment
    <3>2. QED
      BY <3>1, AtMostOneOf DEF OncePerOrder
  <2>5. ASSUME row.gateway = "ADMIN_CREDIT" PROVE OncePerOrder(o)'
    <3>1. ChargesOf(o)' = {} /\ ExemptionsOf(o)' = {p}
      BY <1>1, <2>1, <2>5 DEF ChargesOf, ExemptionsOf
    <3>2. QED
      BY <2>2, <2>3, <3>1, AtMostOneOf DEF OncePerOrder
  <2>6. OncePerOrder(o)'
    BY <1>3, <2>4, <2>5 DEF FirstPayment, Internal
  <2>7. QED
    BY <1>2, <2>6
<1>4. CASE OpenPaymentPaid(o, p, row)
  <2>1. p \in PendingOf(o) /\ OncePerOrder(o) /\ payment[p].gateway \in Online
    BY <1>4 DEF PendingOf, OpenPaymentPaid, TurnTables, IInv, TablesInv, GatewayPayment
  <2>2. ChargesOf(o) = {} /\ PendingOf(o) = {p}
    BY <2>1 DEF OncePerOrder, AtMostOne
  <2>3. ChargesOf(o)' = {p}
    BY <1>1, <1>4, <2>1, <2>2 DEF ChargesOf, OpenPaymentPaid, Online
  <2>4. PendingOf(o)' = {}
    BY <1>1, <2>2 DEF PendingOf
  <2>5. ExemptionsOf(o)' = ExemptionsOf(o)
    BY <1>1, <1>4 DEF ExemptionsOf, OpenPaymentPaid
  <2>6. OncePerOrder(o)'
    BY <2>1, <2>3, <2>4, <2>5 DEF OncePerOrder, AtMostOne
  <2>7. QED
    BY <1>2, <2>6
<1>5. QED
  BY <1>3, <1>4

\* An order is settled: the amounts it is settled with leave its promo code and
\* the wallets above zero.
LEMMA OrderSettled ==
    ASSUME TypeOK, IInv, TurnTables, NEW o \in Orders, NEW p \in Payments, NEW row,
           order[o].status \notin {"NONE", "CANCELLED"}, order'[o].status = "COMPLETED",
           order'[o].pay = p, order'[o].promo = order[o].promo,
           \A x \in Orders \ {o} : order'[x] = order[x],
           row.o = o, row.status = "COMPLETED", payment' = [payment EXCEPT ![p] = row],
           FirstPayment(o, p, row) \/ OpenPaymentPaid(o, p, row),
           PayInvoices(o), NoOverdraft', promoUsed' = promoUsed
    PROVE  TurnTables'
<1>1. /\ payment'[p] = row
      /\ payment[p].status # "COMPLETED"
      /\ \A x \in Payments \ {p} : payment'[x] = payment[x]
  BY DEF TypeOK, FirstPayment, OpenPaymentPaid, FreshPayment
<1>2. /\ \A x \in Orders \ {o} : invoice'[x] = invoice[x]
      /\ invoice'[o] \in {"NONE", "CANCELLED", "PAID"}
      /\ invoice'[o] = "CANCELLED" => invoice[o] = "CANCELLED"
  BY DEF PayInvoices, TypeOK
<1>3. invoice[o] # "CANCELLED"
  BY DEF TurnTables, RowsInv
<1>4. SettledIsConsistent'
  <2>1. ASSUME NEW x \in Orders \ {o}, order'[x].status = "COMPLETED"
        PROVE  /\ invoice'[x] \in {"NONE", "PAID"}
               /\ payment'[order'[x].pay].status = "COMPLETED"
    <3>1. order[x].pay \in Payments \ {p}
      BY <1>1, <2>1 DEF TurnTables, SettledIsConsistent, TypeOK, OrderRow, IInv,
         PaidMeansSettled, CompletedHasPayment
    <3>2. QED
      BY <1>1, <1>2, <2>1, <3>1 DEF TurnTables, SettledIsConsistent
  <2>2. QED
    BY <1>1, <1>2, <1>3, <2>1 DEF SettledIsConsistent
<1>5. RowsInv'
  <2>1. \A x \in Orders : invoice'[x] = "CANCELLED" => order'[x].status = "CANCELLED"
    BY <1>2, <1>3 DEF TurnTables, RowsInv
  <2>2. ASSUME NEW x \in Payments
        PROVE  /\ payment'[x].status = "PENDING" => order'[payment'[x].o].status # "CANCELLED"
               /\ payment'[x].gateway \in Internal => payment'[x].status = "COMPLETED"
    <3>1. payment[x].status = "PENDING" => payment[x].o \in Orders
      BY DEF IInv, TablesInv
    <3>2. QED
      BY <1>1, <3>1 DEF TurnTables, RowsInv
  <2>3. QED
    BY <2>1, <2>2 DEF RowsInv
<1>6. PromoUsesCounted' /\ IsFiniteSet(PromoOrders')
  <2>1. order[o].status \in {"PENDING", "COMPLETED"}
    BY DEF TypeOK, OrderRow, OrderStatus
  <2>2. \A x \in Orders : x \in PromoOrders' <=> x \in PromoOrders
    BY <2>1 DEF PromoOrders
  <2>3. QED
    BY <2>2, PromoKept
<1>7. \A x \in Orders : OncePerOrder(x)'
  BY SettledOnce
<1>8. QED
  BY <1>4, <1>5, <1>6, <1>7 DEF TurnTables

\* An order is inserted by createOrder, with the use of the code it was promised.
LEMMA OrderCommitted ==
    ASSUME TypeOK, IInv, TurnTables, NEW w \in Workers, TurnInv(w), CreatorInv(w),
           CommitOrder(w)
    PROVE  TurnTables'
<1> DEFINE o == worker[w].o
           row == worker[w].row
<1>1. /\ o \in Orders
      /\ order[o].status = "NONE"
      /\ row.status \in {"PENDING", "COMPLETED"}
      /\ row.promo # None => PromoHasUsesLeft
      /\ wallet' = wallet
  BY DEF CommitOrder, At, CreatorInv, Creating, TurnInv, TypeOK, WorkerRow, OrderRow, purse
<1>2. promoUsed' = promoUsed + (IF row.promo = None THEN 0 ELSE 1)
  BY DEF CommitOrder
<1>3. /\ order'[o].status = row.status
      /\ order'[o].promo = row.promo
      /\ \A x \in Orders \ {o} : order'[x] = order[x]
  <2>1. row \in OrderRow
    BY DEF TypeOK, WorkerRow
  <2>2. CASE row.status = "COMPLETED"
    <3>1. PICK p \in Payments : order' = [order EXCEPT ![o] = [row EXCEPT !.pay = p]]
      BY <2>2 DEF CommitOrder
    <3> HIDE DEF o, row
    <3>2. order'[o] = [row EXCEPT !.pay = p] /\ \A x \in Orders \ {o} : order'[x] = order[x]
      BY <1>1, <3>1 DEF TypeOK
    <3>3. QED
      BY <2>1, <3>2 DEF OrderRow
  <2>3. CASE row.status # "COMPLETED"
    BY <1>1, <2>3 DEF CommitOrder, TypeOK
  <2>4. QED
    BY <2>2, <2>3
<1>4. PromoUsesCounted' /\ IsFiniteSet(PromoOrders')
  <2>1. IsFiniteSet(PromoOrders) /\ promoUsed = Cardinality(PromoOrders)
            /\ o \notin PromoOrders
    BY <1>1 DEF TurnTables, PromoUsesCounted, PromoOrders
  <2>2. CASE row.promo # None
    <3>1. PromoOrders' = PromoOrders \cup {o}
      BY <1>1, <1>3, <2>2 DEF PromoOrders
    <3>2. /\ IsFiniteSet(PromoOrders \cup {o})
          /\ Cardinality(PromoOrders \cup {o}) = Cardinality(PromoOrders) + 1
      BY <2>1, FS_AddElement
    <3>3. MaxUses # 0 => promoUsed' <= MaxUses
      BY <1>1, <1>2, <2>2, NumbersAssumption DEF PromoHasUsesLeft, TypeOK
    <3>4. QED
      BY <1>2, <2>1, <2>2, <3>1, <3>2, <3>3 DEF PromoUsesCounted
  <2>3. CASE row.promo = None
    <3>1. \A x \in Orders : x \in PromoOrders' <=> x \in PromoOrders
      BY <1>1, <1>3, <2>3 DEF PromoOrders
    <3>2. promoUsed' = promoUsed
      BY <1>2, <2>3 DEF TypeOK
    <3>3. QED
      BY <3>1, <3>2, PromoKept
  <2>4. QED
    BY <2>2, <2>3
<1>5. invoice[o] # "CANCELLED"
          /\ \A p \in Payments : payment[p].status # "NONE" => payment[p].o # o
  BY <1>1 DEF TurnTables, RowsInv, IInv, TablesInv
<1>6. CASE row.status = "COMPLETED"
  <2>1. PICK p \in Payments :
           /\ FreshPayment(p)
           /\ payment' = [payment EXCEPT ![p] = NewPayment(o, "ADMIN_CREDIT", 0,
                  "COMPLETED")]
           /\ order' = [order EXCEPT ![o] = [row EXCEPT !.pay = p]]
           /\ PayInvoices(o)
    BY <1>6 DEF CommitOrder
  <2> DEFINE paid == NewPayment(o, "ADMIN_CREDIT", 0, "COMPLETED")
  <2>2. paid.o = o /\ paid.status = "COMPLETED" /\ paid.gateway = "ADMIN_CREDIT"
    BY DEF NewPayment
  <2>3. order'[o].pay = p
    BY <1>1, <2>1 DEF TypeOK, WorkerRow, OrderRow
  <2> HIDE DEF paid, o, row
  <2>4. FirstPayment(o, p, paid)
    BY <1>1, <2>1, <2>2 DEF FirstPayment, Internal
  <2>5. \A x \in Orders : OncePerOrder(x)'
    BY <1>1, <2>1, <2>2, <2>4, SettledOnce DEF paid
  <2>6. /\ payment'[p].status = "COMPLETED" /\ payment'[p].gateway = "ADMIN_CREDIT"
        /\ payment[p].status = "NONE"
        /\ \A x \in Payments \ {p} : payment'[x] = payment[x]
    BY <2>1, <2>2 DEF TypeOK, FreshPayment, paid
  <2>7. /\ \A x \in Orders \ {o} : invoice'[x] = invoice[x]
        /\ invoice'[o] \in {"NONE", "PAID"}
    BY <1>1, <1>5, <2>1 DEF PayInvoices, TypeOK
  <2>8. SettledIsConsistent'
    <3>1. ASSUME NEW x \in Orders \ {o}, order'[x].status = "COMPLETED"
          PROVE  /\ invoice'[x] \in {"NONE", "PAID"}
                 /\ payment'[order'[x].pay].status = "COMPLETED"
      <4>1. order[x].pay \in Payments \ {p}
        BY <1>3, <2>6, <3>1 DEF TurnTables, SettledIsConsistent, TypeOK, OrderRow, IInv,
           PaidMeansSettled, CompletedHasPayment
      <4>2. QED
        BY <1>3, <2>6, <2>7, <3>1, <4>1 DEF TurnTables, SettledIsConsistent
    <3>2. QED
      BY <2>3, <2>6, <2>7, <3>1 DEF SettledIsConsistent
  <2>9. RowsInv'
    <3>1. \A x \in Orders : invoice'[x] = "CANCELLED" => order'[x].status = "CANCELLED"
      BY <1>3, <2>7 DEF TurnTables, RowsInv
    <3>2. ASSUME NEW x \in Payments
          PROVE  /\ payment'[x].status = "PENDING" => order'[payment'[x].o].status # "CANCELLED"
                 /\ payment'[x].gateway \in Internal => payment'[x].status = "COMPLETED"
      <4>1. payment[x].status = "PENDING" => payment[x].o \in Orders \ {o}
        BY <1>5 DEF IInv, TablesInv
      <4>2. QED
        BY <1>3, <2>6, <4>1 DEF TurnTables, RowsInv
    <3>3. QED
      BY <3>1, <3>2 DEF RowsInv
  <2>10. QED
    BY <1>1, <1>4, <2>5, <2>8, <2>9 DEF TurnTables, NoOverdraft
<1>7. CASE row.status = "PENDING"
  <2>1. UNCHANGED <<invoice, payment>>
    BY <1>7 DEF CommitOrder
  <2> HIDE DEF o, row
  <2>2. SettledIsConsistent'
    BY <1>3, <1>7, <2>1 DEF TurnTables, SettledIsConsistent
  <2>3. RowsInv'
    <3>1. \A p \in Payments : payment[p].status = "PENDING" => payment[p].o \in Orders \ {o}
      BY <1>5 DEF IInv, TablesInv
    <3>2. QED
      BY <1>3, <1>5, <2>1, <3>1 DEF TurnTables, RowsInv
  <2>4. \A x \in Orders : OncePerOrder(x)'
    BY <2>1 DEF TurnTables, OncePerOrder, ChargesOf, ExemptionsOf, PendingOf
  <2>5. QED
    BY <1>1, <1>4, <2>2, <2>3, <2>4 DEF TurnTables, NoOverdraft
<1>8. QED
  BY <1>1, <1>6, <1>7

\* A pending order is cancelled, and gives back the use of its code if it has the
\* code as it is stored.
LEMMA OrderCancelled ==
    ASSUME TypeOK, IInv, TurnTables, NEW w \in Workers, TurnInv(w), HandlerInv(w),
           CommitCancel(w)
    PROVE  TurnTables'
<1> DEFINE o == worker[w].o
<1>1. /\ o \in Orders
      /\ order[o].status = "PENDING"
      /\ worker[w].row.promo = order[o].promo
      /\ wallet' = wallet
  BY DEF CommitCancel, At, HandlerInv, Creating, TurnInv, Unpaid, TypeOK, OrderRow, purse
<1>2. /\ order' = [order EXCEPT ![o].status = "CANCELLED"]
      /\ invoice' = [invoice EXCEPT ![o] = IF @ = "DRAFT" THEN "CANCELLED" ELSE @]
      /\ payment' = [p \in Payments |-> IF p \in PendingOf(o)
                                        THEN [payment[p] EXCEPT !.status = "EXPIRED"]
                                        ELSE payment[p]]
      /\ promoUsed' = promoUsed - (IF order[o].promo = StoredCode THEN 1 ELSE 0)
  BY <1>1 DEF CommitCancel
<1> HIDE DEF o
<1>3. /\ order'[o].status = "CANCELLED"
      /\ order'[o].promo = order[o].promo
      /\ \A x \in Orders \ {o} : order'[x] = order[x]
  BY <1>1, <1>2 DEF TypeOK, OrderRow
<1>4. \A p \in Payments :
         /\ payment'[p].o = payment[p].o
         /\ payment'[p].gateway = payment[p].gateway
         /\ p \in PendingOf(o) => payment'[p].status = "EXPIRED"
         /\ p \notin PendingOf(o) => payment'[p] = payment[p]
  BY <1>2 DEF TypeOK, PaymentRow
<1>5. /\ \A x \in Orders \ {o} : invoice'[x] = invoice[x]
  BY <1>2 DEF TypeOK
<1>6. SettledIsConsistent'
  <2>1. \A x \in Orders : order[x].status = "COMPLETED" => order[x].pay \in Payments
    BY DEF TypeOK, OrderRow, IInv, PaidMeansSettled, CompletedHasPayment
  <2>2. QED
    BY <1>3, <1>4, <1>5, <2>1 DEF TurnTables, SettledIsConsistent, PendingOf
<1>7. RowsInv'
  <2>1. \A x \in Orders : invoice'[x] = "CANCELLED" => order'[x].status = "CANCELLED"
    BY <1>3, <1>5 DEF TurnTables, RowsInv
  <2>2. ASSUME NEW x \in Payments
        PROVE  /\ payment'[x].status = "PENDING" => order'[payment'[x].o].status # "CANCELLED"
               /\ payment'[x].gateway \in Internal => payment'[x].status = "COMPLETED"
    <3>1. payment[x].status = "PENDING" => payment[x].o \in Orders
              /\ payment[x].gateway \notin Internal
      BY DEF IInv, TablesInv, GatewayPayment, Online, Internal
    <3>2. payment'[x].status = "PENDING" => payment[x].status = "PENDING"
              /\ payment[x].o # o
      BY <1>4 DEF PendingOf
    <3>3. QED
      BY <1>3, <1>4, <3>1, <3>2 DEF TurnTables, RowsInv, PendingOf
  <2>3. QED
    BY <2>1, <2>2 DEF RowsInv
<1>8. PromoUsesCounted' /\ IsFiniteSet(PromoOrders')
  <2>1. IsFiniteSet(PromoOrders) /\ promoUsed = Cardinality(PromoOrders)
    BY DEF TurnTables, PromoUsesCounted
  <2>2. CASE order[o].promo = StoredCode
    <3>1. PromoOrders' = PromoOrders \ {o} /\ o \in PromoOrders
      BY <1>1, <1>3, <2>2, SetsAssumption DEF PromoOrders
    <3>2. /\ IsFiniteSet(PromoOrders \ {o})
          /\ Cardinality(PromoOrders \ {o}) = Cardinality(PromoOrders) - 1
      BY <2>1, <3>1, FS_RemoveElement
    <3>3. MaxUses # 0 => promoUsed' <= MaxUses
      BY <1>2, <2>2, NumbersAssumption DEF TurnTables, PromoUsesCounted, TypeOK
    <3>4. QED
      BY <1>2, <2>1, <2>2, <3>1, <3>2, <3>3 DEF PromoUsesCounted
  <2>3. CASE order[o].promo # StoredCode
    <3>1. \A x \in Orders : x \in PromoOrders' <=> x \in PromoOrders
      <4>1. o \in PromoOrders' <=> o \in PromoOrders
        BY <1>1, <1>3, <2>3 DEF PromoOrders
      <4>2. QED
        BY <1>3, <4>1 DEF PromoOrders
    <3>2. promoUsed' = promoUsed
      BY <1>2, <2>3 DEF TypeOK
    <3>3. QED
      BY <3>1, <3>2, PromoKept
  <2>4. QED
    BY <2>2, <2>3
<1>9. \A x \in Orders : OncePerOrder(x)'
  <2> SUFFICES ASSUME NEW x \in Orders PROVE OncePerOrder(x)'
    OBVIOUS
  <2>1. ChargesOf(x)' \subseteq ChargesOf(x)
    BY <1>4 DEF ChargesOf
  <2>2. ExemptionsOf(x)' \subseteq ExemptionsOf(x) /\ PendingOf(x)' \subseteq PendingOf(x)
    BY <1>4 DEF ExemptionsOf, PendingOf
  <2>3. QED
    BY <2>1, <2>2, OnceKept DEF TurnTables
<1>10. QED
  BY <1>1, <1>6, <1>7, <1>8, <1>9 DEF TurnTables, NoOverdraft

\* A wallet is credited.
LEMMA WalletCredited ==
    ASSUME TypeOK, TurnTables, NEW u \in Users, NEW amt \in Nat,
           wallet' = [wallet EXCEPT ![u] = @ + amt],
           UNCHANGED <<order, invoice, payment, promoUsed>>
    PROVE  TurnTables'
<1>1. SettledIsConsistent' /\ RowsInv'
  BY DEF TurnTables, SettledIsConsistent, RowsInv
<1>2. PromoUsesCounted' /\ IsFiniteSet(PromoOrders')
  BY PromoKept DEF PromoOrders
<1>3. \A o \in Orders : OncePerOrder(o)'
  BY DEF TurnTables, OncePerOrder, ChargesOf, ExemptionsOf, PendingOf
<1>4. NoOverdraft'
  BY DEF TurnTables, NoOverdraft, TypeOK
<1>5. QED
  BY <1>1, <1>2, <1>3, <1>4 DEF TurnTables

--------------------------------------------------------------------------------
\* What the handler in progress may rely on, after each kind of step.

LEMMA GoesOnTo ==
    ASSUME TypeOK, TakingTurns', NEW w \in Workers, NEW step \in Steps \ {"idle"},
           Goto(w, step) \/ Settle(w, step),
           NEW o, o = worker[w].o, step \in Unpaid => order'[o].status = "PENDING",
           step \notin Closing \cup {"cancel", "invoice", "overdue"},
           step \in {"charge", "deduct"} => PendingOf(o)' = {},
           step = "deduct" => worker[w].row.total <= wallet'[Owner[o]],
           step = "commit" /\ worker[w].row.promo # None => PromoHasUsesLeft'
    PROVE  TurnHandlers'
<1>1. worker[w] \in WorkerRow
  BY DEF TypeOK
<1>2. PICK next \in {[worker[w] EXCEPT !.pc = step], [worker[w] EXCEPT !.pc = step,
          !.g = "NONE"]} :
         Become(w, next)
  BY DEF Goto, Settle
<1>3. next.pc = step /\ next.o = worker[w].o /\ next.row = worker[w].row
  BY <1>1, <1>2 DEF WorkerRow
<1>4. QED
  BY <1>2, <1>3, GoesOn DEF Closing

\* A handler that returns, and has only read.
LEMMA ReturnsQuietly ==
    ASSUME TypeOK, TurnHandlers, NEW w \in Workers, Return(w),
           UNCHANGED <<order, payment, wallet, promoUsed>>
    PROVE  TurnHandlers'
<1>1. worker'[w].pc = "idle" /\ \A x \in Workers \ {w} : worker'[x] = worker[x]
  BY DEF Return, Become, Idle, TypeOK
<1>2. TurnInv(w)'
  BY <1>1 DEF TurnInv, Unpaid, Closing
<1>3. \A x \in Workers \ {w} : TurnInv(x)'
  BY <1>1, LeftAlone DEF TurnHandlers
<1>4. QED
  BY <1>2, <1>3 DEF TurnHandlers

LEMMA ReturnsReading ==
    ASSUME TypeOK, TurnTables, TurnHandlers, NEW w \in Workers, Return(w),
           UNCHANGED <<order, invoice, payment, wallet, promoUsed>>
    PROVE  TurnsInv'
  BY TablesSame, ReturnsQuietly, TurnHalves DEF TurnsInv, TurnTables, TurnHandlers

--------------------------------------------------------------------------------
\* The invariant is preserved, action by action.

Turns == TypeOK /\ IInv /\ TurnsInv /\ TakingTurns /\ TakingTurns'

LEMMA TurnsHave ==
    ASSUME Turns
    PROVE  /\ TypeOK /\ IInv /\ TurnTables /\ TurnHandlers
           /\ TakingTurns /\ TakingTurns'
  BY TurnHalves DEF Turns

LEMMA TurnsJoined == ASSUME TurnTables', TurnHandlers' PROVE TurnsInv'
  BY DEF TurnTables, TurnHandlers, TurnsInv

LEMMA TurnCreateOrder ==
    ASSUME Turns, NEW w \in Workers, NEW o \in Orders, NEW a \in Amounts,
           NEW code, CreateOrder(w, o, a, code)
    PROVE  TurnsInv'
<1> DEFINE free == isFree[Owner[o]]
           row == [NewOrder(a, OrderTotal(a, IF free THEN a ELSE 0), FALSE)
                     EXCEPT !.status = IF free THEN "COMPLETED" ELSE "PENDING",
                            !.promo = IF free THEN None ELSE code]
           next == [Idle EXCEPT !.pc = IF row.promo = None THEN "invoice" ELSE "promo",
                                !.o = o, !.row = row]
<1>1. Become(w, next) /\ UNCHANGED <<order, invoice, payment, wallet, promoUsed>>
  BY DEF CreateOrder, tables, purse
<1>2. next.row = row
  BY DEF Idle
<1> HIDE DEF row
<1>3. next.pc \in {"promo", "invoice"} /\ (next.pc = "invoice" => row.promo = None)
  BY DEF Idle
<1> HIDE DEF next
<1>4. TurnTables'
  BY <1>1, TurnsHave, TablesSame
<1>5. TurnHandlers'
  BY <1>1, <1>2, <1>3, TurnsHave, GoesOn DEF Unpaid, Closing
<1>6. QED
  BY <1>4, <1>5, TurnsJoined

\* A row inserted pending, which the handler goes on to pay for or to bill.
LEMMA TurnInsert ==
    ASSUME Turns, NEW w \in Workers, NEW o \in Orders, NEW row, NEW next,
           FreshOrder(o), row.status = "PENDING", row.promo = None,
           order' = [order EXCEPT ![o] = row], Become(w, next), next.o = o,
           next.pc \in {"topup", "bill"}, UNCHANGED <<invoice, payment, wallet, promoUsed>>
    PROVE  TurnsInv'
<1>1. TurnTables'
  BY TurnsHave, OrderInserted
<1>2. order'[o].status = "PENDING"
  BY TurnsHave DEF TypeOK
<1>3. TurnHandlers'
  BY <1>2, TurnsHave, GoesOn DEF Closing
<1>4. QED
  BY <1>1, <1>3, TurnsJoined

LEMMA TurnRequest ==
    ASSUME Turns, NEW w \in Workers, Request(w)
    PROVE  TurnsInv'
<1>1. \A amt, total, topup : /\ NewOrder(amt, total, topup).status = "PENDING"
                             /\ NewOrder(amt, total, topup).promo = None
  BY DEF NewOrder, NoOrder
<1>2. ASSUME NEW o \in Orders, NEW a \in Amounts, NEW g \in GatewayChoices,
             TopupWallet(w, o, a, g)
      PROVE  TurnsInv'
  <2> DEFINE row == NewOrder(a, a, TRUE)
             next == [Idle EXCEPT !.pc = "topup", !.o = o, !.g = g, !.row = row]
  <2>1. next.o = o /\ next.pc = "topup"
    BY DEF Idle
  <2>2. Become(w, next) /\ order' = [order EXCEPT ![o] = row] /\ FreshOrder(o)
    BY <1>2 DEF TopupWallet
  <2>3. UNCHANGED <<invoice, payment, wallet, promoUsed>>
    BY <1>2 DEF TopupWallet, purse
  <2>4. row.status = "PENDING" /\ row.promo = None
    BY <1>1
  <2> HIDE DEF next, row
  <2>5. QED
    BY <2>1, <2>2, <2>3, <2>4, TurnInsert
<1>3. ASSUME NEW o \in Orders, NEW g \in GatewayChoices, InitiatePayment(w, o, g)
      PROVE  TurnsInv'
  <2> DEFINE next == [Idle EXCEPT !.pc = "exempt", !.o = o, !.g = g, !.row = order[o]]
  <2>1. next.o = o /\ next.pc = "exempt"
    BY DEF Idle
  <2>2. Become(w, next) /\ order[o].status = "PENDING"
    BY <1>3 DEF InitiatePayment, ReadOrder
  <2>3. UNCHANGED <<order, invoice, payment, wallet, promoUsed>>
    BY <1>3 DEF InitiatePayment, tables, purse
  <2> HIDE DEF next
  <2>4. TurnHandlers'
    BY <2>1, <2>2, <2>3, TurnsHave, GoesOn DEF Closing
  <2>5. QED
    BY <2>3, <2>4, TurnsHave, TablesSame, TurnsJoined
<1>4. ASSUME NEW o \in Orders, NEW n \in Orders, NEW row, InsertSuccessor(w, o, n, row),
             row.status = "PENDING", row.promo = None
      PROVE  TurnsInv'
  <2> DEFINE next == [Idle EXCEPT !.pc = "bill", !.o = n, !.row = row]
  <2>1. next.o = n /\ next.pc = "bill"
    BY DEF Idle
  <2>2. Become(w, next) /\ order' = [order EXCEPT ![n] = row] /\ FreshOrder(n)
    BY <1>4 DEF InsertSuccessor
  <2>3. UNCHANGED <<invoice, payment, wallet, promoUsed>>
    BY <1>4 DEF InsertSuccessor, purse
  <2> HIDE DEF next
  <2>4. QED
    BY <1>4, <2>1, <2>2, <2>3, TurnInsert
<1>5. ASSUME NEW o \in Orders, NEW n \in Orders, RenewOrder(w, o, n)
      PROVE  TurnsInv'
  BY <1>1, <1>4, <1>5 DEF RenewOrder
<1>6. ASSUME NEW o \in Orders, NEW n \in Orders, NEW a \in Amounts, NEW d \in DaysUsed,
             UpgradePlan(w, o, n, a, d)
      PROVE  TurnsInv'
  BY <1>1, <1>4, <1>6 DEF UpgradePlan
<1>7. ASSUME NEW p \in Payments, NEW ok \in BOOLEAN, ReceiveWebhook(w, p, ok)
      PROVE  TurnsInv'
  <2> DEFINE next == [Idle EXCEPT !.pc = IF ok THEN "accepted" ELSE "refused",
                                  !.o = payment[p].o, !.p = p]
  <2>1. Become(w, next) /\ UNCHANGED <<order, invoice, payment, wallet, promoUsed>>
    BY <1>7 DEF ReceiveWebhook, tables, purse
  <2>2. next.pc \in {"accepted", "refused"}
    BY DEF Idle
  <2> HIDE DEF next
  <2>3. TurnHandlers'
    BY <2>1, <2>2, TurnsHave, GoesOn DEF Unpaid, Closing
  <2>4. QED
    BY <2>1, <2>3, TurnsHave, TablesSame, TurnsJoined
<1>8. ASSUME NEW o \in Orders, CancelOrder(w, o)
      PROVE  TurnsInv'
  <2> DEFINE next == [Idle EXCEPT !.pc = "cancel", !.o = o, !.row = order[o]]
  <2>1. next.o = o /\ next.pc = "cancel" /\ next.row = order[o]
    BY DEF Idle
  <2>2. Become(w, next) /\ order[o].status = "PENDING"
    BY <1>8 DEF CancelOrder
  <2>3. UNCHANGED <<order, invoice, payment, wallet, promoUsed>>
    BY <1>8 DEF CancelOrder, tables, purse
  <2> HIDE DEF next
  <2>4. TurnHandlers'
    BY <2>1, <2>2, <2>3, TurnsHave, GoesOn DEF Closing
  <2>5. QED
    BY <2>3, <2>4, TurnsHave, TablesSame, TurnsJoined
<1>9. ASSUME NEW o \in Orders PROVE ~DunningSweep(w, o)
  BY TurnsHave DEF DunningSweep, TurnTables, SettledIsConsistent
<1>10. QED
  BY <1>2, <1>3, <1>5, <1>6, <1>7, <1>8, <1>9, TurnCreateOrder DEF Request

\* The pending row a verified callback is about.
LEMMA TurnFindPayment ==
    ASSUME Turns, NEW w \in Workers, NEW ok \in BOOLEAN, FindPayment(w, ok)
    PROVE  TurnsInv'
<1>1. UNCHANGED <<order, invoice, payment, wallet, promoUsed>>
  BY DEF FindPayment, tables, purse
<1>2. CASE Return(w)
  BY <1>1, <1>2, TurnsHave, ReturnsReading
<1>3. CASE ~Return(w)
  <2>1. PICK q \in PendingWithRefOf(worker[w].p), pc \in {"declined", "paid", "mismatch"} :
           Become(w, [worker[w] EXCEPT !.pc = pc, !.p = q])
    BY <1>3 DEF FindPayment
  <2> DEFINE next == [worker[w] EXCEPT !.pc = pc, !.p = q]
  <2>2. next.pc = pc /\ next.p = q /\ payment[q].status = "PENDING"
    BY TurnsHave DEF TypeOK, WorkerRow, PendingWithRefOf
  <2>3. Become(w, next)
    BY <2>1
  <2> HIDE DEF next
  <2>4. TurnHandlers'
    BY <1>1, <2>2, <2>3, TurnsHave, GoesOn DEF Unpaid, Closing
  <2>5. QED
    BY <1>1, <2>4, TurnsHave, TablesSame, TurnsJoined
<1>4. QED
  BY <1>2, <1>3

\* A job that is over, or goes on at a step with what it has read.
LEMMA TurnRunJob ==
    ASSUME Turns, NEW w \in Workers, NEW j, NEW o,
           NEW step \in {"idle", "lapse", "remind", "next", "overdue"}, RunJob(w, j, o,
           step),
           step = "lapse" => payment[j.p].status = "PENDING",
           step = "overdue" => order[o].status # "COMPLETED",
           UNCHANGED <<order, invoice, payment, wallet, promoUsed>>
    PROVE  TurnsInv'
<1>1. CASE step = "idle"
  BY <1>1, TurnsHave, ReturnsReading DEF RunJob, Return
<1>2. CASE step # "idle"
  <2> DEFINE next == [Idle EXCEPT !.pc = step, !.o = o, !.p = j.p, !.job = j]
  <2>1. next.pc = step /\ next.o = o /\ next.p = j.p
    BY DEF Idle
  <2>2. Become(w, next)
    BY <1>2 DEF RunJob
  <2> HIDE DEF next
  <2>3. TurnHandlers'
    BY <1>2, <2>1, <2>2, TurnsHave, GoesOn DEF Unpaid, Closing
  <2>4. QED
    BY <2>3, TurnsHave, TablesSame, TurnsJoined
<1>3. QED
  BY <1>1, <1>2

LEMMA TurnStartJob ==
    ASSUME Turns, NEW w \in Workers, NEW j \in jobs, StartJob(w, j)
    PROVE  TurnsInv'
<1>1. UNCHANGED <<order, invoice, payment, wallet, promoUsed>>
  BY DEF StartJob, ExpiryCheck, PaymentRetry, DunningEmail, tables, purse
<1>2. CASE ExpiryCheck(w, j)
  <2>1. PICK step \in {"idle", "lapse"} :
           /\ RunJob(w, j, payment[j.p].o, step)
           /\ step = "lapse" => payment[j.p].status = "PENDING"
    BY <1>2 DEF ExpiryCheck
  <2>2. QED
    BY <1>1, <2>1, TurnRunJob
<1>3. CASE PaymentRetry(w, j)
  <2>1. PICK step \in {"idle", "remind", "next"} : RunJob(w, j, payment[j.p].o, step)
    BY <1>3 DEF PaymentRetry
  <2>2. QED
    BY <1>1, <2>1, TurnRunJob
<1>4. CASE DunningEmail(w, j)
  <2>1. PICK step \in {"idle", "overdue"} :
           /\ RunJob(w, j, payment[j.p].o, step)
           /\ step = "overdue" => order[payment[j.p].o].status # "COMPLETED"
    BY <1>4 DEF DunningEmail
  <2>2. QED
    BY <1>1, <2>1, TurnRunJob
<1>5. QED
  BY <1>2, <1>3, <1>4 DEF StartJob

LEMMA HandlerFacts ==
    ASSUME Turns, NEW w \in Workers
    PROVE  /\ TurnInv(w)
           /\ HandlerInv(w)
           /\ CreatorInv(w)
           /\ worker[w] \in WorkerRow
           /\ worker[w].row \in OrderRow
           /\ worker[w].row.amt \in Nat
           /\ worker[w].row.total \in Nat
           /\ ~At(w, "idle") => worker[w].o \in Orders
  BY TurnsHave, HandlerHasOrder, WorkerFields, OrderFields DEF TurnHandlers, IInv, TypeOK

\* Steps that only read.
LEMMA TurnReading ==
    ASSUME Turns, NEW w \in Workers,
           \/ ValidatePromoCode(w) \/ TopupExempt(w) \/ InitiateTopup(w)
           \/ CheckExempt(w) \/ FindPending(w) \/ GatewayRefuses(w)
           \/ ReadBalance(w) \/ SettleIfExempt(w)
    PROVE  TurnsInv'
<1> DEFINE o == worker[w].o
<1>1. UNCHANGED <<order, invoice, payment, wallet, promoUsed>>
  BY DEF ValidatePromoCode, TopupExempt, InitiateTopup, CheckExempt, FindPending,
         GatewayRefuses, ReadBalance, SettleIfExempt, tables, purse
<1>2. TurnTables'
  BY <1>1, TurnsHave, TablesSame
<1>3. Return(w) => TurnsInv'
  BY <1>1, TurnsHave, ReturnsReading
<1>4. worker[w].pc \in Unpaid => order[o].status = "PENDING"
  BY HandlerFacts DEF TurnInv
<1>5. CASE ValidatePromoCode(w)
  <2> DEFINE total == OrderTotal(worker[w].row.amt,
                                 PromoDiscount(PromoType, worker[w].row.amt, PromoValue))
             next == [worker[w] EXCEPT !.pc = "invoice", !.row.total = total]
  <2>1. CASE PromoHasUsesLeft
    <3>1. Become(w, next)
      BY <1>5, <2>1 DEF ValidatePromoCode
    <3>2. next.pc = "invoice"
      BY HandlerFacts DEF WorkerRow
    <3>3. PromoHasUsesLeft'
      BY <1>1, <2>1 DEF PromoHasUsesLeft
    <3> HIDE DEF next
    <3>4. TurnHandlers'
      BY <3>1, <3>2, <3>3, TurnsHave, GoesOn DEF Unpaid, Closing
    <3>5. QED
      BY <1>2, <3>4, TurnsJoined
  <2>2. CASE ~PromoHasUsesLeft
    BY <1>3, <1>5, <2>2 DEF ValidatePromoCode
  <2>3. QED
    BY <2>1, <2>2
<1>6. CASE TopupExempt(w) \/ CheckExempt(w)
  <2>1. worker[w].pc \in Unpaid
    BY <1>6 DEF TopupExempt, CheckExempt, At, Unpaid
  <2>2. PICK step \in {"credit", "initiate", "settle", "find"} : Goto(w,
            step) \/ Settle(w, step)
    BY <1>6 DEF TopupExempt, CheckExempt
  <2>3. TurnHandlers'
    BY <1>1, <1>4, <2>1, <2>2, TurnsHave, GoesOnTo DEF Steps, Closing
  <2>4. QED
    BY <1>2, <2>3, TurnsJoined
<1>7. CASE InitiateTopup(w)
  <2> DEFINE next == [Idle EXCEPT !.pc = "exempt", !.o = o, !.g = worker[w].g,
      !.row = order[o]]
  <2>1. next.o = o /\ next.pc = "exempt"
    BY DEF Idle
  <2>2. order[o].status = "PENDING"
    BY <1>4, <1>7 DEF InitiateTopup, At, Unpaid
  <2>3. Become(w, next)
    BY <1>7, <2>2 DEF InitiateTopup, ReadOrder
  <2> HIDE DEF next, o
  <2>4. TurnHandlers'
    BY <1>1, <2>1, <2>2, <2>3, TurnsHave, GoesOn DEF Closing
  <2>5. QED
    BY <1>2, <2>4, TurnsJoined
<1>8. CASE FindPending(w)
  <2>1. order[o].status = "PENDING"
    BY <1>4, <1>8 DEF FindPending, At, Unpaid
  <2>2. CASE PendingOf(o) = {} /\ Goto(w, "charge")
    <3>1. PICK x : x = o
      OBVIOUS
    <3>2. PendingOf(x)' = {} /\ order'[x].status = "PENDING"
      BY <1>1, <2>1, <2>2, <3>1 DEF PendingOf
    <3>3. TurnHandlers'
      BY <2>2, <3>1, <3>2, TurnsHave, GoesOnTo DEF Steps, Closing
    <3>4. QED
      BY <1>2, <3>3, TurnsJoined
  <2>3. ASSUME NEW p \in PendingOf(o), Become(w, [worker[w] EXCEPT !.pc = "expire",
            !.p = p])
        PROVE  TurnsInv'
    <3> DEFINE next == [worker[w] EXCEPT !.pc = "expire", !.p = p]
    <3>1. next.pc = "expire" /\ next.o = o /\ next.p = p
      BY HandlerFacts DEF WorkerRow
    <3>2. payment[p].status = "PENDING" /\ payment[p].o = o
      BY DEF PendingOf
    <3>3. Become(w, next)
      BY <2>3
    <3> HIDE DEF next, o
    <3>4. TurnHandlers'
      BY <1>1, <2>1, <3>1, <3>2, <3>3, TurnsHave, GoesOn
    <3>5. QED
      BY <1>2, <3>4, TurnsJoined
  <2>4. QED
    BY <1>8, <2>2, <2>3 DEF FindPending
<1>9. CASE GatewayRefuses(w)
  BY <1>3, <1>9 DEF GatewayRefuses
<1>10. CASE ReadBalance(w)
  <2>1. worker[w].pc = "charge" /\ order[o].status = "PENDING" /\ o \in Orders
            /\ PendingOf(o) = {}
    BY <1>10, HandlerFacts DEF ReadBalance, At, TurnInv, Unpaid
  <2>2. wallet[Owner[o]] \in Int /\ worker[w].row.total \in Nat
    BY <2>1, HandlerFacts, TurnsHave, SetsAssumption DEF TypeOK
  <2>3. CASE wallet[Owner[o]] < worker[w].row.total
    BY <1>3, <1>10, <2>3 DEF ReadBalance
  <2>4. CASE ~(wallet[Owner[o]] < worker[w].row.total)
    <3>1. Settle(w, "deduct")
      BY <1>10, <2>4 DEF ReadBalance
    <3>2. worker[w].row.total <= wallet'[Owner[o]]
      BY <1>1, <2>2, <2>4
    <3>3. PICK x : x = o
      OBVIOUS
    <3>4. PendingOf(x)' = {} /\ order'[x].status = "PENDING"
      BY <1>1, <2>1, <3>3 DEF PendingOf
    <3>5. TurnHandlers'
      BY <3>1, <3>2, <3>3, <3>4, TurnsHave, GoesOnTo DEF Steps, Closing
    <3>6. QED
      BY <1>2, <3>5, TurnsJoined
  <2>5. QED
    BY <2>3, <2>4
<1>11. CASE SettleIfExempt(w)
  <2>1. order[o].status = "PENDING"
    BY <1>4, <1>11 DEF SettleIfExempt, At, Unpaid
  <2>2. CASE Settle(w, "settle")
    <3>1. TurnHandlers'
      BY <1>1, <2>1, <2>2, TurnsHave, GoesOnTo DEF Steps, Closing
    <3>2. QED
      BY <1>2, <3>1, TurnsJoined
  <2>3. QED
    BY <1>3, <1>11, <2>2 DEF SettleIfExempt
<1>12. QED
  BY <1>5, <1>6, <1>7, <1>8, <1>9, <1>10, <1>11

\* Steps that only write to the queue, and a handler that breaks off.
LEMMA TurnQueueing ==
    ASSUME Turns, NEW w \in Workers,
           \/ ScheduleExpiryCheck(w) \/ StartDunning(w) \/ QueueReminder(w)
           \/ QueueNextAttempt(w) \/ Fail(w)
    PROVE  TurnsInv'
<1>1. UNCHANGED <<order, invoice, payment, wallet, promoUsed>>
  BY DEF ScheduleExpiryCheck, StartDunning, QueueReminder, QueueNextAttempt, Fail,
     tables, purse
<1>2. CASE QueueReminder(w)
  <2>1. Goto(w, "next")
    BY <1>2 DEF QueueReminder
  <2>2. TurnHandlers'
    BY <2>1, TurnsHave, GoesOnTo DEF Steps, Closing, Unpaid
  <2>3. QED
    BY <1>1, <2>2, TurnsHave, TablesSame, TurnsJoined
<1>3. CASE ~QueueReminder(w)
  <2>1. Return(w)
    BY <1>3 DEF ScheduleExpiryCheck, StartDunning, QueueNextAttempt, Fail
  <2>2. QED
    BY <1>1, <2>1, TurnsHave, ReturnsReading
<1>4. QED
  BY <1>2, <1>3

\* Steps that write the status of a payment, by its id.
LEMMA TurnClosing ==
    ASSUME Turns, NEW w \in Workers,
           \/ ExpirePrevious(w) \/ RejectAmount(w) \/ DeclinePayment(w) \/ ExpirePayment(w)
    PROVE  TurnsInv'
<1> DEFINE p == worker[w].p
           o == worker[w].o
<1>1. p \in Payments /\ payment[p].status = "PENDING" /\ ~At(w, "idle")
  BY HandlerFacts DEF ExpirePrevious, RejectAmount, DeclinePayment, ExpirePayment, At,
     HandlerInv, Holding, GatewayPayment, TurnInv, Closing
<1>2. PICK status \in {"EXPIRED",
          "FAILED"} : payment' = [payment EXCEPT ![p].status = status]
  BY DEF ExpirePrevious, RejectAmount, DeclinePayment, ExpirePayment
<1>3. UNCHANGED <<order, invoice, wallet, promoUsed>>
  BY DEF ExpirePrevious, RejectAmount, DeclinePayment, ExpirePayment, purse
<1>4. TurnTables'
  BY <1>1, <1>2, <1>3, TurnsHave, PaymentClosed
<1>5. CASE RejectAmount(w) \/ ExpirePayment(w)
  <2>1. TurnHandlers'
    BY <1>1, <1>5, TurnsHave, ComesBack DEF RejectAmount, ExpirePayment
  <2>2. QED
    BY <1>4, <2>1, TurnsJoined
<1>6. CASE DeclinePayment(w)
  <2>1. TurnHandlers'
    BY <1>6, TurnsHave, GoesOnTo DEF DeclinePayment, Steps, Closing, Unpaid
  <2>2. QED
    BY <1>4, <2>1, TurnsJoined
<1>7. CASE ExpirePrevious(w)
  <2> DEFINE next == [worker[w] EXCEPT !.pc = "charge", !.p = None]
  <2>1. next.pc = "charge" /\ next.o = o
    BY HandlerFacts DEF WorkerRow
  <2>2. Become(w, next)
    BY <1>7 DEF ExpirePrevious
  <2>3. o \in Orders /\ order[o].status = "PENDING" /\ p \in PendingOf(o)
    BY <1>1, <1>7, HandlerFacts DEF ExpirePrevious, At, TurnInv, Unpaid, PendingOf
  <2> HIDE DEF next, p
  <2>4. PICK x : x = o
    OBVIOUS
  <2> HIDE DEF o
  <2>5. PendingOf(x) = {p}
    BY <2>3, <2>4, TurnsHave DEF TurnTables, OncePerOrder, AtMostOne
  <2>6. /\ payment'[p].status = status
        /\ \A q \in Payments \ {p} : payment'[q] = payment[q]
    BY <1>1, <1>2, TurnsHave DEF TypeOK, PaymentRow
  <2>7. PendingOf(x)' = {}
    BY <2>5, <2>6 DEF PendingOf
  <2>8. TurnHandlers'
    BY <1>3, <2>1, <2>2, <2>3, <2>4, <2>7, TurnsHave, GoesOn DEF Closing
  <2>9. QED
    BY <1>4, <2>8, TurnsJoined
<1>8. QED
  BY <1>5, <1>6, <1>7

\* A session is opened with a gateway.
LEMMA TurnOpening ==
    ASSUME Turns, NEW w \in Workers, OpenPayment(w)
    PROVE  TurnsInv'
<1> DEFINE o == worker[w].o
           row == NewPayment(o, worker[w].g, worker[w].row.total, "PENDING")
<1>1. PICK p \in Payments :
         /\ FreshPayment(p)
         /\ payment' = [payment EXCEPT ![p] = row]
         /\ Become(w, [Idle EXCEPT !.pc = "schedule", !.o = o, !.p = p])
  BY DEF OpenPayment
<1> DEFINE next == [Idle EXCEPT !.pc = "schedule", !.o = o, !.p = p]
<1>2. next.pc = "schedule" /\ Become(w, next)
  BY <1>1 DEF Idle
<1>3. o \in Orders /\ order[o].status = "PENDING" /\ PendingOf(o) = {}
  BY HandlerFacts DEF OpenPayment, At, TurnInv, Unpaid
<1>4. row.status = "PENDING" /\ row.o = o /\ row.gateway \in Online
  BY DEF NewPayment, OpenPayment
<1>5. UNCHANGED <<order, invoice, wallet, promoUsed>>
  BY DEF OpenPayment, purse
<1> HIDE DEF next, row, o
<1>6. TurnTables'
  BY <1>1, <1>3, <1>4, <1>5, TurnsHave, PaymentOpened
<1>7. TurnHandlers'
  BY <1>2, TurnsHave, GoesOn DEF Unpaid, Closing
<1>8. QED
  BY <1>6, <1>7, TurnsJoined

\* The three settlements that insert a payment.
LEMMA TurnSettling ==
    ASSUME Turns, NEW w \in Workers,
           PayFromWallet(w) \/ SettleFreeOrder(w) \/ RecordCredit(w)
    PROVE  TurnsInv'
<1>0. PICK o \in Orders : o = worker[w].o
  BY HandlerFacts DEF PayFromWallet, SettleFreeOrder, RecordCredit, At
<1>1. order[o].status = "PENDING" /\ ~At(w, "idle")
  BY <1>0, HandlerFacts DEF PayFromWallet, SettleFreeOrder, RecordCredit, At, TurnInv,
      Unpaid
<1>2. PICK p \in Payments, gateway \in Internal, amt \in Nat, total \in Nat :
         /\ FreshPayment(p)
         /\ SettleWith(o, p, NewPayment(o, gateway, amt, "COMPLETED"), total)
         /\ gateway = "WALLET" => At(w, "deduct")
  <2>1. worker[w].row.total \in Nat /\ worker[w].row.amt \in Nat /\ order[o].total \in Nat
    BY <1>1, HandlerFacts, TurnsHave, OrderFields DEF TypeOK
  <2>2. QED
    BY <1>0, <2>1 DEF PayFromWallet, SettleFreeOrder, RecordCredit, Internal
<1> DEFINE row == NewPayment(o, gateway, amt, "COMPLETED")
<1>3. row.o = o /\ row.status = "COMPLETED" /\ row.gateway = gateway
  BY DEF NewPayment
<1>4. gateway = "WALLET" => PendingOf(o) = {}
  BY <1>0, <1>2, HandlerFacts DEF At, TurnInv
<1>5. NoOverdraft' /\ promoUsed' = promoUsed /\ Return(w)
  <2>1. CASE PayFromWallet(w)
    <3>1. Owner[o] \in Users /\ worker[w].row.total \in Nat
      BY <1>1, SetsAssumption, HandlerFacts
    <3>2. worker[w].row.total <= wallet[Owner[o]]
      BY <1>0, <2>1, HandlerFacts DEF PayFromWallet, At, TurnInv
    <3>3. wallet' = IF Owner[o] \in Resellers
                    THEN [wallet EXCEPT ![Owner[o]] = @ - worker[w].row.total]
                    ELSE wallet
      BY <1>0, <2>1 DEF PayFromWallet
    <3>4. NoOverdraft'
      BY <3>1, <3>2, <3>3, TurnsHave DEF TurnTables, NoOverdraft, TypeOK
    <3>5. QED
      BY <2>1, <3>4 DEF PayFromWallet
  <2>2. CASE SettleFreeOrder(w) \/ RecordCredit(w)
    BY <2>2, TurnsHave DEF SettleFreeOrder, RecordCredit, purse, TurnTables, NoOverdraft
  <2>3. QED
    BY <2>1, <2>2
<1> HIDE DEF row
<1>6. FirstPayment(o, p, row)
  BY <1>1, <1>2, <1>3, <1>4 DEF FirstPayment
<1>7. SettleWith(o, p, row, total)
  BY <1>2 DEF row
<1>8. /\ order'[o].status = "COMPLETED"
      /\ order'[o].pay = p
      /\ order'[o].promo = order[o].promo
      /\ \A x \in Orders \ {o} : order'[x] = order[x]
  BY <1>1, <1>7, TurnsHave DEF SettleWith, TypeOK, OrderRow
<1>9. TurnTables'
  <2>1. payment' = [payment EXCEPT ![p] = row] /\ PayInvoices(o)
    BY <1>7 DEF SettleWith
  <2>2. TypeOK /\ IInv /\ TurnTables
    BY TurnsHave
  <2>3. QED
    BY <1>1, <1>3, <1>5, <1>6, <1>8, <2>1, <2>2, OrderSettled
<1>10. TurnHandlers'
  BY <1>1, <1>5, TurnsHave, ComesBack
<1>11. QED
  BY <1>9, <1>10, TurnsJoined

\* The payment the gateway has verified.
LEMMA TurnPaid ==
    ASSUME Turns, NEW w \in Workers, CompletePayment(w)
    PROVE  TurnsInv'
<1>0. PICK o \in Orders, p \in Payments : o = worker[w].o /\ p = worker[w].p
  BY HandlerFacts DEF CompletePayment, At, HandlerInv, Holding, GatewayPayment
<1> PICK row : row = [payment[p] EXCEPT !.status = "COMPLETED"]
  OBVIOUS
<1>1. /\ payment[p].status = "PENDING" /\ payment[p].o = o
      /\ order[o].status # "NONE"
      /\ ~At(w, "idle")
  BY <1>0, HandlerFacts DEF CompletePayment, At, HandlerInv, Holding, Verified, Creating,
     GatewayPayment, TurnInv, Closing
<1>2. order[o].status \notin {"NONE", "CANCELLED"}
  BY <1>1, TurnsHave DEF TurnTables, RowsInv
<1>3. row.o = o /\ row.status = "COMPLETED" /\ row.gateway = payment[p].gateway
  BY <1>1, TurnsHave DEF TypeOK, PaymentRow
<1>4. SettleWith(o, p, row, order[o].total) /\ Return(w) /\ UNCHANGED <<wallet, promoUsed>>
  BY <1>0 DEF CompletePayment, purse
<1>5. OpenPaymentPaid(o, p, row)
  BY <1>1, <1>3 DEF OpenPaymentPaid
<1>6. /\ order'[o].status = "COMPLETED"
      /\ order'[o].pay = p
      /\ order'[o].promo = order[o].promo
      /\ \A x \in Orders \ {o} : order'[x] = order[x]
  BY <1>1, <1>4, TurnsHave DEF SettleWith, TypeOK, OrderRow
<1>7. NoOverdraft'
  BY <1>4, TurnsHave DEF TurnTables, NoOverdraft
<1>8. TurnTables'
  <2>1. payment' = [payment EXCEPT ![p] = row] /\ PayInvoices(o)
    BY <1>4 DEF SettleWith
  <2>2. TypeOK /\ IInv /\ TurnTables
    BY TurnsHave
  <2>3. QED
    BY <1>1, <1>2, <1>3, <1>4, <1>5, <1>6, <1>7, <2>1, <2>2, OrderSettled
<1>9. TurnHandlers'
  BY <1>1, <1>4, TurnsHave, ComesBack
<1>10. QED
  BY <1>8, <1>9, TurnsJoined

\* Invoices that are written on their own.
LEMMA TurnInvoicing ==
    ASSUME Turns, NEW w \in Workers,
           InsertInvoice(w) \/ GenerateInvoice(w) \/ MarkOverdue(w)
    PROVE  TurnsInv'
<1> DEFINE o == worker[w].o
<1>1. o \in Orders /\ order[o].status # "COMPLETED" /\ ~At(w, "idle")
  BY HandlerFacts DEF InsertInvoice, GenerateInvoice, MarkOverdue, At, CreatorInv, Creating,
     TurnInv, Unpaid
<1>2. UNCHANGED <<order, payment, wallet, promoUsed>>
  BY DEF InsertInvoice, GenerateInvoice, MarkOverdue, purse
<1>3. TurnTables'
  <2>1. invoice' = invoice \/ \E status \in {"DRAFT", "OVERDUE"} :
                                invoice' = [invoice EXCEPT ![o] = status]
    BY DEF InsertInvoice, GenerateInvoice, MarkOverdue
  <2> HIDE DEF o
  <2>2. QED
    BY <1>1, <1>2, <2>1, TurnsHave, TablesSame, InvoiceWritten
<1>4. CASE Return(w)
  <2>1. TurnHandlers'
    BY <1>1, <1>4, TurnsHave, ComesBack
  <2>2. QED
    BY <1>3, <2>1, TurnsJoined
<1>5. CASE InsertInvoice(w) /\ Goto(w, "commit")
  <2>1. worker[w].row.promo # None => PromoHasUsesLeft'
    BY <1>2, <1>5, HandlerFacts DEF InsertInvoice, At, TurnInv, PromoHasUsesLeft
  <2>2. TurnHandlers'
    BY <1>5, <2>1, TurnsHave, GoesOnTo DEF Steps, Closing, Unpaid
  <2>3. QED
    BY <1>3, <2>2, TurnsJoined
<1>6. CASE GenerateInvoice(w)
  <2>1. Goto(w, "billed") /\ order'[o].status = "PENDING"
    BY <1>2, <1>6, HandlerFacts DEF GenerateInvoice, At, TurnInv, Unpaid
  <2>2. TurnHandlers'
    BY <2>1, TurnsHave, GoesOnTo DEF Steps, Closing, Unpaid
  <2>3. QED
    BY <1>3, <2>2, TurnsJoined
<1>7. QED
  BY <1>4, <1>5, <1>6 DEF InsertInvoice, MarkOverdue

LEMMA TurnCrediting ==
    ASSUME Turns, NEW w \in Workers, CreditWallet(w)
    PROVE  TurnsInv'
<1> DEFINE o == worker[w].o
           u == Owner[o]
           amt == worker[w].row.amt
<1>1. o \in Orders /\ u \in Users /\ amt \in Nat /\ order[o].status = "PENDING"
  BY HandlerFacts, SetsAssumption DEF CreditWallet, At, TurnInv, Unpaid
<1>2. UNCHANGED <<order, invoice, payment, promoUsed>>
  BY DEF CreditWallet, tables
<1>3. CASE u \in Resellers
  <2>1. wallet' = [wallet EXCEPT ![u] = @ + amt] /\ Goto(w, "credited")
    BY <1>3 DEF CreditWallet
  <2>2. TurnHandlers'
    BY <1>1, <1>2, <2>1, TurnsHave, GoesOnTo DEF Steps, Closing
  <2> HIDE DEF o, u, amt
  <2>3. TurnTables'
    BY <1>1, <1>2, <2>1, TurnsHave, WalletCredited
  <2>4. QED
    BY <2>2, <2>3, TurnsJoined
<1>4. CASE u \notin Resellers
  <2>1. Return(w) /\ UNCHANGED wallet
    BY <1>4 DEF CreditWallet, purse
  <2>2. QED
    BY <1>2, <2>1, TurnsHave, ReturnsReading
<1>5. QED
  BY <1>3, <1>4

LEMMA TurnCommitting ==
    ASSUME Turns, NEW w \in Workers, CommitOrder(w) \/ CommitCancel(w)
    PROVE  TurnsInv'
<1>1. TurnTables'
  BY TurnsHave, HandlerFacts, OrderCommitted, OrderCancelled
<1>2. Return(w) /\ ~At(w, "idle")
  BY DEF CommitOrder, CommitCancel, At
<1>3. TurnHandlers'
  BY <1>2, TurnsHave, ComesBack
<1>4. QED
  BY <1>1, <1>3, TurnsJoined

LEMMA TurnsStep ==
    TypeOK /\ IInv /\ TurnsInv /\ TakingTurns /\ TakingTurns' /\ [Next]_vars => TurnsInv'
<1> SUFFICES ASSUME Turns, [Next]_vars PROVE TurnsInv'
  BY DEF Turns
<1>1. ASSUME NEW w \in Workers, Proceed(w) PROVE TurnsInv'
  BY <1>1, TurnReading, TurnQueueing, TurnClosing, TurnOpening, TurnSettling, TurnPaid,
     TurnInvoicing, TurnCrediting, TurnCommitting, TurnFindPayment DEF Proceed
<1>2. ASSUME UNCHANGED <<order, invoice, payment, wallet, promoUsed, worker>>
          PROVE TurnsInv'
  <2>1. TurnHandlers'
    BY <1>2, TurnsHave, LeftAlone DEF TurnHandlers
  <2>2. QED
    BY <1>2, <2>1, TurnsHave, TablesSame, TurnsJoined
<1>3. /\ \A p \in Payments : Capture(p) => TurnsInv'
      /\ \A u \in Users : SetUserFree(u) => TurnsInv'
      /\ UNCHANGED vars => TurnsInv'
  BY <1>2 DEF Capture, SetUserFree, vars, tables, purse
<1>4. QED
  BY <1>1, <1>3, TurnRequest, TurnStartJob, TurnQueueing DEF Next

LEMMA TurnsInit == Init => TurnsInv
<1> SUFFICES ASSUME Init PROVE TurnsInv
  OBVIOUS
<1>1. /\ \A o \in Orders : order[o].status = "NONE" /\ invoice[o] = "NONE"
      /\ \A p \in Payments : payment[p].status = "NONE" /\ payment[p].gateway = "NONE"
      /\ \A w \in Workers : worker[w].pc = "idle"
  BY DEF Init, NoOrder, NoPayment, Idle
<1>2. SettledIsConsistent /\ RowsInv
  BY <1>1 DEF SettledIsConsistent, RowsInv, Internal
<1>3. NoOverdraft
  BY NumbersAssumption DEF Init, NoOverdraft
<1>4. PromoOrders = {}
  BY <1>1 DEF PromoOrders
<1>5. PromoUsesCounted /\ IsFiniteSet(PromoOrders)
  BY <1>4, FS_EmptySet, NumbersAssumption DEF Init, PromoUsesCounted
<1>6. \A o \in Orders : OncePerOrder(o)
  <2> SUFFICES ASSUME NEW o \in Orders PROVE OncePerOrder(o)
    OBVIOUS
  <2>1. ChargesOf(o) = {} /\ ExemptionsOf(o) = {} /\ PendingOf(o) = {}
    BY <1>1 DEF ChargesOf, ExemptionsOf, PendingOf
  <2>2. QED
    BY <2>1 DEF OncePerOrder, AtMostOne
<1>7. \A w \in Workers : TurnInv(w)
  BY <1>1 DEF TurnInv, Unpaid, Closing
<1>8. QED
  BY <1>2, <1>3, <1>5, <1>6, <1>7 DEF TurnsInv

\* A completed order is written by a settlement only, which completes it again.
LEMMA CompletedStep ==
    ASSUME Turns, [Next]_vars, NEW o \in Orders, order[o].status = "COMPLETED"
    PROVE  order'[o].status = "COMPLETED"
<1>1. ASSUME NEW n \in Orders, NEW row, FreshOrder(n), order' = [order EXCEPT ![n] = row]
      PROVE  order'[o] = order[o]
  BY <1>1, TurnsHave DEF FreshOrder, TypeOK
<1>2. ASSUME NEW w \in Workers, Request(w) PROVE order'[o] = order[o]
  BY <1>1, <1>2 DEF Request, CreateOrder, TopupWallet, InitiatePayment, InsertSuccessor,
     RenewOrder, UpgradePlan, ReceiveWebhook, CancelOrder, DunningSweep, tables
<1>3. ASSUME NEW w \in Workers, NEW j \in jobs, StartJob(w, j) PROVE order' = order
  BY <1>3 DEF StartJob, ExpiryCheck, PaymentRetry, DunningEmail, tables
<1>4. ASSUME NEW w \in Workers, CommitOrder(w) \/ CommitCancel(w) PROVE order'[o] = order[o]
  <2>1. worker[w].o \in Orders /\ order[worker[w].o].status # "COMPLETED"
    BY <1>4, HandlerFacts DEF CommitOrder, CommitCancel, At, CreatorInv, Creating,
        TurnInv, Unpaid
  <2>2. QED
    BY <1>4, <2>1, TurnsHave DEF CommitOrder, CommitCancel, TypeOK
<1>5. ASSUME NEW w \in Workers, NEW n, NEW p, NEW row, NEW total, SettleWith(n, p, row,
          total)
      PROVE  order'[o].status = "COMPLETED"
  BY <1>5, TurnsHave DEF SettleWith, TypeOK, OrderRow
<1>6. ASSUME NEW w \in Workers,
             \/ PayFromWallet(w) \/ SettleFreeOrder(w) \/ RecordCredit(w) \/ CompletePayment(w)
      PROVE  order'[o].status = "COMPLETED"
  BY <1>5, <1>6 DEF PayFromWallet, SettleFreeOrder, RecordCredit, CompletePayment
<1>7. ASSUME NEW w \in Workers,
             \/ ValidatePromoCode(w) \/ InsertInvoice(w) \/ TopupExempt(w)
             \/ InitiateTopup(w) \/ CheckExempt(w) \/ FindPending(w) \/ ExpirePrevious(w)
             \/ OpenPayment(w) \/ GatewayRefuses(w) \/ ScheduleExpiryCheck(w)
             \/ ReadBalance(w) \/ CreditWallet(w) \/ \E ok \in BOOLEAN : FindPayment(w, ok)
      PROVE  order' = order
  BY <1>7 DEF ValidatePromoCode, InsertInvoice, TopupExempt, InitiateTopup, CheckExempt,
     FindPending, ExpirePrevious, OpenPayment, GatewayRefuses, ScheduleExpiryCheck,
     ReadBalance, CreditWallet, FindPayment, tables
<1>8. ASSUME NEW w \in Workers,
             \/ RejectAmount(w) \/ DeclinePayment(w) \/ StartDunning(w) \/ GenerateInvoice(w)
             \/ SettleIfExempt(w) \/ ExpirePayment(w) \/ QueueReminder(w)
             \/ QueueNextAttempt(w) \/ MarkOverdue(w) \/ Fail(w)
      PROVE  order' = order
  BY <1>8 DEF RejectAmount, DeclinePayment, StartDunning, GenerateInvoice, SettleIfExempt,
     ExpirePayment, QueueReminder, QueueNextAttempt, MarkOverdue, Fail, tables
<1>9. /\ \A p \in Payments : Capture(p) => order' = order
      /\ \A u \in Users : SetUserFree(u) => order' = order
      /\ UNCHANGED vars => order' = order
  BY DEF Capture, SetUserFree, tables, vars
<1>10. QED
  BY <1>2, <1>3, <1>4, <1>6, <1>7, <1>8, <1>9 DEF Next, Proceed

--------------------------------------------------------------------------------

\* Handlers take turns where there is only one worker.
LEMMA OneWorkerTakesTurns ==
    ASSUME \A v, w \in Workers : v = w
    PROVE  []TakingTurns
<1>1. TakingTurns
  BY DEF TakingTurns
<1>2. QED
  BY <1>1, PTL

\* While handlers take turns, what the one in progress has read stays current and
\* the tables agree, for any number of rows and workers and wherever it breaks off.
THEOREM TurnsInductive == Spec /\ []TakingTurns => []TurnsInv
<1>1. Init => TurnsInv
  BY TurnsInit
<1>2. TypeOK /\ IInv /\ TurnsInv /\ TakingTurns /\ TakingTurns' /\ [Next]_vars => TurnsInv'
  BY TurnsStep
<1>3. QED
  BY <1>1, <1>2, Inductive, PTL DEF Spec

\* While handlers take turns, a customer pays an order once and has it waived once.
THEOREM ChargedOnceInTurns == Spec /\ []TakingTurns => []ChargedOnce
<1>1. TurnsInv => ChargedOnce
  BY AtMostOneCounts DEF TurnsInv, OncePerOrder, ChargedOnce
<1>2. QED
  BY <1>1, TurnsInductive, PTL

\* While handlers take turns, no order has two open payments.
THEOREM OneOpenPaymentInTurns == Spec /\ []TakingTurns => []OneOpenPayment
<1>1. ASSUME NEW o \in Orders
      PROVE  OpenPaymentsOf(o) = PendingOf(o)
  BY DEF OpenPaymentsOf, PendingOf
<1>2. TurnsInv => OneOpenPayment
  BY <1>1, AtMostOneCounts DEF TurnsInv, OncePerOrder, OneOpenPayment
<1>3. QED
  BY <1>2, TurnsInductive, PTL

\* While handlers take turns, no wallet is overdrawn.
THEOREM NoOverdraftInTurns == Spec /\ []TakingTurns => []NoOverdraft
<1>1. TurnsInv => NoOverdraft
  BY DEF TurnsInv
<1>2. QED
  BY <1>1, TurnsInductive, PTL

\* While handlers take turns, a promo code's use count is the number of orders that
\* carry it and are not cancelled, and stays within its limit.
THEOREM PromoUsesCountedInTurns == Spec /\ []TakingTurns => []PromoUsesCounted
<1>1. TurnsInv => PromoUsesCounted
  BY DEF TurnsInv
<1>2. QED
  BY <1>1, TurnsInductive, PTL

\* While handlers take turns, a settled order keeps a completed payment and no
\* invoice that is open.
THEOREM SettledIsConsistentInTurns == Spec /\ []TakingTurns => []SettledIsConsistent
<1>1. TurnsInv => SettledIsConsistent
  BY DEF TurnsInv
<1>2. QED
  BY <1>1, TurnsInductive, PTL

\* While handlers take turns, a completed order is never cancelled or reopened.
THEOREM CompletedStaysInTurns == Spec /\ []TakingTurns => CompletedIsFinal
<1>1. TypeOK /\ IInv /\ TurnsInv /\ TakingTurns /\ TakingTurns' /\ [Next]_vars
      => [\A o \in Orders : order[o].status = "COMPLETED" => order'[o].status = "COMPLETED"]_vars
  BY CompletedStep DEF Turns
<1>2. QED
  BY <1>1, Inductive, TurnsInductive, PTL DEF Spec, CompletedIsFinal

================================================================================
