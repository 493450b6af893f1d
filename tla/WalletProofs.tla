----------------------------- MODULE WalletProofs -----------------------------
(****************************************************************************)
(* The wallets proved, however handlers overlap: a balance is what was      *)
(* credited less the wallet payments on record, and, unless a handler       *)
(* breaks off, every credit has its payment row or is about to get it.      *)
(****************************************************************************)
EXTENDS BillingProofs, FiniteSetTheorems

--------------------------------------------------------------------------------
\* Totals.

LEMMA UnitsMembers ==
    ASSUME NEW amount, NEW S, NEW e
    PROVE  e \in Units(amount, S) <=> \E x \in S : e \in {x} \X (1 .. amount[x])
  BY DEF Units

LEMMA TotalOfNone ==
    ASSUME NEW amount
    PROVE  IsFiniteSet(Units(amount, {})) /\ Total(amount, {}) = 0
<1>1. Units(amount, {}) = {}
  BY DEF Units
<1>2. QED
  BY <1>1, FS_EmptySet DEF Total

LEMMA UnitsSame ==
    ASSUME NEW a, NEW b, NEW S, \A x \in S : a[x] = b[x]
    PROVE  Units(a, S) = Units(b, S)
  BY DEF Units

\* The units of one member.
LEMMA UnitsOfOne ==
    ASSUME NEW x, NEW n \in Nat
    PROVE  IsFiniteSet({x} \X (1 .. n)) /\ Cardinality({x} \X (1 .. n)) = n
<1>1. IsFiniteSet({x}) /\ Cardinality({x}) = 1
  BY FS_Singleton
<1>2. IsFiniteSet(1 .. n) /\ Cardinality(1 .. n) = n
  <2>1. /\ IsFiniteSet(1 .. n)
        /\ Cardinality(1 .. n) = IF 1 > n THEN 0 ELSE n - 1 + 1
    BY FS_Interval
  <2>2. QED
    BY <2>1
<1>3. /\ IsFiniteSet({x} \X (1 .. n))
      /\ Cardinality({x} \X (1 .. n)) = Cardinality({x}) * Cardinality(1 .. n)
  BY <1>1, <1>2, FS_Product
<1>4. QED
  BY <1>1, <1>2, <1>3

LEMMA TotalWithOneMore ==
    ASSUME NEW amount, NEW S, IsFiniteSet(Units(amount, S)), NEW x, x \notin S,
           amount[x] \in Nat
    PROVE  /\ IsFiniteSet(Units(amount, S \cup {x}))
           /\ Total(amount, S \cup {x}) = Total(amount, S) + amount[x]
<1> DEFINE U == Units(amount, S)
           V == {x} \X (1 .. amount[x])
<1>1. Units(amount, S \cup {x}) = U \cup V
  BY UnitsMembers
<1>2. U \cap V = {}
  BY UnitsMembers
<1>3. IsFiniteSet(V) /\ Cardinality(V) = amount[x]
  BY UnitsOfOne
<1>4. Cardinality(U) \in Nat
  BY FS_CardinalityType
<1> HIDE DEF U, V
<1>5. IsFiniteSet(U) /\ Total(amount, S) = Cardinality(U)
  BY DEF U, Total
<1>6. /\ IsFiniteSet(U \cup V)
      /\ Cardinality(U \cup V) = Cardinality(U) + Cardinality(V) - Cardinality(U \cap V)
  BY <1>3, <1>5, FS_Union
<1>7. Cardinality(U \cap V) = 0
  BY <1>2, FS_EmptySet
<1>8. Cardinality(U \cup V) = Cardinality(U) + amount[x]
  BY <1>3, <1>4, <1>6, <1>7
<1>9. QED
  BY <1>1, <1>5, <1>6, <1>8 DEF Total

LEMMA TotalWithOneLess ==
    ASSUME NEW amount, NEW S, IsFiniteSet(Units(amount, S)), NEW x \in S,
           amount[x] \in Nat
    PROVE  /\ IsFiniteSet(Units(amount, S \ {x}))
           /\ Total(amount, S) = Total(amount, S \ {x}) + amount[x]
<1>1. Units(amount, S \ {x}) \subseteq Units(amount, S)
  BY DEF Units
<1>2. IsFiniteSet(Units(amount, S \ {x}))
  BY <1>1, FS_Subset
<1>3. S = (S \ {x}) \cup {x} /\ x \notin S \ {x}
  OBVIOUS
<1>4. Total(amount, (S \ {x}) \cup {x}) = Total(amount, S \ {x}) + amount[x]
  BY <1>2, TotalWithOneMore
<1>5. QED
  BY <1>2, <1>3, <1>4

LEMMA TotalIsNat ==
    ASSUME NEW amount, NEW S, IsFiniteSet(Units(amount, S))
    PROVE  Total(amount, S) \in Nat
  BY FS_CardinalityType DEF Total

--------------------------------------------------------------------------------
\* Which steps write a wallet or insert a payment that does not go through a gateway.

LEMMA PurseStep ==
    ASSUME [Next]_vars
    PROVE  UNCHANGED <<wallet, credited>> \/ \E w \in Workers : PayFromWallet(w) \/ CreditWallet(w)
<1>1. ASSUME NEW w \in Workers, Request(w) PROVE UNCHANGED <<wallet, credited>>
  BY <1>1 DEF Request, CreateOrder, TopupWallet, InitiatePayment, InsertSuccessor,
     RenewOrder, UpgradePlan, ReceiveWebhook, CancelOrder, DunningSweep, purse
<1>2. ASSUME NEW w \in Workers, NEW j \in jobs, StartJob(w, j)
          PROVE UNCHANGED <<wallet, credited>>
  BY <1>2 DEF StartJob, ExpiryCheck, PaymentRetry, DunningEmail, purse
<1>3. ASSUME NEW w \in Workers,
             \/ ValidatePromoCode(w) \/ InsertInvoice(w) \/ CommitOrder(w) \/ TopupExempt(w)
             \/ InitiateTopup(w) \/ CheckExempt(w) \/ FindPending(w) \/ ExpirePrevious(w)
             \/ OpenPayment(w) \/ GatewayRefuses(w) \/ ScheduleExpiryCheck(w) \/ ReadBalance(w)
             \/ \E ok \in BOOLEAN : FindPayment(w, ok)
      PROVE  UNCHANGED <<wallet, credited>>
  BY <1>3 DEF ValidatePromoCode, InsertInvoice, CommitOrder, TopupExempt, InitiateTopup,
     CheckExempt, FindPending, ExpirePrevious, OpenPayment, GatewayRefuses,
     ScheduleExpiryCheck, ReadBalance, FindPayment, purse
<1>4. ASSUME NEW w \in Workers,
             \/ SettleFreeOrder(w) \/ RecordCredit(w) \/ CompletePayment(w) \/ RejectAmount(w)
             \/ DeclinePayment(w) \/ StartDunning(w) \/ CommitCancel(w) \/ GenerateInvoice(w)
             \/ SettleIfExempt(w) \/ ExpirePayment(w) \/ QueueReminder(w)
             \/ QueueNextAttempt(w) \/ MarkOverdue(w) \/ Fail(w)
      PROVE  UNCHANGED <<wallet, credited>>
  BY <1>4 DEF SettleFreeOrder, RecordCredit, CompletePayment, RejectAmount, DeclinePayment,
     StartDunning, CommitCancel, GenerateInvoice, SettleIfExempt, ExpirePayment,
     QueueReminder, QueueNextAttempt, MarkOverdue, Fail, purse
<1>5. /\ \A p \in Payments : Capture(p) => UNCHANGED <<wallet, credited>>
      /\ \A u \in Users : SetUserFree(u) => UNCHANGED <<wallet, credited>>
      /\ UNCHANGED vars => UNCHANGED <<wallet, credited>>
  BY DEF Capture, SetUserFree, purse, vars
<1>6. QED
  BY <1>1, <1>2, <1>3, <1>4, <1>5 DEF Next, Proceed

Inserting(w) == CommitOrder(w) \/ PayFromWallet(w) \/ SettleFreeOrder(w) \/ RecordCredit(w)

\* Any other step leaves every payment's gateway alone, or opens one at a gateway.
LEMMA InternalStep ==
    ASSUME TypeOK, IInv, [Next]_vars, \A w \in Workers : ~Inserting(w),
           NEW p \in Payments, payment'[p].gateway \in Internal
    PROVE  payment[p].gateway \in Internal
<1>1. SUFFICES ASSUME payment' # payment PROVE payment[p].gateway \in Internal
  OBVIOUS
<1>2. PICK w \in Workers :
         \/ ExpirePrevious(w) \/ OpenPayment(w) \/ CompletePayment(w) \/ RejectAmount(w)
         \/ DeclinePayment(w) \/ CommitCancel(w) \/ ExpirePayment(w)
  <2>1. ASSUME NEW w \in Workers, Request(w) PROVE payment' = payment
    BY <2>1 DEF Request, CreateOrder, TopupWallet, InitiatePayment, InsertSuccessor,
       RenewOrder, UpgradePlan, ReceiveWebhook, CancelOrder, DunningSweep, tables
  <2>2. ASSUME NEW w \in Workers, NEW j \in jobs, StartJob(w, j) PROVE payment' = payment
    BY <2>2 DEF StartJob, ExpiryCheck, PaymentRetry, DunningEmail, tables
  <2>3. ASSUME NEW w \in Workers,
               \/ ValidatePromoCode(w) \/ InsertInvoice(w) \/ TopupExempt(w)
               \/ InitiateTopup(w) \/ CheckExempt(w) \/ FindPending(w) \/ GatewayRefuses(w)
               \/ ScheduleExpiryCheck(w) \/ ReadBalance(w) \/ CreditWallet(w)
               \/ \E ok \in BOOLEAN : FindPayment(w, ok)
        PROVE  payment' = payment
    BY <2>3 DEF ValidatePromoCode, InsertInvoice, TopupExempt, InitiateTopup, CheckExempt,
       FindPending, GatewayRefuses, ScheduleExpiryCheck, ReadBalance, CreditWallet,
       FindPayment, tables
  <2>4. ASSUME NEW w \in Workers,
               \/ StartDunning(w) \/ GenerateInvoice(w) \/ SettleIfExempt(w)
               \/ QueueReminder(w) \/ QueueNextAttempt(w) \/ MarkOverdue(w) \/ Fail(w)
        PROVE  payment' = payment
    BY <2>4 DEF StartDunning, GenerateInvoice, SettleIfExempt, QueueReminder,
       QueueNextAttempt, MarkOverdue, Fail, tables
  <2>5. /\ \A q \in Payments : Capture(q) => payment' = payment
        /\ \A u \in Users : SetUserFree(u) => payment' = payment
        /\ UNCHANGED vars => payment' = payment
    BY DEF Capture, SetUserFree, tables, vars
  <2>6. QED
    BY <1>1, <2>1, <2>2, <2>3, <2>4, <2>5 DEF Next, Proceed, Inserting
<1>3. CASE OpenPayment(w)
  BY <1>3 DEF OpenPayment, NewPayment, TypeOK, Online, Internal
<1>4. CASE \/ ExpirePrevious(w) \/ CompletePayment(w) \/ RejectAmount(w)
           \/ DeclinePayment(w) \/ ExpirePayment(w)
  BY <1>4 DEF ExpirePrevious, CompletePayment, RejectAmount, DeclinePayment, ExpirePayment,
     SettleWith, TypeOK, PaymentRow
<1>5. CASE CommitCancel(w)
  BY <1>5 DEF CommitCancel, PendingOf, TypeOK, PaymentRow
<1>6. QED
  BY <1>2, <1>3, <1>4, <1>5

\* No other step makes a wallet payment.
LEMMA WalletRowsStep ==
    ASSUME TypeOK, IInv, [Next]_vars, \A w \in Workers : ~PayFromWallet(w),
           NEW p \in Payments, payment'[p].gateway = "WALLET"
    PROVE  payment'[p] = payment[p]
<1>1. payment[p].gateway \in Internal
  <2>1. CASE \A w \in Workers : ~Inserting(w)
    BY <2>1, InternalStep DEF Internal
  <2>2. ASSUME NEW w \in Workers, CommitOrder(w) \/ SettleFreeOrder(w) \/ RecordCredit(w)
        PROVE  payment[p].gateway = "WALLET"
    <3>1. \/ payment' = payment
          \/ \E q \in Payments : \E o, amt :
                payment' = [payment EXCEPT ![q] =
                               NewPayment(o, "ADMIN_CREDIT", amt, "COMPLETED")]
      BY <2>2 DEF CommitOrder, SettleFreeOrder, RecordCredit, SettleWith
    <3>2. QED
      BY <3>1 DEF NewPayment, TypeOK
  <2>3. QED
    BY <2>1, <2>2 DEF Inserting, Internal
<1>2. QED
  BY <1>1, FinalStep

--------------------------------------------------------------------------------
\* The balance of one wallet.

Balanced(u) ==
    /\ IsFiniteSet(Units(PaymentAmount, WalletPaymentsOf(u)))
    /\ wallet[u] = Opening + credited[u] - SpentBy(u)

LEMMA SpentStep ==
    ASSUME TypeOK, IInv, [Next]_vars, \A w \in Workers : ~PayFromWallet(w),
        NEW u \in Resellers
    PROVE  Units(PaymentAmount, WalletPaymentsOf(u))' = Units(PaymentAmount,
        WalletPaymentsOf(u))
<1>1. ASSUME NEW p \in Payments,
          payment[p].gateway = "WALLET" \/ payment'[p].gateway = "WALLET"
      PROVE  payment'[p] = payment[p]
  BY <1>1, WalletRowsStep, FinalStep DEF Internal
<1>2. WalletPaymentsOf(u)' = WalletPaymentsOf(u)
  BY <1>1 DEF WalletPaymentsOf
<1>3. \A p \in WalletPaymentsOf(u) : PaymentAmount'[p] = PaymentAmount[p]
  BY <1>1 DEF WalletPaymentsOf, PaymentAmount
<1>4. Units(PaymentAmount', WalletPaymentsOf(u)) = Units(PaymentAmount, WalletPaymentsOf(u))
  BY <1>3, UnitsSame
<1>5. QED
  BY <1>2, <1>4

LEMMA CreditedBalance ==
    ASSUME TypeOK, IInv, [Next]_vars, NEW w \in Workers, CreditWallet(w),
           NEW u \in Resellers, Balanced(u)
    PROVE  Balanced(u)'
<1>1. payment' = payment
  BY DEF CreditWallet, tables
<1>2. /\ PaymentAmount' = PaymentAmount
      /\ WalletPaymentsOf(u)' = WalletPaymentsOf(u)
  BY <1>1 DEF PaymentAmount, WalletPaymentsOf
<1>3. /\ Units(PaymentAmount, WalletPaymentsOf(u))' = Units(PaymentAmount,
             WalletPaymentsOf(u))
      /\ SpentBy(u)' = SpentBy(u)
  BY <1>2 DEF SpentBy, Total
<1>4. worker[w].row.amt \in Nat
  BY WorkerFields, OrderFields DEF TypeOK
<1>5. wallet'[u] - wallet[u] = credited'[u] - credited[u]
  BY <1>4, SetsAssumption DEF CreditWallet, purse, TypeOK
<1>6. /\ wallet[u] \in Int /\ wallet'[u] \in Int
      /\ credited[u] \in Int /\ credited'[u] \in Int
  BY <1>4, SetsAssumption DEF CreditWallet, purse, TypeOK
<1>7. SpentBy(u) \in Nat /\ Opening \in Nat
  BY TotalIsNat, NumbersAssumption DEF Balanced, SpentBy
<1>8. wallet[u] = Opening + credited[u] - SpentBy(u)
  BY DEF Balanced
<1>9. wallet'[u] = Opening + credited'[u] - SpentBy(u)'
  BY <1>3, <1>5, <1>6, <1>7, <1>8
<1>10. QED
  BY <1>3, <1>9 DEF Balanced

LEMMA PaidBalance ==
    ASSUME TypeOK, IInv, [Next]_vars, NEW w \in Workers, PayFromWallet(w),
           NEW u \in Resellers, Balanced(u)
    PROVE  Balanced(u)'
<1>1. PICK o \in Orders, due \in Nat :
         /\ o = worker[w].o /\ due = worker[w].row.total
  BY HandlerHasOrder, WorkerFields, OrderFields DEF PayFromWallet, At, TypeOK, IInv,
      HandlerInv, Creating
<1>2. PICK p \in Payments :
         /\ FreshPayment(p)
         /\ payment' = [payment EXCEPT ![p] = NewPayment(o, "WALLET", due, "COMPLETED")]
  BY <1>1 DEF PayFromWallet, SettleWith
<1>3. \A q \in Payments \ {p} : payment'[q] = payment[q]
  BY <1>2 DEF TypeOK
<1>4. payment'[p] = NewPayment(o, "WALLET", due, "COMPLETED")
  BY <1>2 DEF TypeOK
<1>5. p \notin WalletPaymentsOf(u)
  BY <1>2 DEF FreshPayment, WalletPaymentsOf
<1>6. Units(PaymentAmount', WalletPaymentsOf(u)) = Units(PaymentAmount, WalletPaymentsOf(u))
  <2>1. \A q \in WalletPaymentsOf(u) : PaymentAmount'[q] = PaymentAmount[q]
    BY <1>3, <1>5 DEF WalletPaymentsOf, PaymentAmount
  <2>2. QED
    BY <2>1, UnitsSame
<1>7. /\ wallet[u] \in Int /\ credited[u] \in Nat /\ credited' = credited
      /\ Opening \in Nat /\ u \in Users
  BY SetsAssumption, NumbersAssumption DEF PayFromWallet, TypeOK
<1>8. SpentBy(u) \in Nat
  BY TotalIsNat DEF Balanced, SpentBy
<1>9. CASE Owner[o] = u
  <2>1. WalletPaymentsOf(u)' = WalletPaymentsOf(u) \cup {p}
    BY <1>3, <1>4, <1>9 DEF WalletPaymentsOf, NewPayment
  <2>2. PaymentAmount'[p] = due
    BY <1>4 DEF PaymentAmount, NewPayment
  <2>3. /\ IsFiniteSet(Units(PaymentAmount', WalletPaymentsOf(u) \cup {p}))
        /\ Total(PaymentAmount', WalletPaymentsOf(u) \cup {p})
              = Total(PaymentAmount', WalletPaymentsOf(u)) + due
    BY <1>5, <1>6, <2>2, TotalWithOneMore DEF Balanced
  <2>4. SpentBy(u)' = SpentBy(u) + due
    BY <1>6, <2>1, <2>3 DEF SpentBy, Total
  <2>5. wallet'[u] = wallet[u] - due
    BY <1>1, <1>7, <1>9 DEF PayFromWallet, TypeOK
  <2>6. wallet'[u] = Opening + credited'[u] - SpentBy(u)'
    BY <1>7, <1>8, <2>4, <2>5 DEF Balanced
  <2>7. IsFiniteSet(Units(PaymentAmount, WalletPaymentsOf(u))')
    BY <2>1, <2>3
  <2>8. QED
    BY <2>6, <2>7 DEF Balanced
<1>10. CASE Owner[o] # u
  <2>1. WalletPaymentsOf(u)' = WalletPaymentsOf(u)
    BY <1>3, <1>4, <1>5, <1>10 DEF WalletPaymentsOf, NewPayment
  <2>2. Units(PaymentAmount, WalletPaymentsOf(u))' = Units(PaymentAmount,
            WalletPaymentsOf(u))
    BY <1>6, <2>1
  <2>3. SpentBy(u)' = SpentBy(u)
    BY <2>2 DEF SpentBy, Total
  <2>4. wallet'[u] = wallet[u]
    BY <1>1, <1>7, <1>10 DEF PayFromWallet, TypeOK
  <2>5. QED
    BY <1>7, <2>2, <2>3, <2>4 DEF Balanced
<1>11. QED
  BY <1>9, <1>10

LEMMA BalanceStep ==
    ASSUME TypeOK, IInv, [Next]_vars, NEW u \in Resellers, Balanced(u)
    PROVE  Balanced(u)'
<1>1. CASE \E w \in Workers : PayFromWallet(w)
  BY <1>1, PaidBalance
<1>2. CASE \E w \in Workers : CreditWallet(w)
  BY <1>2, CreditedBalance
<1>3. CASE \A w \in Workers : ~PayFromWallet(w) /\ ~CreditWallet(w)
  <2>1. UNCHANGED <<wallet, credited>>
    BY <1>3, PurseStep
  <2>2. Units(PaymentAmount, WalletPaymentsOf(u))' = Units(PaymentAmount,
            WalletPaymentsOf(u))
    BY <1>3, SpentStep
  <2>3. SpentBy(u)' = SpentBy(u)
    BY <2>2 DEF SpentBy, Total
  <2>4. QED
    BY <2>1, <2>2, <2>3 DEF Balanced
<1>4. QED
  BY <1>1, <1>2, <1>3

LEMMA BalanceInit == ASSUME Init, NEW u \in Resellers PROVE Balanced(u)
<1>1. WalletPaymentsOf(u) = {}
  BY DEF Init, NoPayment, WalletPaymentsOf
<1>2. /\ IsFiniteSet(Units(PaymentAmount, WalletPaymentsOf(u)))
      /\ SpentBy(u) = 0
  BY <1>1, TotalOfNone DEF SpentBy
<1>3. wallet[u] = Opening /\ credited[u] = 0 /\ Opening \in Nat
  BY SetsAssumption, NumbersAssumption DEF Init
<1>4. QED
  BY <1>2, <1>3 DEF Balanced

\* However handlers overlap and wherever they break off, a reseller's balance is
\* its opening balance and every credit, less the wallet payments on record:
\* processWalletPayment and creditWallet lose no update and take no money unrecorded.
THEOREM WalletConserved == Spec => []WalletConservation
<1> DEFINE Inv == \A u \in Resellers : Balanced(u)
<1>1. Init => Inv
  BY BalanceInit
<1>2. TypeOK /\ IInv /\ Inv /\ [Next]_vars => Inv'
  BY BalanceStep
<1>3. Inv => WalletConservation
  BY DEF WalletConservation, Balanced
<1> HIDE DEF Inv
<1>4. QED
  BY <1>1, <1>2, <1>3, Inductive, PTL DEF Spec

--------------------------------------------------------------------------------
\* The audit trail of the credits.

\* The handler is not about to record a credit, neither before nor after its step.
Elsewhere(w) ==
    /\ worker[w].pc # "credited"
    /\ worker'[w].pc # "credited"
    /\ \A x \in Workers \ {w} : worker'[x] = worker[x]

LEMMA BecomesElsewhere ==
    ASSUME TypeOK, NEW w \in Workers, ~At(w, "credited"), NEW next, Become(w, next),
           next.pc # "credited"
    PROVE  Elsewhere(w)
  BY DEF Become, TypeOK, Elsewhere, At

LEMMA ReturnsElsewhere ==
    ASSUME TypeOK, NEW w \in Workers, ~At(w, "credited"), Return(w)
    PROVE  Elsewhere(w)
  BY BecomesElsewhere DEF Return, Idle

LEMMA GoesElsewhere ==
    ASSUME TypeOK, NEW w \in Workers, ~At(w, "credited"), NEW step \in Steps \ {"credited"},
           Goto(w, step) \/ Settle(w, step)
    PROVE  Elsewhere(w)
<1>1. worker[w] \in WorkerRow
  BY DEF TypeOK
<1>2. PICK next \in {[worker[w] EXCEPT !.pc = step], [worker[w] EXCEPT !.pc = step,
          !.g = "NONE"]} :
         Become(w, next)
  BY DEF Goto, Settle
<1>3. next.pc = step
  BY <1>1, <1>2 DEF WorkerRow
<1>4. QED
  BY <1>2, <1>3, BecomesElsewhere

\* A request, a job or a step of neither kind leaves the creditors as they are.
LEMMA RequestElsewhere ==
    ASSUME TypeOK, NEW w \in Workers, Request(w)
    PROVE  Elsewhere(w)
<1>1. ASSUME NEW o \in Orders, NEW a \in Amounts, NEW code,
             CreateOrder(w, o, a, code)
      PROVE  Elsewhere(w)
  BY <1>1, BecomesElsewhere DEF CreateOrder, Idle, At
<1>2. ASSUME NEW o \in Orders, NEW a \in Amounts, NEW g \in GatewayChoices,
          TopupWallet(w, o, a, g)
      PROVE  Elsewhere(w)
  BY <1>2, BecomesElsewhere DEF TopupWallet, Idle, At
<1>3. ASSUME NEW o \in Orders, NEW g \in GatewayChoices, InitiatePayment(w, o, g)
      PROVE  Elsewhere(w)
  BY <1>3, BecomesElsewhere, ReturnsElsewhere DEF InitiatePayment, ReadOrder, Idle, At
<1>4. ASSUME NEW o \in Orders, NEW n \in Orders, NEW row, InsertSuccessor(w, o, n, row)
      PROVE  Elsewhere(w)
  BY <1>4, BecomesElsewhere DEF InsertSuccessor, Idle, At
<1>5. ASSUME NEW p \in Payments, NEW accepted \in BOOLEAN, ReceiveWebhook(w, p, accepted)
      PROVE  Elsewhere(w)
  BY <1>5, BecomesElsewhere DEF ReceiveWebhook, Idle, At
<1>6. ASSUME NEW o \in Orders, CancelOrder(w, o) \/ DunningSweep(w, o)
      PROVE  Elsewhere(w)
  BY <1>6, BecomesElsewhere DEF CancelOrder, DunningSweep, Idle, At
<1>7. QED
  BY <1>1, <1>2, <1>3, <1>4, <1>5, <1>6 DEF Request, RenewOrder, UpgradePlan

LEMMA StartElsewhere ==
    ASSUME TypeOK, NEW w \in Workers, NEW j \in jobs, StartJob(w, j)
    PROVE  Elsewhere(w)
<1>1. ASSUME NEW o, NEW step \in Steps \ {"credited"}, At(w, "idle"), RunJob(w, j, o, step)
      PROVE  Elsewhere(w)
  BY <1>1, BecomesElsewhere DEF RunJob, Idle, At
<1>2. QED
  BY <1>1 DEF StartJob, ExpiryCheck, PaymentRetry, DunningEmail, TakeJob, Steps

LEMMA ProceedElsewhere ==
    ASSUME TypeOK, NEW w \in Workers, Proceed(w), ~CreditWallet(w), ~RecordCredit(w)
    PROVE  Elsewhere(w)
<1>1. CASE ValidatePromoCode(w)
  BY <1>1, WorkerFields, BecomesElsewhere, ReturnsElsewhere
     DEF ValidatePromoCode, At, TypeOK, WorkerRow
<1>2. CASE \/ InsertInvoice(w) \/ CommitOrder(w) \/ TopupExempt(w) \/ CheckExempt(w)
           \/ GatewayRefuses(w) \/ ScheduleExpiryCheck(w) \/ ReadBalance(w)
  BY <1>2, GoesElsewhere, ReturnsElsewhere
     DEF InsertInvoice, CommitOrder, TopupExempt, CheckExempt, GatewayRefuses,
     ScheduleExpiryCheck, ReadBalance, At, Steps
<1>3. CASE InitiateTopup(w) \/ OpenPayment(w)
  BY <1>3, BecomesElsewhere, ReturnsElsewhere DEF InitiateTopup, OpenPayment, ReadOrder,
      Idle, At
<1>4. CASE FindPending(w) \/ ExpirePrevious(w)
  <2>1. /\ ~At(w, "credited")
        /\ \/ Goto(w, "charge")
           \/ \E p \in Payments : Become(w, [worker[w] EXCEPT !.pc = "expire", !.p = p])
           \/ Become(w, [worker[w] EXCEPT !.pc = "charge", !.p = None])
    BY <1>4 DEF FindPending, ExpirePrevious, PendingOf, At
  <2>2. /\ \A p \in Payments : [worker[w] EXCEPT !.pc = "expire", !.p = p].pc = "expire"
        /\ [worker[w] EXCEPT !.pc = "charge", !.p = None].pc = "charge"
    BY DEF TypeOK, WorkerRow
  <2>3. QED
    BY <2>1, <2>2, BecomesElsewhere, GoesElsewhere DEF Steps
<1>5. CASE \/ PayFromWallet(w) \/ SettleFreeOrder(w) \/ CompletePayment(w)
           \/ RejectAmount(w) \/ DeclinePayment(w) \/ StartDunning(w) \/ CommitCancel(w)
  BY <1>5, GoesElsewhere, ReturnsElsewhere
     DEF PayFromWallet, SettleFreeOrder, CompletePayment, RejectAmount, DeclinePayment,
     StartDunning, CommitCancel, At, Steps
<1>6. CASE \/ GenerateInvoice(w) \/ SettleIfExempt(w) \/ ExpirePayment(w)
           \/ QueueReminder(w) \/ QueueNextAttempt(w) \/ MarkOverdue(w)
  BY <1>6, GoesElsewhere, ReturnsElsewhere
     DEF GenerateInvoice, SettleIfExempt, ExpirePayment, QueueReminder, QueueNextAttempt,
     MarkOverdue, At, Steps
<1>7. ASSUME NEW amountMatches \in BOOLEAN, FindPayment(w, amountMatches)
      PROVE  Elsewhere(w)
  <2>1. ~At(w, "credited")
    BY <1>7 DEF FindPayment, At
  <2>2. CASE Return(w)
    BY <2>1, <2>2, ReturnsElsewhere
  <2>3. CASE ~Return(w)
    <3>1. PICK q \in Payments, step \in {"declined", "paid", "mismatch"} :
             Become(w, [worker[w] EXCEPT !.pc = step, !.p = q])
      BY <1>7, <2>3 DEF FindPayment, PendingWithRefOf
    <3>2. [worker[w] EXCEPT !.pc = step, !.p = q].pc = step
      BY DEF TypeOK, WorkerRow
    <3>3. QED
      BY <2>1, <3>1, <3>2, BecomesElsewhere
  <2>4. QED
    BY <2>2, <2>3
<1>8. QED
  BY <1>1, <1>2, <1>3, <1>4, <1>5, <1>6, <1>7 DEF Proceed

LEMMA CreditorStep ==
    ASSUME TypeOK, [Next]_vars, \A w \in Workers : ~CreditWallet(w)
        /\ ~RecordCredit(w) /\ ~Fail(w),
           NEW x \in Workers, worker[x].pc = "credited" \/ worker'[x].pc = "credited"
    PROVE  worker'[x] = worker[x]
<1>1. (\E w \in Workers : Elsewhere(w)) \/ worker' = worker
  BY RequestElsewhere, StartElsewhere, ProceedElsewhere DEF Next, Capture, SetUserFree, vars
<1>2. QED
  BY <1>1 DEF Elsewhere

LEMMA CreditorsSame ==
    ASSUME TypeOK, [Next]_vars, \A w \in Workers : ~CreditWallet(w)
        /\ ~RecordCredit(w) /\ ~Fail(w),
           NEW u \in Resellers
    PROVE  Units(CreditAmount, CreditorsOf(u))' = Units(CreditAmount, CreditorsOf(u))
<1>1. CreditorsOf(u)' = CreditorsOf(u)
  BY CreditorStep DEF CreditorsOf, At
<1>2. \A w \in CreditorsOf(u) : CreditAmount'[w] = CreditAmount[w]
  BY CreditorStep DEF CreditorsOf, CreditAmount, At
<1>3. Units(CreditAmount', CreditorsOf(u)) = Units(CreditAmount, CreditorsOf(u))
  BY <1>2, UnitsSame
<1>4. QED
  BY <1>1, <1>3

\* Which steps record an admin credit.
LEMMA CreditRowsStep ==
    ASSUME TypeOK, IInv, [Next]_vars, NEW p \in Payments,
           \A w \in Workers : ~CommitOrder(w) /\ ~SettleFreeOrder(w) /\ ~RecordCredit(w),
           payment[p].gateway = "ADMIN_CREDIT" \/ payment'[p].gateway = "ADMIN_CREDIT"
    PROVE  payment'[p] = payment[p]
<1>1. payment[p].gateway \in Internal
  <2>1. CASE \A w \in Workers : ~Inserting(w)
    BY <2>1, InternalStep DEF Internal
  <2>2. ASSUME NEW w \in Workers, PayFromWallet(w) PROVE payment[p].gateway = "ADMIN_CREDIT"
    <3>1. \E q \in Payments : \E o, amt :
             payment' = [payment EXCEPT ![q] = NewPayment(o, "WALLET", amt, "COMPLETED")]
      BY <2>2 DEF PayFromWallet, SettleWith
    <3>2. QED
      BY <3>1 DEF NewPayment, TypeOK
  <2>3. QED
    BY <2>1, <2>2 DEF Inserting, Internal
<1>2. QED
  BY <1>1, FinalStep

LEMMA CreditRowsSame ==
    ASSUME TypeOK, IInv, [Next]_vars, NEW u \in Resellers,
           \A w \in Workers : ~CommitOrder(w) /\ ~SettleFreeOrder(w) /\ ~RecordCredit(w)
    PROVE  Units(PaymentAmount, CreditPaymentsOf(u))' = Units(PaymentAmount,
        CreditPaymentsOf(u))
<1>1. CreditPaymentsOf(u)' = CreditPaymentsOf(u)
  BY CreditRowsStep DEF CreditPaymentsOf
<1>2. \A p \in CreditPaymentsOf(u) : PaymentAmount'[p] = PaymentAmount[p]
  BY CreditRowsStep DEF CreditPaymentsOf, PaymentAmount
<1>3. Units(PaymentAmount', CreditPaymentsOf(u)) = Units(PaymentAmount, CreditPaymentsOf(u))
  BY <1>2, UnitsSame
<1>4. QED
  BY <1>1, <1>3

\* A payment that is inserted as an admin credit adds its amount to its customer's.
LEMMA CreditRowAdded ==
    ASSUME TypeOK, NEW p \in Payments, FreshPayment(p), payment[p].gateway = "NONE",
           NEW o \in Orders, NEW amt \in Nat,
           payment' = [payment EXCEPT ![p] = NewPayment(o, "ADMIN_CREDIT", amt,
           "COMPLETED")],
           NEW u \in Resellers, IsFiniteSet(Units(PaymentAmount, CreditPaymentsOf(u)))
    PROVE  /\ IsFiniteSet(Units(PaymentAmount, CreditPaymentsOf(u))')
           /\ Total(PaymentAmount, CreditPaymentsOf(u))'
                 = Total(PaymentAmount,
                 CreditPaymentsOf(u)) + (IF Owner[o] = u THEN amt ELSE 0)
<1>1. \A q \in Payments \ {p} : payment'[q] = payment[q]
  BY DEF TypeOK
<1>2. payment'[p] = NewPayment(o, "ADMIN_CREDIT", amt, "COMPLETED")
  BY DEF TypeOK
<1>3. p \notin CreditPaymentsOf(u)
  BY DEF CreditPaymentsOf
<1>4. Units(PaymentAmount', CreditPaymentsOf(u)) = Units(PaymentAmount, CreditPaymentsOf(u))
  <2>1. \A q \in CreditPaymentsOf(u) : PaymentAmount'[q] = PaymentAmount[q]
    BY <1>1, <1>3 DEF CreditPaymentsOf, PaymentAmount
  <2>2. QED
    BY <2>1, UnitsSame
<1>5. CASE Owner[o] = u
  <2>1. CreditPaymentsOf(u)' = CreditPaymentsOf(u) \cup {p}
    BY <1>1, <1>2, <1>5 DEF CreditPaymentsOf, NewPayment
  <2>2. PaymentAmount'[p] = amt
    BY <1>2 DEF PaymentAmount, NewPayment
  <2>3. /\ IsFiniteSet(Units(PaymentAmount', CreditPaymentsOf(u) \cup {p}))
        /\ Total(PaymentAmount', CreditPaymentsOf(u) \cup {p})
              = Total(PaymentAmount', CreditPaymentsOf(u)) + amt
    BY <1>3, <1>4, <2>2, TotalWithOneMore
  <2>4. QED
    BY <1>4, <1>5, <2>1, <2>3 DEF Total
<1>6. CASE Owner[o] # u
  <2>1. CreditPaymentsOf(u)' = CreditPaymentsOf(u)
    BY <1>1, <1>2, <1>3, <1>6 DEF CreditPaymentsOf, NewPayment
  <2>2. Units(PaymentAmount, CreditPaymentsOf(u))' = Units(PaymentAmount,
            CreditPaymentsOf(u))
    BY <1>4, <2>1
  <2>3. Total(PaymentAmount, CreditPaymentsOf(u)) \in Nat
    BY TotalIsNat
  <2>4. QED
    BY <1>6, <2>2, <2>3 DEF Total
<1>7. QED
  BY <1>5, <1>6

\* What was credited is recorded, about to be, or was lost when a handler broke off.
OnRecord(u, lost) ==
    /\ IsFiniteSet(Units(PaymentAmount, CreditPaymentsOf(u)))
    /\ IsFiniteSet(Units(CreditAmount, CreditorsOf(u)))
    /\ credited[u] = lost + Total(PaymentAmount, CreditPaymentsOf(u))
                        + Total(CreditAmount, CreditorsOf(u))

LEMMA TotalsAreNat ==
    ASSUME NEW u \in Resellers, NEW lost \in Nat, OnRecord(u, lost)
    PROVE  /\ Total(PaymentAmount, CreditPaymentsOf(u)) \in Nat
           /\ Total(CreditAmount, CreditorsOf(u)) \in Nat
  BY TotalIsNat DEF OnRecord

\* The wallet is credited: the handler owes the record.
LEMMA CreditGiven ==
    ASSUME TypeOK, IInv, [Next]_vars, NEW w \in Workers, CreditWallet(w),
           NEW u \in Resellers, NEW lost \in Nat, OnRecord(u, lost)
    PROVE  OnRecord(u, lost)'
<1>1. PICK o \in Orders, amt \in Nat : o = worker[w].o /\ amt = worker[w].row.amt
  BY HandlerHasOrder, WorkerFields, OrderFields DEF CreditWallet, At, TypeOK
<1>2. /\ PaymentAmount' = PaymentAmount
      /\ CreditPaymentsOf(u)' = CreditPaymentsOf(u)
  BY DEF CreditWallet, tables, PaymentAmount, CreditPaymentsOf
<1>3. Units(PaymentAmount, CreditPaymentsOf(u))' = Units(PaymentAmount, CreditPaymentsOf(u))
  BY <1>2
<1>4. w \notin CreditorsOf(u)
  BY DEF CreditorsOf, CreditWallet, At
<1>5. \A x \in Workers \ {w} : worker'[x] = worker[x]
  BY DEF CreditWallet, Goto, Return, Become, TypeOK
<1>6. Units(CreditAmount', CreditorsOf(u)) = Units(CreditAmount, CreditorsOf(u))
  <2>1. \A x \in CreditorsOf(u) : CreditAmount'[x] = CreditAmount[x]
    BY <1>4, <1>5 DEF CreditorsOf, CreditAmount
  <2>2. QED
    BY <2>1, UnitsSame
<1>7. u \in Users /\ credited[u] \in Nat
  BY SetsAssumption DEF TypeOK
<1>8. CASE Owner[o] = u
  <2>1. worker' = [worker EXCEPT ![w] = [worker[w] EXCEPT !.pc = "credited"]]
    BY <1>1, <1>8 DEF CreditWallet, Goto, Become
  <2>2. worker'[w].pc = "credited" /\ worker'[w].o = o /\ worker'[w].row.amt = amt
    BY <1>1, <2>1 DEF TypeOK, WorkerRow
  <2>3. CreditorsOf(u)' = CreditorsOf(u) \cup {w}
    BY <1>5, <1>8, <2>2 DEF CreditorsOf, At
  <2>4. CreditAmount'[w] = amt
    BY <2>2 DEF CreditAmount
  <2>5. /\ IsFiniteSet(Units(CreditAmount', CreditorsOf(u) \cup {w}))
        /\ Total(CreditAmount', CreditorsOf(u) \cup {w}) = Total(CreditAmount',
               CreditorsOf(u)) + amt
    BY <1>4, <1>6, <2>4, TotalWithOneMore DEF OnRecord
  <2>6. Total(CreditAmount, CreditorsOf(u))' = Total(CreditAmount, CreditorsOf(u)) + amt
    BY <1>6, <2>3, <2>5 DEF Total
  <2>7. credited'[u] = credited[u] + amt
    BY <1>1, <1>7, <1>8 DEF CreditWallet, TypeOK
  <2>8. Total(PaymentAmount, CreditPaymentsOf(u))' = Total(PaymentAmount,
            CreditPaymentsOf(u))
    BY <1>2
  <2>9. credited'[u] = lost + Total(PaymentAmount, CreditPaymentsOf(u))'
                          + Total(CreditAmount, CreditorsOf(u))'
    BY <2>6, <2>7, <2>8, TotalsAreNat DEF OnRecord
  <2>10. IsFiniteSet(Units(CreditAmount, CreditorsOf(u))')
    BY <2>3, <2>5
  <2>11. QED
    BY <1>3, <2>9, <2>10 DEF OnRecord
<1>9. CASE Owner[o] # u
  <2>1. worker'[w].pc = "credited" => worker'[w].o = o
    BY <1>1 DEF CreditWallet, Goto, Return, Become, Idle, TypeOK, WorkerRow
  <2>2. CreditorsOf(u)' = CreditorsOf(u)
    BY <1>4, <1>5, <1>9, <2>1 DEF CreditorsOf, At
  <2>3. Units(CreditAmount, CreditorsOf(u))' = Units(CreditAmount, CreditorsOf(u))
    BY <1>6, <2>2
  <2>4. credited'[u] = credited[u]
    BY <1>1, <1>7, <1>9 DEF CreditWallet, purse, TypeOK
  <2>5. QED
    BY <1>3, <2>3, <2>4 DEF OnRecord, Total
<1>10. QED
  BY <1>8, <1>9

\* The record is written: what the handler owed becomes a payment.
LEMMA CreditRecorded ==
    ASSUME TypeOK, IInv, [Next]_vars, NEW w \in Workers, RecordCredit(w),
           NEW u \in Resellers, NEW lost \in Nat, OnRecord(u, lost)
    PROVE  OnRecord(u, lost)'
<1>1. PICK o \in Orders, amt \in Nat : o = worker[w].o /\ amt = worker[w].row.amt
  BY HandlerHasOrder, WorkerFields, OrderFields DEF RecordCredit, At, TypeOK
<1>2. PICK p \in Payments :
         /\ FreshPayment(p)
         /\ payment' = [payment EXCEPT ![p] = NewPayment(o, "ADMIN_CREDIT", amt,
                "COMPLETED")]
  BY <1>1 DEF RecordCredit, SettleWith
<1>3. payment[p].gateway = "NONE"
  BY <1>2 DEF FreshPayment, IInv, TablesInv
<1>4. /\ IsFiniteSet(Units(PaymentAmount, CreditPaymentsOf(u))')
      /\ Total(PaymentAmount, CreditPaymentsOf(u))'
            = Total(PaymentAmount, CreditPaymentsOf(u)) + (IF Owner[o] = u THEN amt ELSE 0)
  BY <1>2, <1>3, CreditRowAdded DEF OnRecord
<1>5. \A x \in Workers \ {w} : worker'[x] = worker[x]
  BY DEF RecordCredit, Return, Become, TypeOK
<1>6. worker'[w].pc = "idle"
  BY DEF RecordCredit, Return, Become, Idle, TypeOK
<1>7. CreditorsOf(u)' = CreditorsOf(u) \ {w}
  BY <1>5, <1>6 DEF CreditorsOf, At
<1>8. Units(CreditAmount', CreditorsOf(u) \ {w}) = Units(CreditAmount, CreditorsOf(u) \ {w})
  <2>1. \A x \in CreditorsOf(u) \ {w} : CreditAmount'[x] = CreditAmount[x]
    BY <1>5 DEF CreditorsOf, CreditAmount
  <2>2. QED
    BY <2>1, UnitsSame
<1>9. credited' = credited
  BY DEF RecordCredit, purse
<1>10. CASE Owner[o] = u
  <2>1. w \in CreditorsOf(u) /\ CreditAmount[w] = amt
    BY <1>1, <1>10 DEF CreditorsOf, CreditAmount, RecordCredit
  <2>2. /\ IsFiniteSet(Units(CreditAmount, CreditorsOf(u) \ {w}))
        /\ Total(CreditAmount, CreditorsOf(u))
              = Total(CreditAmount, CreditorsOf(u) \ {w}) + amt
    BY <2>1, TotalWithOneLess DEF OnRecord
  <2>3. /\ IsFiniteSet(Units(CreditAmount, CreditorsOf(u))')
        /\ Total(CreditAmount, CreditorsOf(u))' = Total(CreditAmount, CreditorsOf(u) \ {w})
    BY <1>7, <1>8, <2>2 DEF Total
  <2>4. Total(CreditAmount, CreditorsOf(u) \ {w}) \in Nat
    BY <2>2, TotalIsNat
  <2>5. credited'[u] = lost + Total(PaymentAmount, CreditPaymentsOf(u))'
                          + Total(CreditAmount, CreditorsOf(u))'
    BY <1>4, <1>9, <1>10, <2>2, <2>3, <2>4, TotalsAreNat DEF OnRecord
  <2>6. QED
    BY <1>4, <2>3, <2>5 DEF OnRecord
<1>11. CASE Owner[o] # u
  <2>1. CreditorsOf(u) \ {w} = CreditorsOf(u)
    BY <1>1, <1>11 DEF CreditorsOf
  <2>2. Units(CreditAmount, CreditorsOf(u))' = Units(CreditAmount, CreditorsOf(u))
    BY <1>7, <1>8, <2>1
  <2>3. credited'[u] = lost + Total(PaymentAmount, CreditPaymentsOf(u))'
                          + Total(CreditAmount, CreditorsOf(u))'
    BY <1>4, <1>9, <1>11, <2>2, TotalsAreNat DEF OnRecord, Total
  <2>4. QED
    BY <1>4, <2>2, <2>3 DEF OnRecord
<1>12. QED
  BY <1>10, <1>11

\* An order that costs nothing is settled by an admin credit of nothing.
LEMMA OnRecordWaived ==
    ASSUME TypeOK, IInv, [Next]_vars, NEW w \in Workers,
        CommitOrder(w) \/ SettleFreeOrder(w),
           \A x \in Workers : ~CreditWallet(x) /\ ~RecordCredit(x) /\ ~Fail(x),
           NEW u \in Resellers, NEW lost \in Nat, OnRecord(u, lost)
    PROVE  OnRecord(u, lost)'
<1>1. Units(CreditAmount, CreditorsOf(u))' = Units(CreditAmount, CreditorsOf(u))
  BY CreditorsSame
<1>2. credited' = credited
  BY DEF CommitOrder, SettleFreeOrder, purse
<1>3. PICK o \in Orders : o = worker[w].o
  BY HandlerHasOrder DEF CommitOrder, SettleFreeOrder, At
<1>4. CASE payment' = payment
  <2>1. Units(PaymentAmount, CreditPaymentsOf(u))' = Units(PaymentAmount,
            CreditPaymentsOf(u))
    BY <1>4 DEF PaymentAmount, CreditPaymentsOf
  <2>2. QED
    BY <1>1, <1>2, <2>1 DEF OnRecord, Total
<1>5. CASE payment' # payment
  <2>1. PICK p \in Payments :
           /\ FreshPayment(p)
           /\ payment' = [payment EXCEPT ![p] = NewPayment(o, "ADMIN_CREDIT", 0,
                  "COMPLETED")]
    BY <1>3, <1>5 DEF CommitOrder, SettleFreeOrder, SettleWith
  <2>2. payment[p].gateway = "NONE"
    BY <2>1 DEF FreshPayment, IInv, TablesInv
  <2>3. /\ IsFiniteSet(Units(PaymentAmount, CreditPaymentsOf(u))')
        /\ Total(PaymentAmount, CreditPaymentsOf(u))' = Total(PaymentAmount,
               CreditPaymentsOf(u))
    <3>1. /\ IsFiniteSet(Units(PaymentAmount, CreditPaymentsOf(u))')
          /\ Total(PaymentAmount, CreditPaymentsOf(u))'
                = Total(PaymentAmount,
                CreditPaymentsOf(u)) + (IF Owner[o] = u THEN 0 ELSE 0)
      BY <2>1, <2>2, CreditRowAdded DEF OnRecord
    <3>2. QED
      BY <3>1, TotalsAreNat
  <2>4. QED
    BY <1>1, <1>2, <2>3 DEF OnRecord, Total
<1>6. QED
  BY <1>4, <1>5

LEMMA OnRecordStep ==
    ASSUME TypeOK, IInv, [Next]_vars, \A w \in Workers : ~Fail(w), NEW u \in Resellers,
        NEW lost \in Nat, OnRecord(u, lost)
    PROVE  OnRecord(u, lost)'
<1>1. CASE \E w \in Workers : CreditWallet(w)
  BY <1>1, CreditGiven
<1>2. CASE \E w \in Workers : RecordCredit(w)
  BY <1>2, CreditRecorded
<1>3. CASE \A w \in Workers : ~CreditWallet(w) /\ ~RecordCredit(w)
  <2>1. CASE \E w \in Workers : CommitOrder(w) \/ SettleFreeOrder(w)
    BY <1>3, <2>1, OnRecordWaived
  <2>2. CASE \A w \in Workers : ~CommitOrder(w) /\ ~SettleFreeOrder(w)
    <3>1. /\ Units(CreditAmount, CreditorsOf(u))' = Units(CreditAmount, CreditorsOf(u))
          /\ Units(PaymentAmount, CreditPaymentsOf(u))' = Units(PaymentAmount,
                 CreditPaymentsOf(u))
      BY <1>3, <2>2, CreditorsSame, CreditRowsSame
    <3>2. credited' = credited
      BY <1>3, PurseStep DEF PayFromWallet
    <3>3. QED
      BY <3>1, <3>2 DEF OnRecord, Total
  <2>3. QED
    BY <2>1, <2>2
<1>4. QED
  BY <1>1, <1>2, <1>3

LEMMA OnRecordInit == ASSUME Init, NEW u \in Resellers PROVE OnRecord(u, 0)
<1>1. CreditPaymentsOf(u) = {} /\ CreditorsOf(u) = {}
  BY DEF Init, NoPayment, CreditPaymentsOf, CreditorsOf, At, Idle
<1>2. credited[u] = 0
  BY SetsAssumption DEF Init
<1>3. QED
  BY <1>1, <1>2, TotalOfNone DEF OnRecord

\* A handler that breaks off before it has recorded its credit loses it.
LEMMA OnRecordLost ==
    ASSUME TypeOK, NEW w \in Workers, Fail(w), NEW u \in Resellers, NEW lost \in Nat,
           OnRecord(u, lost)
    PROVE  \E more \in Nat : OnRecord(u, more)'
<1>1. PICK amt \in Nat : amt = worker[w].row.amt
  BY WorkerFields, OrderFields DEF TypeOK
<1>2. /\ UNCHANGED <<payment, credited>>
      /\ worker'[w].pc = "idle"
      /\ \A x \in Workers \ {w} : worker'[x] = worker[x]
  BY DEF Fail, Return, Become, Idle, TypeOK, tables, purse
<1>3. Units(PaymentAmount, CreditPaymentsOf(u))' = Units(PaymentAmount, CreditPaymentsOf(u))
  BY <1>2 DEF PaymentAmount, CreditPaymentsOf
<1>4. CreditorsOf(u)' = CreditorsOf(u) \ {w}
  BY <1>2 DEF CreditorsOf, At
<1>5. Units(CreditAmount', CreditorsOf(u) \ {w}) = Units(CreditAmount, CreditorsOf(u) \ {w})
  <2>1. \A x \in CreditorsOf(u) \ {w} : CreditAmount'[x] = CreditAmount[x]
    BY <1>2 DEF CreditorsOf, CreditAmount
  <2>2. QED
    BY <2>1, UnitsSame
<1>6. CASE w \in CreditorsOf(u)
  <2>1. CreditAmount[w] = amt
    BY <1>1 DEF CreditAmount
  <2>2. /\ IsFiniteSet(Units(CreditAmount, CreditorsOf(u) \ {w}))
        /\ Total(CreditAmount, CreditorsOf(u))
              = Total(CreditAmount, CreditorsOf(u) \ {w}) + amt
    BY <1>6, <2>1, TotalWithOneLess DEF OnRecord
  <2>3. /\ IsFiniteSet(Units(CreditAmount, CreditorsOf(u))')
        /\ Total(CreditAmount, CreditorsOf(u))' = Total(CreditAmount, CreditorsOf(u) \ {w})
    BY <1>4, <1>5, <2>2 DEF Total
  <2>4. Total(CreditAmount, CreditorsOf(u) \ {w}) \in Nat
    BY <2>2, TotalIsNat
  <2>5. Total(PaymentAmount, CreditPaymentsOf(u))' = Total(PaymentAmount,
            CreditPaymentsOf(u))
    BY <1>3 DEF Total
  <2>6. credited'[u] = (lost + amt) + Total(PaymentAmount, CreditPaymentsOf(u))'
                          + Total(CreditAmount, CreditorsOf(u))'
    BY <1>2, <2>2, <2>3, <2>4, <2>5, TotalsAreNat DEF OnRecord
  <2>7. OnRecord(u, lost + amt)'
    BY <1>3, <2>3, <2>6 DEF OnRecord
  <2>8. QED
    BY <2>7
<1>7. CASE w \notin CreditorsOf(u)
  <2>1. Units(CreditAmount, CreditorsOf(u))' = Units(CreditAmount, CreditorsOf(u))
    BY <1>4, <1>5, <1>7
  <2>2. OnRecord(u, lost)'
    BY <1>2, <1>3, <2>1 DEF OnRecord, Total
  <2>3. QED
    BY <2>2
<1>8. QED
  BY <1>6, <1>7

\* As long as no handler has broken off, however they overlap, what was credited to a
\* reseller's wallet is what the ADMIN_CREDIT payments record and what the handlers
\* between creditWallet and its record are about to (completeWalletTopup).
THEOREM CreditsRecorded == Spec /\ []NoneBreaksOff => []CreditsOnRecord
<1> DEFINE Inv == \A u \in Resellers : OnRecord(u, 0)
<1>1. Init => Inv
  BY OnRecordInit
<1>2. TypeOK /\ IInv /\ Inv /\ NoneBreaksOff /\ NoneBreaksOff' /\ [Next]_vars => Inv'
  <2> SUFFICES ASSUME TypeOK, IInv, Inv, NoneBreaksOff', NoneBreaksOff, [Next]_vars
      PROVE Inv'
    OBVIOUS
  <2>1. \A w \in Workers : ~Fail(w)
    BY DEF NoneBreaksOff, Fail
  <2>2. QED
    BY <2>1, OnRecordStep
<1>3. Inv => CreditsOnRecord
  BY TotalsAreNat DEF CreditsOnRecord, OnRecord
<1> HIDE DEF Inv
<1>4. QED
  BY <1>1, <1>2, <1>3, Inductive, PTL DEF Spec

\* However handlers overlap and wherever they break off, a reseller's wallet has been
\* credited at least what its ADMIN_CREDIT payments say: completeWalletTopup may lose
\* the record of a credit, but never records one it has not made.
THEOREM RecordedWasCredited ==
    Spec => [](\A u \in Resellers :
                  credited[u] >= Total(PaymentAmount, CreditPaymentsOf(u)))
<1> DEFINE Inv == \A u \in Resellers : \E lost \in Nat : OnRecord(u, lost)
           Made == \A u \in Resellers :
                       credited[u] >= Total(PaymentAmount, CreditPaymentsOf(u))
<1>1. Init => Inv
  BY OnRecordInit
<1>2. TypeOK /\ IInv /\ Inv /\ [Next]_vars => Inv'
  <2> SUFFICES ASSUME TypeOK, IInv, Inv, [Next]_vars, NEW u \in Resellers
               PROVE  (\E lost \in Nat : OnRecord(u, lost))'
    OBVIOUS
  <2>1. PICK lost \in Nat : OnRecord(u, lost)
    OBVIOUS
  <2>2. CASE \E w \in Workers : Fail(w)
    BY <2>1, <2>2, OnRecordLost
  <2>3. CASE \A w \in Workers : ~Fail(w)
    BY <2>1, <2>3, OnRecordStep
  <2>4. QED
    BY <2>2, <2>3
<1>3. Inv => Made
  BY TotalsAreNat DEF OnRecord
<1> HIDE DEF Inv
<1>4. QED
  BY <1>1, <1>2, <1>3, Inductive, PTL DEF Spec

================================================================================
