# Verification of the hosting backend

TLA+ models, TLC runs and TLAPS proofs for the NestJS backend of this repository
(`src/backend`). The backend sells hosting, domains, mailboxes and certificates: its
handlers write Postgres through Prisma, talk to payment gateways and to
infrastructure providers, and leave slow work to Bull queues in Redis.

## 1. Inventory

The backend is one NestJS process (`docker-compose.yml`, `backend/Dockerfile`); several
requests and queue jobs are in progress at once and their statements interleave at
every `await`. Postgres runs at READ COMMITTED, the schema is pushed with its foreign
keys (`npx prisma db push`), queue jobs are tried three times with exponential backoff
(`app.module.ts`), and Redis may evict keys under memory pressure (`deploy.sh`). There
are no backend tests.

| component | state | operations | talks to | what makes it hard | what makes it correct |
|---|---|---|---|---|---|
| billing | `Order`, `Payment`, `Invoice`, `PromoCode.usedCount`, `Reseller.walletBalanceNpr`, queue `billing-payment` | checkout, top-up, initiate payment, webhook, wallet payment, cancel, renew, upgrade, expiry check, dunning | Khalti, eSewa, hosting and e-mail listeners (`ORDER_PAID`), admin | reads used after an await, repeated and late webhooks, expiry racing settlement, failures between statements | what is paid is settled by a payment, money is conserved, one charge per order, open payments end |
| hosting | `HostingAccount`, queue `hosting-provisioning` | request, approve, reject, provision, suspend, delete, sync, upgrade, remind | Contabo, ResellerClub, Proxmox, CyberPanel | a paid server is created and its id saved later; retries; approval racing rejection; deletion racing provisioning | at most one paid server per account; no server without an account; deleted means cancelled |
| saga | `Saga`, `SagaEvent` | run steps, compensate | callers' step functions, of which this commit has none | nothing meets it as long as `executeSaga` has no caller; for a caller: a failing step, a failing compensation, a crash in between | every executed step is undone, newest first, or the saga completed |
| domain | `Domain`, settings in `ActivityLog` | request, approve, reject, block, transfer, renew, settings, delete | NameSilo, ResellerClub for old domains | the row is claimed, the registrar charged, the row updated; rejections and new requests write by id after a read; refusals that nobody looks at | what is shown as active is held and paid for; a paid name is on record; an uncertain charge is not repeated; a name in use keeps its owner |
| ssl | `SslCertificate`, the files of acme.sh, queue `ssl` | issue, renew, revoke, delete | acme.sh, ResellerClub | renewal after revocation; retried issue; files shared by all rows of a domain | one live certificate per domain; an active one can be downloaded; an issue ends |
| email | `EmailAccount`, queue `email-provisioning` | create, renew, delete, retry | Titan, Google through ResellerClub | retry after the order was already placed; deletion overtaking provisioning | every paid order is on record; cancelled means no longer paid; a deletion ends |
| auth | `User`, tokens | login, refresh, reset, verify, 2FA | e-mail | check, then use, of single-use tokens | a token is used once; suspension is not undone |
| admin, reseller, support, notification, blog, blog-generator, storage, health | rows of their own | single-row reads and writes | | little | |
| frontend | none of record | calls the handlers | backend | | |

The hazards this leads to are listed, each at its line, in `PROJECT.json`.

## 2. Plan

1. **Billing** (done): `Pricing`, `Billing`, `BillingProperties`, `MCBilling`, and the
   proofs `BillingProofs`, `BillingTurnsProofs` and `WalletProofs`.
2. **Servers at Contabo** (done): `PaidServers`, `VpsProvisioning`, `VpsProperties`, `MCVps`,
   and the proofs `VpsProofs`.
3. **Saga** (done): `AllOrNothing`, `Sagas`, `SagaProperties`, proved in `ServicesProofs`.
4. **Domains** (done): `Domains`, `DomainProperties`, and the proofs `DomainProofs`.
5. **Mailboxes, certificates, expiry reminders** (done): `Mailboxes`, `Certificates` and
   `Reminders` over `Handlers` and `JobQueues`, each with its properties and its proofs;
   `Services`, which composes items 3 to 5, and `ServicesProofs`.
6. **Left**: `ORDER_PAID` from billing to hosting, where a listener that fails is only logged
   and there is little to promise.

The project has a dozen runs, each a distinct question. The services of items 3 to 5 share no
state, and `Services` composes them so that every behaviour is one of one service;
`MCServices` checks the composition.

## 3. Billing

### Modules

| module | what it holds |
|---|---|
| `Pricing` | VAT, discounts, order totals and the proration of upgrades, as integers |
| `Billing` | the tables, the queue, the gateways and every handler, as a state machine |
| `BillingProperties` | type invariant, safety, what the wallets owe, the inductive invariants, liveness |
| `MCBilling` | for TLC: symmetry, constant values, and the property of finding 3 |
| `BillingProofs` | theorems: the arithmetic, and what holds whatever interleaves and breaks off |
| `WalletProofs` | theorems: money is neither made nor lost |
| `BillingTurnsProofs` | theorems: what holds while handlers take turns |

### State and actions

`order`, `invoice`, `payment` are tables (a function from row ids; a row whose status is
`"NONE"` has not been inserted), `wallet` and `promoUsed` single columns, `jobs` the queue
`billing-payment`, `captured` what customers have paid at Khalti, `isFree` the
administrator's exemption flag. `credited` and `fails` are history variables.

Each element of `Workers` runs one handler or job at a time. Its record `worker[w]` says at
which database statement it is (`pc`) and what it has read so far (`o`, `p`, `row`, `job`);
what it has read is used later, stale or not, exactly where the code does so. A Prisma
`$transaction([...])` or callback is one action; every statement outside one is an action
of its own. With one worker, handlers take turns (each still goes step by step, so that
it can break off in the middle); with two, they interleave.

| code | actions |
|---|---|
| `createOrder`, `validatePromoCode`, `generateInvoice` | `CreateOrder`, `ValidatePromoCode`, `InsertInvoice`, `CommitOrder` |
| `topupWallet`, `completeWalletTopup`, `creditWallet` | `TopupWallet`, `TopupExempt`, `InitiateTopup`, `CreditWallet`, `RecordCredit` |
| `initiatePayment` | `InitiatePayment`, `CheckExempt`, `FindPending`, `ExpirePrevious`, `OpenPayment`, `GatewayRefuses`, `ScheduleExpiryCheck` |
| `processWalletPayment`, `settleFreeOrder` | `ReadBalance`, `PayFromWallet`, `SettleFreeOrder` |
| `processPaymentWebhook` | `ReceiveWebhook`, `FindPayment`, `CompletePayment`, `RejectAmount`, `DeclinePayment`, `StartDunning` |
| `cancelOrder`, `renewOrder`, `upgradePlan` | `CancelOrder`, `CommitCancel`; `RenewOrder`, `UpgradePlan`, `GenerateInvoice`, `SettleIfExempt` |
| `payment.processor.ts` | `ExpiryCheck`, `ExpirePayment`, `PaymentRetry`, `QueueReminder`, `QueueNextAttempt`, `DunningEmail`, `MarkOverdue` |
| `runDunningSweep`, `setUserFree` | `DunningSweep`, `MarkOverdue`; `SetUserFree` |
| customers at Khalti; failures | `Capture`; `Fail` |

Abstractions, all of data:

- Amounts are whole paisa and rounding is exact; the code keeps rupees as floats.
- Items, addresses, e-mails, events and logs are left out. A customer's exemption, an order's
  amount, total, promo code, and whether it is a top-up are kept.
- There is one promo code, `StoredCode`, and it is valid; a request with another code is answered
  400 and changes nothing. `Codes` are the spellings that customers type. The code keeps the
  spelling on the order (`billing.service.ts:153`), counts a use in upper case (173) and gives it
  back as typed (778), so that a cancelled order gives its use back only if it was typed as the code is
  stored, and the comment at 775, "Restore promo code usage", is true of that spelling only.
  `PromoOrders` therefore counts the cancelled orders of other spellings, too.
- A queue job is named by the payment that caused it. A second job with the same name and
  attempt merges with the first, which has the same effect.
- `DunningSweep` reads and marks one invoice at a time; the code reads a batch and then marks
  them one by one, a sequence of such steps.
- A callback is verified in one step (`ReceiveWebhook`) and its payment row looked up in the next
  (`FindPayment`), so that anything may happen between the two. What the verification may answer is
  `MayAccept`. For Khalti it is Khalti's own answer to a lookup, `completed` only for what was
  captured; a payment still in progress is answered `declined`, as `khalti.service.ts` and the handler
  treat it. For eSewa the code asks nobody (`esewa.service.ts:123-196` checks the callback by
  itself), so a callback of eSewa may be accepted or refused at any time, and nothing is claimed about
  its payments having been made.
- The expiry check's job is delayed by as long as the age it asks for (`payment.processor.ts:299-304`), so
  the guard is always true when the job runs, and is left out.
- Deleting a customer or a reseller is not modelled; nothing in the code does it.
- ConnectIPS is refused by `initiatePayment`; `applyPromoCode` and `markInvoicePaid` have no
  caller; the branch of the dunning job that fails an order cannot be reached, because the
  next attempt is queued only while there is one.

`InvoiceFk` says whether the database enforces `Invoice.orderId -> Order.id`. The deployed
schema does, and then `createOrder` always rolls back (finding 1): with `InvoiceFk = TRUE` no
order is created at checkout at all. The runs about everything that comes after a checkout
take `FALSE`, a database without that key, where the insert over the second connection
succeeds.

### Runs

| run | question | instance |
|---|---|---|
| `billing_serial` | are orders charged and waived once, promo uses counted, wallets covered and settled orders left alone while handlers take turns, even if one breaks off anywhere? | 1 worker, 2 orders, 2 payments, a promo code in two spellings, 1 failure; about 2.6 million states |
| `billing_concurrent` | what holds however the statements of two handlers interleave? | 2 workers, 1 order, 2 payments, no promo code, 1 failure; about 2.1 million states |
| `billing_deployed` | with the deployed schema and no failures: is every credit on record, and does every pending payment end? | 1 worker, 2 orders, fairness; about 0.6 million states |
| `billing_checkout` | (violated) does a checkout create its order in the deployed schema? | finding 1 |
| `billing_overdraft` | (violated) is a prepaid wallet never overdrawn when requests overlap? | finding 2 |
| `billing_topup` | (violated) is a completed top-up credited? | finding 3 |

Bounds. Two payments are what a race over one order needs (two initiations, an expiry and a
re-initiation, a wallet payment against a gateway payment), two orders what a renewal, an
upgrade or the limit of a promo code needs, two workers what a stale read needs. One failure
can hit any handler at any step. `RoomForPayment` accepts a request only while every handler
in progress can still insert a payment row, so that a handler never waits for the bound of the
table. Opening balance 120 against totals of 113 and 57 makes the second payment of a pair the
one that overdraws. Deadlock is checked in every run: a customer's exemption can always be
toggled, so it says only that no step fails to evaluate. `billing_concurrent` has no promo code: none of
its properties speaks of one, and a discount is an amount like any other.

Fairness (`FairSpec`): a handler that has been started goes on (`WF` of its next step; queries
and gateway calls time out), and Bull runs a delayed expiry check some time after its delay
(`SF`, since a free worker comes and goes). Liveness is checked with `MaxFails = 0`: after a
failure between `payment.create` and the queueing of its expiry check nothing ever looks
at the row again, which the code accepts and the hazards list.

What does *not* hold when handlers overlap, and is therefore checked with one worker only:
`ChargedOnce`, `OneOpenPayment`, `NoOverdraft`, `PromoUsesCounted`, `SettledIsConsistent` and
`CompletedIsFinal`. The code reads before its transactions and writes by id inside them,
without locks or conditional updates.

### Proofs

`BillingProofs` proves for every value of the constants (any number of customers, orders,
payments, handlers and failures, with and without the foreign key):

- `TypeCorrect`: `Spec => []TypeOK`;
- `PaidMeansSettledAlways`: a completed order, a paid invoice and a completed payment all lead
  to the payment that settled the order, and an order once settled is never pending again;
- `KhaltiPaymentWasCapturedAlways`: no Khalti payment is completed that Khalti has not captured;
- `InternalPaymentsStay`: an action property, no step changes a wallet or admin-credit payment;
- `HandlersHoldGoodRows`: the inductive invariant itself.

Why an inductive invariant is needed: `PaidMeansSettled` speaks of the tables only, but what a
step does to the tables depends on what its handler read earlier. `IInv` therefore adds what a
handler still holds: an id held across a step (`Holding`) is that of a gateway payment, hence
never an internal one; the order id a checkout is about to insert belongs to that handler alone
(`CreatorInv`); a handler about to complete a Khalti payment has seen it captured, and the payment is
one of its order (`HandlerInv`); pending, captured and queued payments are gateway payments, and
every payment row is of an inserted order (`TablesInv`). The proof has one lemma for each kind of
step: it shows that rows are kept (`RowsKept`: ids never vanish, owners and gateways never change)
and that inserted order rows were unclaimed (`InsertsUnclaimed`), from which most conjuncts follow
for every handler that did not move. `IInv` is also checked by TLC in `billing_concurrent`.

It also proves that VAT is within half a paisa of 13 %, that totals are monotone, and that
the price of an upgrade lies between zero and the new plan's price.

`WalletProofs` proves, for all amounts and however handlers interleave:

- `WalletConserved`: a wallet is its opening balance and its credits less exactly the wallet
  payments on record, also when it is overdrawn and when handlers break off;
- `CreditsRecorded`: `Spec /\ []NoneBreaksOff => []CreditsOnRecord`. A credit and its record
  are two transactions, so a handler that breaks off between them leaves a credit without one:
  the hypothesis cannot be dropped (`NoneBreaksOff` says `fails = 0`);
- `RecordedWasCredited`: what remains without it, no top-up is on record that was not credited.

`Total` adds amounts up by counting: it is the cardinality of a set with as many elements for each
row as its amount. No recursion is involved, so the finite set theorems suffice: a row that
comes into a set adds its amount (a disjoint union), a row that stays as it is changes nothing.
`Balanced` says of one reseller that the sum of its wallet payments is finite and matches the
balance; `OnRecord` the same of credits, with what handlers that broke off have lost as a third
summand, which makes it inductive without hypothesis. Each is preserved because a step inserts
or settles at most one payment, in the step that changes the balance or ends the handler's claim.

`BillingTurnsProofs` proves `Spec /\ []TakingTurns => []Inv` for `ChargedOnce`, `OneOpenPayment`,
`NoOverdraft`, `PromoUsesCounted` and `SettledIsConsistent`, and the action property
`CompletedIsFinal`. `TakingTurns` (at most one handler is in progress) is a hypothesis about the
behaviour, not about the constants: with any number of workers it covers every behaviour in which
requests and jobs come one after the other, and wherever they break off. `OneWorkerTakesTurns`
shows that it holds of every behaviour with one worker, the instance of `billing_serial`;
`billing_overdraft` shows that it cannot be dropped. None of the six is inductive, since
what a transaction does to a row depends on what its handler read before. `TurnsInv` says
that it is still so (`TurnInv`): the order a handler is about to charge is open, without charge and
without an open payment, the payment it is about to complete or expire is pending, the balance
covers the total, the promo code has uses left. `OncePerOrder` and `RowsInv` add that an open
payment excludes a charge, that an open invoice or payment belongs to an order that has not
been cancelled, and that internal payments are complete. A handler that is not moving is
idle, so every conjunct is shown for the one that moves. `TurnsInv` uses `IInv`, and TLC
found it invariant on the instance of `billing_serial` before it was proved.

The assumptions are those named in `Pricing` and `Billing`: constants are sets and naturals of
the right kind, `None` is none of the values it stands in for, and the dunning schedule has more
than one step. Only model-checked: `PendingIsResolved`, for it is liveness, and the three runs
with findings.

### Findings

1. `createOrder` inserts its invoice over another connection than the transaction that inserts the
   order; with the schema's foreign key it always rolls back (`billing.service.ts:179`,
   `invoice.service.ts:95`).
2. A wallet's balance is checked before the transaction that decrements it without condition
   (`billing.service.ts:532`, `544`).
3. A top-up that is paid, rather than waived, completes without crediting the wallet
   (`billing.service.ts:561`, `683`); a renewed top-up of an exempt customer is settled for
   free (`923`), which the comment at 1066 rules out.

## 4. Servers at Contabo

### Modules

| module | what it holds |
|---|---|
| `PaidServers` | abstract: a server is paid for once its request is approved, and only once |
| `VpsProvisioning` | the accounts, Contabo, the queue and the handlers, as a state machine |
| `VpsProperties` | type invariant, safety, the refinement mapping, the inductive invariant, liveness |
| `MCVps` | symmetry and constant values for TLC |
| `VpsProofs` | theorems |

### State and actions

`account` is the table of hosting accounts that run on a Contabo server: `Wordpress` are sites
with a server of their own, the others virtual servers. Of a row it keeps the status, the
server's id (`proxmoxVmId`, and the instance id in a site's metadata) and what the column
`cpanelPasswordEncrypted` holds: a request with the customer's credentials, the metadata of an
instance, or neither, and whether an upgrade is pending in it. `instance` is what Contabo has
created and for whom, `job` the queue `hosting-provisioning` with tries and stalls. `approved` and
`rejected` are history variables. Workers are as in billing: every statement and every call to
Contabo is a step, and `worker[w]` holds what has been read.

| code | actions |
|---|---|
| `createVps` | `CreateVps` |
| `approveVps`, `enqueueVpsProvisioning` | `ApproveVps`, `ClaimApproval`, `ReleaseClaim`, `QueueProvisioning` |
| `rejectVps` | `RejectVps`, `CommitReject` |
| `createWebsite` on a Contabo server | `CreateWebsite`, `QueueProvisioning` |
| `suspendHosting`, `unsuspendHosting` | `SuspendHosting`, `UnsuspendHosting` |
| `deleteHosting` | `DeleteHosting`, `QueueDeprovision`, `CancelAccount` |
| `syncVpsFromContabo`, `upgradeVps`, `reinstallVps` | `SyncVps`, `CommitSync`; `UpgradeVps`, `CommitUpgrade`; `ReinstallVps`, `StartReinstall`, `EndReinstall` |
| job `provision-vps-contabo` | `StartProvision`, `CreateInstance`, `CreateInstanceFails`, `SaveInstance`, `ReadPendingUpgrade`, `ActivateVps`, `FailProvision` |
| job `provision-wordpress-contabo` | the same, with `BootInstance`, `PanelReady`, `PanelNotReady`, `ActivateWebsite` |
| job `deprovision-hosting` | `StartDeprovision`, `CancelInstance`, `MarkDeleted` |
| Bull's timeout; failures | `TimeOut`; `Fail` |

Abstractions:

- `suspendHosting` and `unsuspendHosting` are one step: what they read before their write decides
  only whether they write a value that is there already.
- The reads with which the other handlers start are merged with the first of them; no
  statement of the handler lies between. A lookup at Contabo that fails ends a sync, an upgrade or
  a reinstallation without a change, which is the handler not having started.
- An answer to `createInstance` that names no instance (`provisioning.processor.ts:538`, `551`, `610`)
  is a server whose id is never saved, and falls under `LosesServers` below: a virtual server's job
  then goes on without an id and activates the account, a site's job fails when it asks for the
  instance. `FailProvision` is the `catch` of both jobs: 631-658 suspends the account and drops its
  request, 835-847 puts a site back to `PENDING_SETUP`.
- A sync learns from Contabo whether the instance runs and whether an upgrade has been applied;
  both are free choices.
- A request to create an account finds its row not yet inserted. Plans, prices, disks, addresses
  and mails are left out, and so are accounts on Proxmox, ResellerClub and CyberPanel, snapshots
  and backups.
- A process that dies leaves its jobs active; Bull's check for stalled jobs makes each wait again
  once, and fails it the second time. `Fail` covers this and a query that throws, which inside the
  `try` of a provisioning job leads to its `catch`.

`LosesServers` says whether a job may break off, or lose Contabo's answer, between the creation of
a server and the saving of its id. Nothing in the code closes this window; what it promises it promises
outside it.

### Runs

| run | question | instance |
|---|---|---|
| `vps_turns` | while handlers take turns: is a rejected request never served, are credentials purged, does provisioning end? | a virtual server and a site, 1 worker, 2 servers, 2 jobs, a site's job run up to twice, lost servers, fairness; about 0.53 million states |
| `vps_overlap` | however two handlers interleave: is nothing paid before approval, nothing approved twice, no approved request paid for twice? | 1 virtual server, 2 workers, 2 servers, 2 jobs, each run up to twice, 1 failure; about 0.78 million states |
| `vps_deleted` | (violated) does a deleted account have no running server? | finding 4 |

`vps_overlap` checks that `VpsProvisioning` implements `PaidServers`, with `stage` an
account's request as far as it has got and `bought` the servers ever created for it. Every
step of the detailed machine is one of `Request`, `Approve` and `Buy`, or a stutter. What makes it
true is spread over four places of the code: the compare-and-swap of `approveVps`, the guard at
the start of the job, the early saving of the server's id, and a `catch` that leaves the account
in a status that nobody can approve again.

Bounds. Two servers are what a second purchase needs, two jobs a provisioning overtaken by a
deletion, two workers a stale approval or sync. The code has Bull try a virtual server's
job three times and a site's twice; two tries of a virtual server's job, in the run with
failures, let an attempt fail before, and after, its server exists, and a third repeats
them. In `vps_turns` servers and job slots are used in a fixed order (`NamesInOrder`): they are
interchangeable, and symmetry is unsound for liveness. A request that queues a job is accepted only while every handler in progress can still
queue one (`RoomForJob`). Fails is one: a failure at any step of any handler.

Fairness (`FairSpec`): a handler that has been started goes on, and Bull runs a waiting job (`SF`,
since a free worker comes and goes). `ProvisioningEnds` is checked with `MaxFails = 0`: an approval
that dies after its claim and before it queues the job leaves the account in `PROVISIONING` for
good (hazards). It is checked with handlers taking turns, and includes retries, time-outs and
servers Contabo created without an answer. `RejectedGetsNothing` and `CredentialsPurged` do not
hold when handlers overlap: `rejectVps` writes by id after a read, and a sync writes back the column
it has read.

### Proofs

`VpsProofs` proves for every value of the constants (any number of accounts of both kinds,
servers, jobs, attempts, handlers and failures):

- `TypeCorrect`: `Spec => []TypeOK`;
- `NoServerUnapprovedAlways` and `ApprovedLeavesTheQueueAlways`: the two invariants, whether or not
  servers are lost;
- `PaidOnce`: `Spec => ImplementsPaidServers` when `LosesServers` is `FALSE`;
- `RejectedGetsNothingInTurns`: `Spec /\ []TakingTurns => []RejectedGetsNothing`, also when handlers
  break off and servers are lost;
- `CredentialsPurgedInTurns`: `Spec /\ []TakingTurns /\ []NoneBreaksOff => []CredentialsPurged`.

The argument follows a token. An approval is the only step that makes a provisioner for a virtual
server, first a handler about to queue the job and then the job; `OneProvisioner` says there is at
most one, which holds because the compare-and-swap succeeds only while the request waits, and an
approved request never waits again (`AccountInv`). That in turn needs that nobody writes
`PENDING_SETUP`, or the status it has read, over an approved row: a sync, an upgrade and a
reinstallation find a server's id only on approved rows, and an approval that read the row after
its request was gone never gets to release it (`HandlerInv`). A job is run by one handler at
a time (`OneHandlerEach`; only a site's job times out while its handler goes on). `ServersKnown`
adds, when no server is lost, that a server is on its row or in the hands of the handler about
to save it, and that a handler about to create one has found none. Creation is then `Buy` with
nothing bought before; the claim is `Approve`; everything else stutters.

The last two need invariants of their own, which TLC checked on the instance of `vps_turns` first
(`RejectedInv` also with failures). `RejectedInv`: what is rejected was not approved and no longer
waits, and a handler about to reject a request still finds it unapproved; with
`NoServerUnapproved` there is then no server for it. `PurgeInv`: a row that has a server's id
and still holds the request is in the hands of the handler that provisions it, and neither
a sync nor an upgrade has read the request. The hypotheses are about behaviours, as in billing: a
rejection overlapping an approval, and a handler that breaks off between saving the id and
activating the account, do violate the two.

The assumptions are those named in `VpsProvisioning`: `None` is no account, server or job, and the
numbers are naturals. Only model-checked: `ProvisioningEnds`, for it is liveness.

### Finding

4. A deletion queues its deprovisioning job with the server's id as it is then. When provisioning is
   still waiting there is none; the provisioning job does not ask whether the account was
   cancelled, creates the server, and the other job marks the account `DELETED`
   (`hosting.service.ts:1364`).

## 5. Domains, mailboxes, certificates, reminders, sagas

These services share no tables and no queue. Each is a module with a state of its own;
`Handlers` and `JobQueues` hold what they have in common: handlers that advance from one `await`
to the next, and a Bull queue whose jobs are tried `Attempts` times.

### Modules

| module | what it holds |
|---|---|
| `Domains`, `DomainProperties`, `DomainProofs` | one name: its row, NameSilo, the handlers of `domain.service.ts` |
| `Mailboxes`, `MailboxProperties`, `MailboxProofs` | one account: its row, its orders, the queue `email-provisioning` |
| `Certificates`, `CertificateProperties`, `CertificateProofs` | the certificates of one domain, the files of acme.sh, the queue `ssl` |
| `Reminders`, `ReminderProperties` | expiry reminders of servers: sweeps, the listener, the mail service |
| `AllOrNothing`, `Sagas`, `SagaProperties` | one saga, and the transaction it implements |
| `Services` | the composition: one of the services moves and the others rest; fairness |
| `ServicesProofs` | theorems about sagas, reminders and the composition |
| `MCServices` | for TLC: symmetry, and how far certificates and settings are followed |

### State and actions

| code | actions |
|---|---|
| `requestDomainRegistration` | `RequestRegistration`, `VerifyAvailable`, `ParkRequest` |
| `approveDomainRegistration`, `markRegistrationRejected` | `ClaimRegistration`, `Reverify`, `ReverifyFails`, `RegisterDomain`, `RegistrationRefused`, `RegistrationUnanswered`, `MarkRejected`, `MarkRejectedFails`, `ReleaseRegistration`, `ActivateDomain`, `LockDomain` |
| `rejectDomainRegistration` | `RejectRegistration`, `CommitRejection` |
| `renewDomain`, bulk renew | `RenewDomain`, `RenewAtRegistrar`, `RenewalRefused`, `SaveRenewal` |
| `getDomain` | `GetDomain`, `CompareExpiry`, `SyncExpiry` |
| `toggleLock`, `togglePrivacy`, `toggleAutoRenew`, `updateNameservers`, bulk lock and unlock | `ToggleSetting`, `ApplySetting`, `SettingRefused`, `SettingFails`, `SaveSetting` |
| `initiateDomainTransfer`, `getTransferStatus`, `cancelTransfer`, bulk delete | `InitiateTransfer`, `TransferDomain`, `TransferRefused`, `CreateTransfer`; `GetTransferStatus`, `CheckTransfer`, `CompleteTransfer`; `CancelTransfer`, `DeleteDomain`, `MarkDeleted` |
| `blockDomain` | `BlockDomain`, `RegisterBlocked`, `BlockRefused`, `CreateBlocked`, `LockDomain` |
| the rest of the world; failures | `TakenElsewhere`, `TransferArrives`, `TransferDenied`; `Fail` |
| `createEmailAccount`, `deleteEmailAccount`, `renewEmail` | `CreateEmailAccount`, `QueueMailbox`; `DeleteEmailAccount`, `SuspendMailbox`, `DeleteMailOrder`, `MailOrderNotDeleted`, `QueueDeletion`, `CancelMailbox`, `CancellationFails`; `RenewEmail`, `RenewMailOrder`, `SaveMailRenewal` |
| jobs `provision-email`, `provision-gworkspace`, `deprovision-email` | `TakeMailJob`, `PlaceOrder`, `OrderFails`, `CreateTitanMailbox`, `ProvisioningFails`, `SaveMailOrder`, `GiveUpProvisioning`, `RetryMailJob`; `DeleteQueuedOrder`, `QueuedOrderNotDeleted`, `CancelQueued`, `QueuedCancellationFails` |
| `issueCertificate`, `renewCertificate`, `revokeCertificate`, `deleteCertificate` | `IssueCertificate`, `CreateCert`, `QueueIssue`; `RenewCertificate`, `QueueRenewal`; `RevokeCertificate`, `RevokeAtAcme`, `MarkRevoked`; `DeleteCertificate`, `UnlinkFiles`, `RemoveCert` |
| jobs `issue-ssl`, `renew-ssl` | `TakeIssue`, `AcmeIssue`, `AcmeSkips`, `IssueFails`, `CertNotSaved`, `ActivateCert`, `SaveCertOrder`, `CancelCert`, `RetryCertJob`; `TakeRenewal`, `RenewCert`, `RenewalFails`, `SaveCertRenewal` |
| `runExpiryReminderSweep`, `onExpiryReminder`, `dispatch` | `StartSweep`, `ClaimReminder`, `EndSweep`; `MailReminder`, `ReminderNotMailed` |
| `executeSaga`, `runCompensation` | `StartSaga`, `BeginStep`, `ExecuteStep`, `RecordStep`, `StepFails`, `CompleteSaga`, `FailSaga`; `Compensate`, `BeginUndo`, `UndoStep`, `UndoFails`, `RecordUndoFails`, `NextUndo`, `FinishCompensation`; `BreakOff` |

Abstractions:

- Names do not interact, and neither do email accounts, sagas, or certificates of different domains:
  each module has one of them. A name has at most one row, for `domainName` is unique.
- Terms count in years from now. A domain's row starts at one year after its registration; what
  an automatic renewal at the registrar adds is a renewal like any other.
- `set` holds what the row and the registrar both keep: lock, privacy, automatic renewal, name
  servers. The row keeps up to 13 name servers and NameSilo is sent the first four
  (`domain.service.ts:536-545`, `1156-1175`): `default` are the platform's, `own` up to four of the
  customer's, `longer` the same with more behind them, and `Sent` is what NameSilo is told of each. Contacts, DNS records, forwards and prices are left
  out, and so are the ResellerClub fallbacks, which serve rows with an order id from before the
  move to NameSilo.
- A customer's request for a block registration is modelled for the name at hand, which is one of
  the top-level domains that the code loops over.
- A call that fails, an answer that is lost, and a handler that breaks off each use up one of
  `MaxFaults`; refusals that the provider answers do not. Refusals that depend on what is modelled
  (a name that is taken, an order that is gone) happen exactly then; others are free choices.
- acme.sh keeps one set of files under the domain's name (`onDisk`), and knows the domain by a file
  of its own (`known`). What it says of a domain that it knows, that it skips it, is taken for a success
  without a look at the files (`acme.service.ts:85-93`). A deletion removes the certificate's files and
  not that one (`ssl.service.ts:250-253`), so a certificate that is issued, deleted and issued again can
  be active without files (`AcmeSkips`; the history `skipped`). A revocation, `acme.sh --revoke`, keeps
  that file, too.
- The update that shows an issue as failed may fail itself and is then only logged
  (`ssl.processor.ts:131`): `CancelCert`, with the history `unshown`.
- `CANCELLED` is written inside the `try` of `deleteEmailAccount` and of its job, so a failure of that update
  has the order, which is gone by then, deleted once more (`CancellationFails`, `QueuedCancellationFails`).
- `SagaModule` is imported by `app.module.ts` and by nothing else, no service injects the
  orchestrator, and `executeSaga` has no caller in the repository. `Sagas` models what it would do for
  any caller's steps; no handler of this commit runs it, and no hazard is listed for it.
- A try of a mailbox job knows nothing of the ones before it, since the job's data never change.
- Histories (`stray`, `unsettled`, `lostOrders`, `abandoned`, `revived`, `wiped`, `skipped`, `unshown`,
  `kept`, `unrecorded`) record where the code gives something up, so that a property can say that it
  happens nowhere else. `crowded` records that two handlers have overlapped.

### Runs

| run | question | instance |
|---|---|---|
| `services_overlap` | do the rows say what registrar and providers were paid for, however two handlers interleave, and, where noted, while they take turns? | 2 workers and 1 failure; 2 customers, the settings `lock` and `nameservers`, 2 years; 2 orders, 2 jobs, 2 tries; 2 certificates; 2 servers; a saga of 3 steps with any failures; about 0.6 million states |
| `services_live` | do approvals, deletions and issues end? | 2 workers, 1 customer, `autoRenew`, 1 job slot, 2 tries, 1 certificate, 1 failure, fairness; about 0.1 million states |
| `reminder_lost` | (violated) is a reminder that could not be mailed sent again? | finding 5 |

What holds however handlers overlap and break off:
`ActiveIsHeld` (an active row stands for a name in the platform's account),
`ExpiryNeverAhead` (it never promises years that were not paid for),
`ClaimsEnd` (a claimed request is being approved, or left for reconciliation),
`OrdersOnRecord` (a paid mailbox order is on its row, being saved, or lost by a failed try),
`ActiveIsReadable` (an active Let's Encrypt certificate has its files, unless another row's deletion
or revocation took them, acme.sh skipped an issue, or a handler broke off), `RemindedOnce`, and of sagas `StatusIsTrue` and `ImplementsAllOrNothing`.

What holds only while handlers take turns, because the code reads and then writes by id:
`OwnerKept`, `NeverRequeued`, `PaidIsOnRecord`, `SettingsAgree` (NameSilo has what it is told of a
registered name's row, which also needs that no call has failed), `CancelledIsDeleted`, `ActiveIsServed`, `OneLiveCert`. Each has the
condition in its definition, so that the run explores what overlaps as well.

Bounds. Two workers are what a stale read needs, two customers a change of owner, two
years a renewal on top of another, two orders a job's second order, two certificates a duplicate. A
second failure only repeats what the first has shown, and a handler that broke off leaves a
state like any other. A request that inserts a row or queues a job is accepted only while every
handler in progress can still do so (`Room`, `RoomForCert`), so that no handler waits for a bound. One
renewal of a certificate is queued at a time (`RenewalUnderWay`). Certificates are
followed no further once handlers have overlapped and files have been wiped (`FilesAtStake`): both of their properties
exclude whatever comes then, and the proofs cover their types. Likewise, a name with other than the
platform's name servers is followed no further once `SettingsAgree` says nothing of it any more
(`SettingsAtStake`); no guard depends on a name server. Deadlock is not checked: a
saga ends, and names, orders and certificates run out.

Fairness (`FairServicesSpec`): a handler that has been started goes on (`WF`): axios gives up on a
registrar after 30 seconds, acme.sh is stopped after five minutes. Bull runs a waiting job
(`SF`, since a free worker comes and goes). Liveness is checked with failures: `ApprovalEnds`
up to an approval in doubt, which the code leaves to an administrator, `DeletionEnds` up to the last
try of its job, `IssuanceSettles` up to a process that dies,
or an update showing the failure that fails, too.

### Proofs

`ServicesProofs` proves of the composition `EachServiceOnItsOwn`: its behaviours satisfy the
specification of each of the five services, so what is proved of a service holds in the composition
that the runs check; and from it `ServicesTypeCorrect` (`ServicesTypeOK`).

Of sagas it proves, for any number of steps and wherever steps, compensations and writes fail:
`SagaTypeCorrect`, `SagaTellsTheTruth` (`StatusIsTrue`), `CompensatesInReverse` (`NewestFirst`: no step is
undone before every later one has been, or has been given up), and `SagaIsAllOrNothing`, the
refinement: with `applied` the recorded steps neither undone nor given up, every step of the
orchestrator is `Apply`, `Commit`, `Abort`, `Revoke`, `Aborted` or a stutter. `SagaInv` says for each
place of the program which steps are in effect: on the way forward exactly those before the current
one (`GoingForward`), after a failure at least the recorded ones (`GivingUp`), on the way back
those still to come, those given up and those nobody knows of (`GoingBack`).

`DomainProofs` proves, for any number of customers, handlers, settings, years and failures:
`DomainsCorrect` (type and `DomainInv`), `ActiveDomainsAreHeld`, `TermsArePaidFor`, `ClaimsAreKept`,
and while handlers take turns `PaymentsAreOnRecord`, `SettingsAreInStep`, `OwnersKeepTheirNames` and
`InDoubtIsNotRequeued`. `DomainInv` has two halves. `BehindRegistrar` holds always: what a handler has read of
an expiry is at most the registrar's, which only grows, so that whatever is written back later is
paid for, however stale; and a handler about to write `ACTIVE` has seen the registrar take the
name, which it never gives back. Under `~crowded` at most one handler is in progress (`OneAtATime`),
the row is still as it has read it (`ReadsAreFresh`), and the registrar's settings differ from what it is
told of the row's (`Told`) only between a handler's two writes (`InStep`). The proof has a lemma for the effect of each action, and one for each
conjunct with a step for each action.

`MailboxProofs` proves, for any number of handlers, jobs, tries, orders and failures:
`MailTypeCorrect`, `OrdersStayOnRecord`, and while handlers take turns `CancelledMailIsDeleted` and
`ActiveMailIsServed`. None of the three is inductive. `MailInv` adds that a job runs in
one handler and is of that handler's kind (`JobsInHand`), that an account is provisioned by
one handler and then one job as long as its row has no order (`OneProvisioning`), so that
`SaveMailOrder` never overwrites an order, that everybody else holds the row's own order
(`OrdersInHand`), and, under `~mailCrowded`, that the handler in progress still finds the account as it has
read it (`MailTurns`).

`CertificateProofs` proves, for any number of rows, handlers, jobs, tries and failures:
`CertTypeCorrect`, `ActiveCertIsReadable`, and while handlers take turns `OneCertIsLive`. `CertInv` adds
that jobs and handlers are on rows that have been created (`CertJobsInHand`, `CertsInHand`), so that a
new row is in nobody's hands, that a Let's Encrypt row never has an order (`OnlyResellerOrders`), so that its
renewal leaves files, that whoever is about to make one active has them unless they were
wiped or the issue skipped (`FilesInHand`), and that a row is about to be created only where none is live (`CertTurns`).

`ServicesProofs` proves `NobodyIsRemindedTwice` for any number of servers and sweeps: an account that is not
marked has had no reminder (`UnmarkedIsUnsent`), and only the claim that sets the mark emits one.

`MailInv` and `CertInv` were invariants of TLC's runs before they were proved. The assumptions are
those named in `Handlers`, `JobQueues`, `Domains`, `Mailboxes`, `Certificates` and `Sagas`: bounds
are natural numbers, a job is tried at least once, and null is neither an identity nor a kind of
job. Only model-checked: liveness.

### Finding

5. The sweep marks an account as reminded and counts on the listener to take the mark back when the
   mail fails (`hosting.service.ts:841`). The listener does so in a `catch`, but `dispatch` never
   throws: it returns `{ success: false }`, which the listener does not look at
   (`sendgrid.service.ts:781`).

## 6. Not modelled

Controllers, DTO validation, guards and e-mail templates hold no state. Order and invoice
numbers are allocated by reading the largest one; a collision fails the request and plays no
further part. `auth` is not modelled: its handlers are a
read and a write of one row around a comparison of tokens or hashes, and what matters about them is
the cryptography, which is abstracted away here; a token that two requests use at the same time is
listed among the hazards. Accounts on Proxmox, ResellerClub and CyberPanel, snapshots and
backups, the ResellerClub fallbacks of the domain service, DNS records and forwards are
sequences of calls to a provider with at most one row written at the end. The frontend, which is
most of the repository's code, holds no state of record. The other components are listed with
their status in `PROJECT.json`.
