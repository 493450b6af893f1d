------------------------------- MODULE Mailboxes -------------------------------
(****************************************************************************)
(* One email account: its row, its orders at ResellerClub, and the jobs     *)
(* provision-email, provision-gworkspace and deprovision-email.  Accounts   *)
(* do not interact.                                                         *)
(*                                                                          *)
(* Every database statement, every call to the provider and every use of    *)
(* the queue is a step of its own.                                          *)
(****************************************************************************)
EXTENDS JobQueues

CONSTANT MailOrders     \* identities of orders

ASSUME MailAssumption == None \notin MailOrders \cup {"provision", "deprovision"}

VARIABLES
    mailbox,        \* the row
    mailOrder,      \* the orders at ResellerClub
    mailQueue,      \* the queue email-provisioning
    mailHandler,    \* the handlers in progress
    lostOrders,     \* history: orders whose attempt ended before their id was saved
    abandoned,      \* history: the last try of a job failed
    mailCut,        \* history: an answer or a job's last update was lost, or a handler broke off
    mailCrowded,    \* history: two handlers were in progress at once
    mailFaults      \* history: failed calls, and handlers that broke off

mailHistories == <<lostOrders, abandoned, mailCut, mailCrowded, mailFaults>>
mailVars == <<mailbox, mailOrder, mailQueue, mailHandler, mailHistories>>

\* EXPIRED is never written.
MailStatus == {"NONE", "PENDING_SETUP", "ACTIVE", "SUSPENDED", "CANCELLED"}

MailSteps == {"idle", "queue", "suspend", "deleteOrder", "queueDeletion", "cancel", "renew",
              "saveRenewal", "order", "mailbox", "save", "giveUp", "deleteQueued",
              "cancelQueued", "retry"}

IdleMail == [pc |-> "idle", order |-> None, job |-> None]

MailInit ==
    /\ mailbox = [status |-> "NONE", order |-> None, provider |-> None]
    /\ mailOrder = [o \in MailOrders |-> "none"]
    /\ mailQueue = [j \in Jobs |-> NoJob]
    /\ mailHandler = [w \in Workers |-> IdleMail]
    /\ lostOrders = {}
    /\ abandoned = FALSE
    /\ mailCut = FALSE
    /\ mailCrowded = FALSE
    /\ mailFaults = 0

--------------------------------------------------------------------------------

MailAt(w, step) == At(mailHandler, w, step)
MailGoto(w, step) == mailHandler' = Goto(mailHandler, w, step)
MailReturn(w) == mailHandler' = [mailHandler EXCEPT ![w] = IdleMail]

MailFault == mailFaults < MaxFaults /\ mailFaults' = mailFaults + 1

StartMail(w, first) ==
    /\ MailAt(w, "idle")
    /\ mailHandler' = [mailHandler EXCEPT ![w] = first]
    /\ mailCrowded' = (mailCrowded \/ Busy(mailHandler) # {})
    /\ UNCHANGED <<mailOrder, lostOrders, abandoned, mailCut, mailFaults>>

WriteMailbox(row) ==
    /\ mailbox' = row
    /\ UNCHANGED <<mailOrder, mailQueue, mailHistories>>

SetMailStatus(status) == WriteMailbox([mailbox EXCEPT !.status = status])

AddMailJob(kind, on) ==
    /\ \E j \in Free(mailQueue) :
          mailQueue' = [mailQueue EXCEPT ![j] = QueuedJob(kind, on)]
    /\ UNCHANGED <<mailbox, mailOrder, mailHistories>>

MarkOrder(o, state) ==
    /\ mailOrder' = [mailOrder EXCEPT ![o] = state]
    /\ UNCHANGED <<mailbox, mailQueue, mailHistories>>

IsLive(o) == mailOrder[o] = "live"

Unused == {o \in MailOrders : mailOrder[o] = "none"}

NextOrder == CHOOSE o \in Unused : TRUE

--------------------------------------------------------------------------------
\* createEmailAccount.

CreateEmailAccount(w, provider) ==
    /\ mailbox.status = "NONE"
    /\ Room(mailQueue, mailHandler)
    /\ mailbox' = [status |-> "PENDING_SETUP", order |-> None, provider |-> provider]
    /\ StartMail(w, [IdleMail EXCEPT !.pc = "queue"])
    /\ UNCHANGED mailQueue

QueueMailbox(w) ==
    /\ MailAt(w, "queue")
    /\ AddMailJob("provision", None)
    /\ MailReturn(w)

--------------------------------------------------------------------------------
\* deleteEmailAccount.

DeleteEmailAccount(w) ==
    /\ mailbox.status # "NONE"
    /\ Room(mailQueue, mailHandler)
    /\ StartMail(w, [IdleMail EXCEPT !.pc = "suspend", !.order = mailbox.order])
    /\ UNCHANGED <<mailbox, mailQueue>>

SuspendMailbox(w) ==
    /\ MailAt(w, "suspend")
    /\ SetMailStatus("SUSPENDED")
    /\ MailGoto(w, IF mailHandler[w].order = None THEN "cancel" ELSE "deleteOrder")

DeleteMailOrder(w) ==
    /\ MailAt(w, "deleteOrder")
    /\ IsLive(mailHandler[w].order)
    /\ MarkOrder(mailHandler[w].order, "deleted")
    /\ MailGoto(w, "cancel")

\* Mutant: an account is cancelled though its order could not be deleted.
MailOrderNotDeleted_Cancelled(w) ==
    /\ MailAt(w, "deleteOrder")
    /\ MailFault
    /\ MailGoto(w, "cancel")
    /\ UNCHANGED <<mailbox, mailOrder, mailQueue, lostOrders, abandoned, mailCut, mailCrowded>>

\* The provider refuses, as it does for an order that it has already deleted, or its
\* answer is lost: a job is to try again.
MailOrderNotDeleted(w) ==
    LET o == mailHandler[w].order
    IN  /\ MailAt(w, "deleteOrder")
        /\ \/ ~IsLive(o) /\ UNCHANGED <<mailOrder, mailCut, mailFaults>>
           \/ MailFault /\ UNCHANGED <<mailOrder, mailCut>>
           \/ MailFault /\ mailOrder' = [mailOrder EXCEPT ![o] = "deleted"] /\ mailCut' = TRUE
        /\ MailGoto(w, "queueDeletion")
        /\ UNCHANGED <<mailbox, mailQueue, lostOrders, abandoned, mailCrowded>>

\* Mutant: nobody tries again.
QueueDeletion_Dropped(w) ==
    /\ MailAt(w, "queueDeletion")
    /\ MailReturn(w)
    /\ UNCHANGED <<mailbox, mailOrder, mailQueue, mailHistories>>

QueueDeletion(w) ==
    /\ MailAt(w, "queueDeletion")
    /\ AddMailJob("deprovision", mailHandler[w].order)
    /\ MailReturn(w)

CancelMailbox(w) ==
    /\ MailAt(w, "cancel")
    /\ SetMailStatus("CANCELLED")
    /\ MailReturn(w)

\* The update lies in the try block, unless there was no order: its failure has the
\* order, which is deleted by now, deleted by a job.
CancellationFails(w) ==
    /\ MailAt(w, "cancel")
    /\ mailHandler[w].order # None
    /\ MailFault
    /\ MailGoto(w, "queueDeletion")
    /\ UNCHANGED <<mailbox, mailOrder, mailQueue, lostOrders, abandoned, mailCut, mailCrowded>>

--------------------------------------------------------------------------------
\* renewEmail.

RenewEmail(w) ==
    /\ mailbox.order # None
    /\ StartMail(w, [IdleMail EXCEPT !.pc = "renew", !.order = mailbox.order])
    /\ UNCHANGED <<mailbox, mailQueue>>

\* Mutant: the account is renewed whatever the provider answers.
RenewMailOrder_Unchecked(w) ==
    /\ MailAt(w, "renew")
    /\ MailGoto(w, "saveRenewal")
    /\ UNCHANGED <<mailbox, mailOrder, mailQueue, mailHistories>>

\* The provider renews, or refuses.
RenewMailOrder(w) ==
    /\ MailAt(w, "renew")
    /\ \/ IsLive(mailHandler[w].order) /\ MailGoto(w, "saveRenewal")
       \/ MailReturn(w)
    /\ UNCHANGED <<mailbox, mailOrder, mailQueue, mailHistories>>

SaveMailRenewal(w) ==
    /\ MailAt(w, "saveRenewal")
    /\ SetMailStatus("ACTIVE")
    /\ MailReturn(w)

--------------------------------------------------------------------------------
\* The jobs.

TakeMailJob(w, j) ==
    /\ mailQueue[j].state = "waiting"
    /\ mailQueue' = [mailQueue EXCEPT ![j].state = "active"]
    /\ StartMail(w, [pc |-> IF mailQueue[j].kind = "provision" THEN "order" ELSE "deleteQueued",
                     order |-> mailQueue[j].on, job |-> j])
    /\ UNCHANGED mailbox

MailJobDone(w) == mailQueue' = [mailQueue EXCEPT ![mailHandler[w].job] = NoJob]

PlaceOrder(w) ==
    /\ MailAt(w, "order")
    /\ Unused # {}
    /\ MarkOrder(NextOrder, "live")
    /\ mailHandler' = [mailHandler EXCEPT
           ![w].order = NextOrder,
           ![w].pc = IF mailbox.provider = "TITAN" THEN "mailbox" ELSE "save"]

\* The order is refused, or placed and its answer lost.
OrderFails(w) ==
    /\ MailAt(w, "order")
    /\ \/ UNCHANGED <<mailOrder, lostOrders, mailCut>>
       \/ /\ Unused # {}
          /\ mailOrder' = [mailOrder EXCEPT ![NextOrder] = "live"]
          /\ lostOrders' = lostOrders \cup {NextOrder}
          /\ mailCut' = TRUE
    /\ MailGoto(w, "giveUp")
    /\ MailFault
    /\ UNCHANGED <<mailbox, mailQueue, abandoned, mailCrowded>>

CreateTitanMailbox(w) ==
    /\ MailAt(w, "mailbox")
    /\ MailGoto(w, "save")
    /\ UNCHANGED <<mailbox, mailOrder, mailQueue, mailHistories>>

\* Titan refuses the mailbox, or the row's update fails: the next try does not know
\* of the order.
ProvisioningFails(w) ==
    /\ mailHandler[w].pc \in {"mailbox", "save"}
    /\ lostOrders' = lostOrders \cup {mailHandler[w].order}
    /\ MailGoto(w, "giveUp")
    /\ MailFault
    /\ UNCHANGED <<mailbox, mailOrder, mailQueue, abandoned, mailCut, mailCrowded>>

\* Mutant: the order's id is not saved when the account has been deleted meanwhile.
SaveMailOrder_UnlessCancelled(w) ==
    /\ MailAt(w, "save")
    /\ mailbox' = [mailbox EXCEPT
                      !.order = IF mailbox.status = "CANCELLED" THEN @ ELSE mailHandler[w].order,
                      !.status = IF @ = "CANCELLED" THEN @ ELSE "ACTIVE"]
    /\ MailJobDone(w)
    /\ MailReturn(w)
    /\ UNCHANGED <<mailOrder, mailHistories>>

\* By id, whatever has become of the account.
SaveMailOrder(w) ==
    /\ MailAt(w, "save")
    /\ mailbox' = [mailbox EXCEPT !.order = mailHandler[w].order, !.status = "ACTIVE"]
    /\ MailJobDone(w)
    /\ MailReturn(w)
    /\ UNCHANGED <<mailOrder, mailHistories>>

\* The catch clause.
GiveUpProvisioning(w) ==
    /\ MailAt(w, "giveUp")
    /\ SetMailStatus("PENDING_SETUP")
    /\ MailGoto(w, "retry")

RetryMailJob(w) ==
    LET j == mailHandler[w].job
    IN  /\ MailAt(w, "retry")
        /\ mailQueue' = [mailQueue EXCEPT ![j] = AfterFailure(@)]
        /\ abandoned' = (abandoned \/ IsLastTry(mailQueue[j]))
        /\ MailReturn(w)
        /\ UNCHANGED <<mailbox, mailOrder, lostOrders, mailCut, mailCrowded, mailFaults>>

\* The job deletes through Titan, also what was ordered from Google.
DeleteQueuedOrder(w) ==
    /\ MailAt(w, "deleteQueued")
    /\ mailbox.provider = "TITAN"
    /\ IsLive(mailHandler[w].order)
    /\ MarkOrder(mailHandler[w].order, "deleted")
    /\ MailGoto(w, "cancelQueued")

QueuedOrderNotDeleted(w) ==
    LET o == mailHandler[w].order
    IN  /\ MailAt(w, "deleteQueued")
        /\ \/ /\ mailbox.provider # "TITAN" \/ ~IsLive(o)
              /\ UNCHANGED <<mailOrder, mailCut, mailFaults>>
           \/ MailFault /\ UNCHANGED <<mailOrder, mailCut>>
           \/ /\ mailbox.provider = "TITAN"
              /\ MailFault
              /\ mailOrder' = [mailOrder EXCEPT ![o] = "deleted"]
              /\ mailCut' = TRUE
        /\ MailGoto(w, "retry")
        /\ UNCHANGED <<mailbox, mailQueue, lostOrders, abandoned, mailCrowded>>

CancelQueued(w) ==
    /\ MailAt(w, "cancelQueued")
    /\ mailbox' = [mailbox EXCEPT !.status = "CANCELLED"]
    /\ MailJobDone(w)
    /\ MailReturn(w)
    /\ UNCHANGED <<mailOrder, mailHistories>>

\* The next try asks for an order that is deleted.
QueuedCancellationFails(w) ==
    /\ MailAt(w, "cancelQueued")
    /\ MailFault
    /\ mailCut' = TRUE
    /\ MailGoto(w, "retry")
    /\ UNCHANGED <<mailbox, mailOrder, mailQueue, lostOrders, abandoned, mailCrowded>>

--------------------------------------------------------------------------------

\* A query fails outside the try blocks, or the process dies; Bull runs a job that has
\* stalled again.
MailBreaksOff(w) ==
    LET j == mailHandler[w].job
    IN  /\ ~MailAt(w, "idle")
        /\ mailQueue' = IF j = None THEN mailQueue
                        ELSE [mailQueue EXCEPT ![j].state = "waiting"]
        /\ lostOrders' = lostOrders \cup {o \in {mailHandler[w].order} :
                                             mailHandler[w].pc \in {"mailbox", "save"}}
        /\ mailCut' = TRUE
        /\ MailReturn(w)
        /\ MailFault
        /\ UNCHANGED <<mailbox, mailOrder, abandoned, mailCrowded>>

StartMailHandler(w) ==
    \/ \E provider \in {"TITAN", "GOOGLE_WORKSPACE"} : CreateEmailAccount(w, provider)
    \/ DeleteEmailAccount(w) \/ RenewEmail(w)

ContinueMail(w) ==
    \/ QueueMailbox(w) \/ SuspendMailbox(w) \/ DeleteMailOrder(w) \/ MailOrderNotDeleted(w)
    \/ QueueDeletion(w) \/ CancelMailbox(w) \/ CancellationFails(w)
    \/ RenewMailOrder(w) \/ SaveMailRenewal(w)
    \/ PlaceOrder(w) \/ OrderFails(w) \/ CreateTitanMailbox(w) \/ ProvisioningFails(w)
    \/ SaveMailOrder(w) \/ GiveUpProvisioning(w) \/ RetryMailJob(w)
    \/ DeleteQueuedOrder(w) \/ QueuedOrderNotDeleted(w) \/ CancelQueued(w)
    \/ QueuedCancellationFails(w)

TakesMailJob(j) == \E w \in Workers : TakeMailJob(w, j)

MailNext ==
    \/ \E w \in Workers : StartMailHandler(w) \/ ContinueMail(w) \/ MailBreaksOff(w)
    \/ \E j \in Jobs : TakesMailJob(j)

MailSpec == MailInit /\ [][MailNext]_mailVars

================================================================================
