-------------------------- MODULE MailboxProperties --------------------------
(****************************************************************************)
(* What the email service keeps true of an account and its orders.          *)
(****************************************************************************)
EXTENDS Mailboxes

MailRow == [status : MailStatus, order : MailOrders \cup {None},
            provider : {"TITAN", "GOOGLE_WORKSPACE", None}]

MailJob == [state : {"none", "waiting", "active"}, kind : {"provision", "deprovision", None},
            on : MailOrders \cup {None}, tries : 0..(Attempts - 1)]

MailTypeOK ==
    /\ mailbox \in MailRow
    /\ mailOrder \in [MailOrders -> {"none", "live", "deleted"}]
    /\ mailQueue \in [Jobs -> MailJob]
    /\ mailHandler \in [Workers -> [pc : MailSteps, order : MailOrders \cup {None},
                                    job : Jobs \cup {None}]]
    /\ lostOrders \subseteq MailOrders
    /\ abandoned \in BOOLEAN
    /\ mailCut \in BOOLEAN
    /\ mailCrowded \in BOOLEAN
    /\ mailFaults \in 0..MaxFaults

\* Every order that is paid for is on its account's row or about to be saved there,
\* whatever has become of the account meanwhile; only a try that failed after its
\* order was accepted loses one (handleProvisionEmail, handleProvisionGWorkspace).
OrdersOnRecord ==
    \A o \in MailOrders : IsLive(o) =>
        \/ o = mailbox.order
        \/ o \in lostOrders
        \/ \E w \in Workers : mailHandler[w].pc \in {"mailbox", "save"}
                              /\ mailHandler[w].order = o

\* While handlers take turns, an account is shown as cancelled only once its order is
\* no longer paid for, whether the deletion or its job came through
\* (deleteEmailAccount, handleDeprovisionEmail).
CancelledIsDeleted ==
    mailbox.status = "CANCELLED" /\ mailbox.order # None /\ ~mailCrowded
        => ~IsLive(mailbox.order)

\* While handlers take turns and get their answers, an account in use has an order
\* that is live, also when it is renewed while the deletion of its order is queued
\* (renewEmail).
ActiveIsServed ==
    mailbox.status = "ACTIVE" /\ Busy(mailHandler) = {} /\ ~mailCrowded /\ ~mailCut
        => mailbox.order # None /\ IsLive(mailbox.order)

\* A deletion that has suspended its account goes on to cancel it, by itself or by
\* its job, unless the provider refuses to the last try.
DeletionEnds ==
    (mailbox.status = "SUSPENDED")
        ~> (mailbox.status # "SUSPENDED" \/ abandoned \/ mailCut)

--------------------------------------------------------------------------------
\* Why the safety properties hold.

Provisioning == {"order", "mailbox", "save", "giveUp"}
Deprovisioning == {"deleteQueued", "cancelQueued"}
Deleting == {"suspend", "deleteOrder", "queueDeletion", "cancel"}
Renewing == {"renew", "saveRenewal"}

\* A handler that runs a job is the only one that does, and the job is of its kind.
RunsJob(w, j) ==
    /\ mailQueue[j].state = "active"
    /\ \A v \in Workers : mailHandler[v].job = j => v = w
    /\ \/ mailHandler[w].pc \in Provisioning /\ mailQueue[j].kind = "provision"
       \/ /\ mailHandler[w].pc \in Deprovisioning
          /\ mailQueue[j].kind = "deprovision"
          /\ mailHandler[w].order = mailQueue[j].on
       \/ MailAt(w, "retry")

JobsInHand ==
    /\ \A j \in Jobs : mailQueue[j].state # "none" => mailQueue[j].kind # None
    /\ \A w \in Workers :
          \/ /\ mailHandler[w].job = None
             /\ mailHandler[w].pc \in {"idle", "queue"} \cup Deleting \cup Renewing
          \/ mailHandler[w].job # None /\ RunsJob(w, mailHandler[w].job)

\* The account is provisioned by the handler that has created it and then by one job,
\* until its row has an order.
OneProvisioning ==
    /\ \A w, v \in Workers : MailAt(w, "queue") /\ MailAt(v, "queue") => w = v
    /\ \A i, j \in Jobs :
          mailQueue[i].kind = "provision" /\ mailQueue[j].kind = "provision" => i = j
    /\ \A w \in Workers : MailAt(w, "queue") =>
          \A j \in Jobs : mailQueue[j].kind # "provision"
    /\ (\E w \in Workers : MailAt(w, "queue")) \/ (\E j \in Jobs : mailQueue[j].kind = "provision")
          => mailbox.status # "NONE" /\ mailbox.order = None

\* Every order in the hands of a handler or a job is the row's, but one being provisioned.
OrdersInHand ==
    /\ mailbox.order # None => mailbox.status # "NONE" /\ mailOrder[mailbox.order] # "none"
    /\ \A j \in Jobs : mailQueue[j].kind = "deprovision" =>
          mailQueue[j].on # None /\ mailQueue[j].on = mailbox.order
    /\ \A w \in Workers :
          /\ mailHandler[w].pc \in {"mailbox", "save"} =>
                 mailHandler[w].order # None /\ IsLive(mailHandler[w].order)
          /\ mailHandler[w].pc \in Deleting \cup Renewing =>
                 /\ mailbox.status # "NONE"
                 /\ mailHandler[w].order \in {None, mailbox.order}
          /\ mailHandler[w].pc \in {"deleteOrder", "queueDeletion"} \cup Renewing =>
                 mailHandler[w].order # None

\* A handler that has the account to itself finds it as it has read it.
MailTurns ==
    /\ \A w, v \in Busy(mailHandler) : w = v
    /\ \A w \in Workers :
          /\ mailHandler[w].pc \in Deleting => mailHandler[w].order = mailbox.order
          /\ mailHandler[w].pc \in Deleting \ {"suspend"} => mailbox.status = "SUSPENDED"
          /\ mailHandler[w].pc \in {"cancel", "cancelQueued"} =>
                 mailHandler[w].order = None \/ ~IsLive(mailHandler[w].order)
          /\ MailAt(w, "saveRenewal") => IsLive(mailHandler[w].order)
    /\ CancelledIsDeleted
    /\ mailbox.status = "ACTIVE" /\ ~mailCut =>
          \/ mailbox.order # None /\ IsLive(mailbox.order)
          \/ \E w \in Workers : MailAt(w, "cancelQueued")

MailInv ==
    /\ JobsInHand
    /\ OneProvisioning
    /\ OrdersInHand
    /\ OrdersOnRecord
    /\ ~mailCrowded => MailTurns

================================================================================
