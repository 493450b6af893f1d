------------------------------ MODULE MailboxProofs ------------------------------
(****************************************************************************)
(* An email account proved for any number of handlers, jobs, tries, orders  *)
(* and failures.                                                            *)
(****************************************************************************)
EXTENDS MailboxProperties, TLAPS

--------------------------------------------------------------------------------

LEMMA MailTypes ==
    ASSUME MailTypeOK
    PROVE  /\ mailbox.status \in MailStatus /\ mailbox.order \in MailOrders \cup {None}
           /\ mailbox.provider \in {"TITAN", "GOOGLE_WORKSPACE", None}
           /\ mailbox = [status |-> mailbox.status, order |-> mailbox.order,
                         provider |-> mailbox.provider]
           /\ \A w \in Workers :
                 /\ mailHandler[w].pc \in MailSteps
                 /\ mailHandler[w].order \in MailOrders \cup {None}
                 /\ mailHandler[w].job \in Jobs \cup {None}
           /\ \A j \in Jobs :
                 /\ mailQueue[j] \in MailJob
                 /\ mailQueue[j].state \in {"none", "waiting", "active"}
                 /\ mailQueue[j].kind \in {"provision", "deprovision", None}
                 /\ mailQueue[j].on \in MailOrders \cup {None}
                 /\ mailQueue[j].tries \in 0..(Attempts - 1)
           /\ \A o \in MailOrders : mailOrder[o] \in {"none", "live", "deleted"}
           /\ mailFaults \in 0..MaxFaults /\ MaxFaults \in Nat
  BY FaultsAssumption DEF MailTypeOK, MailRow, MailJob

LEMMA MailMoves ==
    ASSUME MailTypeOK, NEW w \in Workers, NEW next,
           mailHandler' = [mailHandler EXCEPT ![w] = next]
    PROVE  /\ mailHandler'[w] = next
           /\ \A v \in Workers \ {w} : mailHandler'[v] = mailHandler[v]
  BY DEF MailTypeOK

LEMMA MailGoes ==
    ASSUME MailTypeOK, NEW w \in Workers, NEW step, MailGoto(w, step)
    PROVE  /\ mailHandler'[w].pc = step
           /\ mailHandler'[w].order = mailHandler[w].order
           /\ mailHandler'[w].job = mailHandler[w].job
           /\ \A v \in Workers \ {w} : mailHandler'[v] = mailHandler[v]
<1>1. mailHandler' = [mailHandler EXCEPT ![w] = [mailHandler[w] EXCEPT !.pc = step]]
  BY DEF MailGoto, Goto
<1>2. mailHandler[w] \in [pc : MailSteps, order : MailOrders \cup {None},
                          job : Jobs \cup {None}]
  BY DEF MailTypeOK
<1>3. mailHandler'[w] = [mailHandler[w] EXCEPT !.pc = step]
  BY <1>1, MailMoves
<1>4. /\ mailHandler'[w].pc = step
      /\ mailHandler'[w].order = mailHandler[w].order
      /\ mailHandler'[w].job = mailHandler[w].job
  BY <1>2, <1>3
<1>5. QED
  BY <1>1, <1>4, MailMoves

LEMMA MailReturns ==
    ASSUME MailTypeOK, NEW w \in Workers, MailReturn(w)
    PROVE  /\ mailHandler'[w].pc = "idle"
           /\ mailHandler'[w].order = None
           /\ mailHandler'[w].job = None
           /\ \A v \in Workers \ {w} : mailHandler'[v] = mailHandler[v]
<1>1. mailHandler' = [mailHandler EXCEPT ![w] = IdleMail]
  BY DEF MailReturn
<1>2. mailHandler'[w] = IdleMail
  BY <1>1, MailMoves
<1>3. QED
  BY <1>1, <1>2, MailMoves DEF IdleMail

LEMMA MailStarts ==
    ASSUME MailTypeOK, NEW w \in Workers, NEW first, StartMail(w, first)
    PROVE  /\ mailHandler[w].pc = "idle"
           /\ mailHandler'[w] = first
           /\ \A v \in Workers \ {w} : mailHandler'[v] = mailHandler[v]
           /\ mailCrowded' \/ (~mailCrowded
                  /\ \A v \in Workers : mailHandler[v].pc = "idle")
           /\ mailOrder' = mailOrder /\ lostOrders' = lostOrders /\ mailCut' = mailCut
<1>1. mailCrowded' \/ (~mailCrowded /\ \A v \in Workers : mailHandler[v].pc = "idle")
  <2>1. CASE Busy(mailHandler) = {}
    BY <2>1 DEF StartMail, Busy, MailTypeOK
  <2>2. CASE Busy(mailHandler) # {}
    BY <2>2 DEF StartMail, MailTypeOK
  <2>3. QED
    BY <2>1, <2>2
<1>2. QED
  BY <1>1, MailMoves DEF StartMail, MailAt, At

LEMMA JobsAdded ==
    ASSUME MailTypeOK, NEW kind, NEW on, AddMailJob(kind, on)
    PROVE  \E j \in Jobs :
              /\ mailQueue[j].state = "none"
              /\ mailQueue'[j].kind = kind /\ mailQueue'[j].on = on
              /\ mailQueue'[j].state = "waiting"
              /\ \A i \in Jobs \ {j} : mailQueue'[i] = mailQueue[i]
  BY DEF AddMailJob, Free, QueuedJob, MailTypeOK

LEMMA JobRemoved ==
    ASSUME MailTypeOK, NEW j \in Jobs, mailQueue' = [mailQueue EXCEPT ![j] = NoJob]
    PROVE  /\ mailQueue'[j].kind = None /\ mailQueue'[j].state = "none"
           /\ \A i \in Jobs \ {j} : mailQueue'[i] = mailQueue[i]
  BY DEF NoJob, MailTypeOK

LEMMA QueueTypes ==
    /\ NoJob \in MailJob
    /\ \A job \in MailJob : AfterFailure(job) \in MailJob
<1>1. NoJob \in MailJob
  BY JobsAssumption DEF NoJob, MailJob
<1>2. ASSUME NEW job \in MailJob
      PROVE  AfterFailure(job) \in MailJob
  <2>1. CASE IsLastTry(job)
    BY <1>1, <2>1 DEF AfterFailure
  <2>2. CASE ~IsLastTry(job)
    <3>1. job.tries + 1 \in 0..(Attempts - 1)
      BY <2>2, JobsAssumption DEF IsLastTry, MailJob
    <3>2. AfterFailure(job) = [job EXCEPT !.state = "waiting", !.tries = job.tries + 1]
      BY <2>2 DEF AfterFailure
    <3>3. QED
      BY <3>1, <3>2 DEF MailJob
  <2>3. QED
    BY <2>1, <2>2
<1>3. QED
  BY <1>1, <1>2

LEMMA HandlerTypes ==
    ASSUME MailTypeOK, NEW w \in Workers
    PROVE  /\ \A step \in MailSteps : MailGoto(w, step) =>
                 mailHandler' \in [Workers -> [pc : MailSteps,
                 order : MailOrders \cup {None},
                                              job : Jobs \cup {None}]]
           /\ MailReturn(w) =>
                 mailHandler' \in [Workers -> [pc : MailSteps,
                 order : MailOrders \cup {None},
                                              job : Jobs \cup {None}]]
<1>1. ASSUME NEW step \in MailSteps, MailGoto(w, step)
      PROVE  mailHandler' \in [Workers -> [pc : MailSteps, order : MailOrders \cup {None},
                                          job : Jobs \cup {None}]]
  BY <1>1 DEF MailGoto, Goto, MailTypeOK
<1>2. ASSUME MailReturn(w)
      PROVE  mailHandler' \in [Workers -> [pc : MailSteps, order : MailOrders \cup {None},
                                          job : Jobs \cup {None}]]
  <2>1. IdleMail \in [pc : MailSteps, order : MailOrders \cup {None},
            job : Jobs \cup {None}]
    BY DEF IdleMail, MailSteps
  <2>2. QED
    BY <1>2, <2>1 DEF MailReturn, MailTypeOK
<1>3. QED
  BY <1>1, <1>2

LEMMA NextIsUnused == Unused # {} => NextOrder \in Unused
  BY DEF NextOrder

\* What each action does, field by field.

LEMMA CreateEmailAccountEffect ==
    ASSUME MailTypeOK, NEW w \in Workers, NEW provider \in {"TITAN", "GOOGLE_WORKSPACE"},
        CreateEmailAccount(w, provider)
    PROVE  /\ mailHandler[w].pc = "idle"
           /\ mailHandler'[w].pc = "queue"
           /\ mailHandler'[w].order = None
           /\ mailHandler'[w].job = None
           /\ \A v \in Workers \ {w} : mailHandler'[v] = mailHandler[v]
           /\ \/ mailCrowded'
              \/ ~mailCrowded /\ \A v \in Workers : mailHandler[v].pc = "idle"
           /\ mailbox.status = "NONE"
           /\ mailbox'.status = "PENDING_SETUP"
           /\ mailbox'.order = None
           /\ mailbox'.provider = provider
           /\ mailQueue' = mailQueue
           /\ mailOrder' = mailOrder
           /\ lostOrders' = lostOrders
           /\ mailCut' = mailCut
<1>1. /\ mailHandler[w].pc = "idle"
      /\ mailHandler'[w].pc = "queue"
      /\ mailHandler'[w].order = None
      /\ mailHandler'[w].job = None
      /\ \A v \in Workers \ {w} : mailHandler'[v] = mailHandler[v]
      /\ \/ mailCrowded'
         \/ ~mailCrowded /\ \A v \in Workers : mailHandler[v].pc = "idle"
  BY MailStarts DEF CreateEmailAccount, IdleMail
<1>2. /\ mailbox.status = "NONE"
      /\ mailbox'.status = "PENDING_SETUP"
      /\ mailbox'.order = None
      /\ mailbox'.provider = provider
      /\ mailQueue' = mailQueue
      /\ mailOrder' = mailOrder
      /\ lostOrders' = lostOrders
      /\ mailCut' = mailCut
  BY DEF CreateEmailAccount, MailAt, At, StartMail
<1>3. QED
  BY <1>1, <1>2

LEMMA DeleteEmailAccountEffect ==
    ASSUME MailTypeOK, NEW w \in Workers, DeleteEmailAccount(w)
    PROVE  /\ mailHandler[w].pc = "idle"
           /\ mailHandler'[w].pc = "suspend"
           /\ mailHandler'[w].order = mailbox.order
           /\ mailHandler'[w].job = None
           /\ \A v \in Workers \ {w} : mailHandler'[v] = mailHandler[v]
           /\ \/ mailCrowded'
              \/ ~mailCrowded /\ \A v \in Workers : mailHandler[v].pc = "idle"
           /\ mailbox.status # "NONE"
           /\ mailbox' = mailbox
           /\ mailQueue' = mailQueue
           /\ mailOrder' = mailOrder
           /\ lostOrders' = lostOrders
           /\ mailCut' = mailCut
<1>1. /\ mailHandler[w].pc = "idle"
      /\ mailHandler'[w].pc = "suspend"
      /\ mailHandler'[w].order = mailbox.order
      /\ mailHandler'[w].job = None
      /\ \A v \in Workers \ {w} : mailHandler'[v] = mailHandler[v]
      /\ \/ mailCrowded'
         \/ ~mailCrowded /\ \A v \in Workers : mailHandler[v].pc = "idle"
  BY MailStarts DEF DeleteEmailAccount, IdleMail
<1>2. /\ mailbox.status # "NONE"
      /\ mailbox' = mailbox
      /\ mailQueue' = mailQueue
      /\ mailOrder' = mailOrder
      /\ lostOrders' = lostOrders
      /\ mailCut' = mailCut
  BY DEF DeleteEmailAccount, MailAt, At, StartMail
<1>3. QED
  BY <1>1, <1>2

LEMMA RenewEmailEffect ==
    ASSUME MailTypeOK, NEW w \in Workers, RenewEmail(w)
    PROVE  /\ mailHandler[w].pc = "idle"
           /\ mailHandler'[w].pc = "renew"
           /\ mailHandler'[w].order = mailbox.order
           /\ mailHandler'[w].job = None
           /\ \A v \in Workers \ {w} : mailHandler'[v] = mailHandler[v]
           /\ \/ mailCrowded'
              \/ ~mailCrowded /\ \A v \in Workers : mailHandler[v].pc = "idle"
           /\ mailbox.order # None
           /\ mailbox' = mailbox
           /\ mailQueue' = mailQueue
           /\ mailOrder' = mailOrder
           /\ lostOrders' = lostOrders
           /\ mailCut' = mailCut
<1>1. StartMail(w, [IdleMail EXCEPT !.pc = "renew", !.order = mailbox.order])
  BY DEF RenewEmail
<1>2. mailHandler'[w] = [IdleMail EXCEPT !.pc = "renew", !.order = mailbox.order]
  BY <1>1, MailStarts
<1>3. /\ mailHandler[w].pc = "idle"
      /\ mailHandler'[w].pc = "renew"
      /\ mailHandler'[w].order = mailbox.order
      /\ mailHandler'[w].job = None
      /\ \A v \in Workers \ {w} : mailHandler'[v] = mailHandler[v]
      /\ \/ mailCrowded'
         \/ ~mailCrowded /\ \A v \in Workers : mailHandler[v].pc = "idle"
  <2>1. mailHandler'[w] = [pc |-> "renew", order |-> mailbox.order, job |-> None]
    BY <1>2 DEF IdleMail
  <2>2. QED
    BY <1>1, <2>1, MailStarts
<1>4. /\ mailbox.order # None
      /\ mailbox' = mailbox
      /\ mailQueue' = mailQueue
      /\ mailOrder' = mailOrder
      /\ lostOrders' = lostOrders
      /\ mailCut' = mailCut
  BY DEF RenewEmail, MailAt, At, StartMail
<1>5. QED
  BY <1>2, <1>3, <1>4

LEMMA TakeMailJobEffect ==
    ASSUME MailTypeOK, NEW w \in Workers, NEW j \in Jobs, TakeMailJob(w, j)
    PROVE  /\ mailHandler[w].pc = "idle"
           /\ mailHandler'[w].pc =
                IF mailQueue[j].kind = "provision" THEN "order" ELSE "deleteQueued"
           /\ mailHandler'[w].order = mailQueue[j].on
           /\ mailHandler'[w].job = j
           /\ \A v \in Workers \ {w} : mailHandler'[v] = mailHandler[v]
           /\ \/ mailCrowded'
              \/ ~mailCrowded /\ \A v \in Workers : mailHandler[v].pc = "idle"
           /\ mailQueue[j].state = "waiting"
           /\ mailQueue'[j].state = "active"
           /\ mailQueue'[j].kind = mailQueue[j].kind
           /\ mailQueue'[j].on = mailQueue[j].on
           /\ \A i \in Jobs \ {j} : mailQueue'[i] = mailQueue[i]
           /\ mailbox' = mailbox
           /\ mailOrder' = mailOrder
           /\ lostOrders' = lostOrders
           /\ mailCut' = mailCut
<1>1. /\ mailHandler[w].pc = "idle"
      /\ mailHandler'[w].pc =
           IF mailQueue[j].kind = "provision" THEN "order" ELSE "deleteQueued"
      /\ mailHandler'[w].order = mailQueue[j].on
      /\ mailHandler'[w].job = j
      /\ \A v \in Workers \ {w} : mailHandler'[v] = mailHandler[v]
      /\ \/ mailCrowded'
         \/ ~mailCrowded /\ \A v \in Workers : mailHandler[v].pc = "idle"
  BY MailStarts DEF TakeMailJob
<1>2. /\ mailQueue[j].state = "waiting"
      /\ mailQueue'[j].state = "active"
      /\ mailQueue'[j].kind = mailQueue[j].kind
      /\ mailQueue'[j].on = mailQueue[j].on
      /\ \A i \in Jobs \ {j} : mailQueue'[i] = mailQueue[i]
      /\ mailbox' = mailbox
      /\ mailOrder' = mailOrder
      /\ lostOrders' = lostOrders
      /\ mailCut' = mailCut
  BY MailTypes DEF TakeMailJob, MailAt, At, StartMail, MailTypeOK, MailJob
<1>3. QED
  BY <1>1, <1>2

LEMMA QueueMailboxEffect ==
    ASSUME MailTypeOK, NEW w \in Workers, QueueMailbox(w)
    PROVE  /\ mailHandler'[w].pc = "idle"
           /\ mailHandler'[w].order = None
           /\ mailHandler'[w].job = None
           /\ \A v \in Workers \ {w} : mailHandler'[v] = mailHandler[v]
           /\ mailHandler[w].pc = "queue"
           /\ mailbox' = mailbox
           /\ mailOrder' = mailOrder
           /\ lostOrders' = lostOrders
           /\ mailCut' = mailCut
           /\ mailCrowded' = mailCrowded
           /\ \E j \in Jobs :
                 /\ mailQueue[j].state = "none"
                 /\ mailQueue'[j].kind = "provision" /\ mailQueue'[j].on = None
                 /\ mailQueue'[j].state = "waiting"
                 /\ \A i \in Jobs \ {j} : mailQueue'[i] = mailQueue[i]
<1>1. /\ mailHandler'[w].pc = "idle"
      /\ mailHandler'[w].order = None
      /\ mailHandler'[w].job = None
      /\ \A v \in Workers \ {w} : mailHandler'[v] = mailHandler[v]
  BY MailReturns DEF QueueMailbox
<1>2. /\ \E j \in Jobs :
            /\ mailQueue[j].state = "none"
            /\ mailQueue'[j].kind = "provision" /\ mailQueue'[j].on = None
            /\ mailQueue'[j].state = "waiting"
            /\ \A i \in Jobs \ {j} : mailQueue'[i] = mailQueue[i]
  BY JobsAdded DEF QueueMailbox
<1>3. /\ mailHandler[w].pc = "queue"
      /\ mailbox' = mailbox
      /\ mailOrder' = mailOrder
      /\ lostOrders' = lostOrders
      /\ mailCut' = mailCut
      /\ mailCrowded' = mailCrowded
  BY DEF QueueMailbox, MailAt, At, AddMailJob, mailHistories
<1>4. QED
  BY <1>1, <1>2, <1>3

LEMMA SuspendMailboxEffect ==
    ASSUME MailTypeOK, NEW w \in Workers, SuspendMailbox(w)
    PROVE  /\ mailHandler'[w].pc =
                IF mailHandler[w].order = None THEN "cancel" ELSE "deleteOrder"
           /\ mailHandler'[w].order = mailHandler[w].order
           /\ mailHandler'[w].job = mailHandler[w].job
           /\ \A v \in Workers \ {w} : mailHandler'[v] = mailHandler[v]
           /\ mailHandler[w].pc = "suspend"
           /\ mailbox'.status = "SUSPENDED"
           /\ mailbox'.order = mailbox.order
           /\ mailbox'.provider = mailbox.provider
           /\ mailQueue' = mailQueue
           /\ mailOrder' = mailOrder
           /\ lostOrders' = lostOrders
           /\ mailCut' = mailCut
           /\ mailCrowded' = mailCrowded
<1>1. /\ mailHandler'[w].pc = IF mailHandler[w].order = None THEN "cancel" ELSE "deleteOrder"
      /\ mailHandler'[w].order = mailHandler[w].order
      /\ mailHandler'[w].job = mailHandler[w].job
      /\ \A v \in Workers \ {w} : mailHandler'[v] = mailHandler[v]
  BY MailGoes DEF SuspendMailbox
<1>2. /\ mailHandler[w].pc = "suspend"
      /\ mailbox'.status = "SUSPENDED"
      /\ mailbox'.order = mailbox.order
      /\ mailbox'.provider = mailbox.provider
      /\ mailQueue' = mailQueue
      /\ mailOrder' = mailOrder
      /\ lostOrders' = lostOrders
      /\ mailCut' = mailCut
      /\ mailCrowded' = mailCrowded
  BY MailTypes DEF SuspendMailbox, MailAt, At, SetMailStatus, WriteMailbox, mailHistories
<1>3. QED
  BY <1>1, <1>2

LEMMA DeleteMailOrderEffect ==
    ASSUME MailTypeOK, NEW w \in Workers, DeleteMailOrder(w), mailHandler[w].order # None
    PROVE  /\ mailHandler'[w].pc = "cancel"
           /\ mailHandler'[w].order = mailHandler[w].order
           /\ mailHandler'[w].job = mailHandler[w].job
           /\ \A v \in Workers \ {w} : mailHandler'[v] = mailHandler[v]
           /\ mailHandler[w].pc = "deleteOrder"
           /\ IsLive(mailHandler[w].order)
           /\ mailOrder'[mailHandler[w].order] = "deleted"
           /\ \A o \in MailOrders \ {mailHandler[w].order} : mailOrder'[o] = mailOrder[o]
           /\ mailbox' = mailbox
           /\ mailQueue' = mailQueue
           /\ lostOrders' = lostOrders
           /\ mailCut' = mailCut
           /\ mailCrowded' = mailCrowded
<1>1. /\ mailHandler'[w].pc = "cancel"
      /\ mailHandler'[w].order = mailHandler[w].order
      /\ mailHandler'[w].job = mailHandler[w].job
      /\ \A v \in Workers \ {w} : mailHandler'[v] = mailHandler[v]
  BY MailGoes DEF DeleteMailOrder
<1>2. /\ mailHandler[w].pc = "deleteOrder"
      /\ IsLive(mailHandler[w].order)
      /\ mailOrder'[mailHandler[w].order] = "deleted"
      /\ \A o \in MailOrders \ {mailHandler[w].order} : mailOrder'[o] = mailOrder[o]
      /\ mailbox' = mailbox
      /\ mailQueue' = mailQueue
      /\ lostOrders' = lostOrders
      /\ mailCut' = mailCut
      /\ mailCrowded' = mailCrowded
  BY MailTypes DEF DeleteMailOrder, MailAt, At, MarkOrder, IsLive, mailHistories, MailTypeOK
<1>3. QED
  BY <1>1, <1>2

LEMMA MailOrderNotDeletedEffect ==
    ASSUME MailTypeOK, NEW w \in Workers, MailOrderNotDeleted(w),
        mailHandler[w].order # None
    PROVE  /\ mailHandler'[w].pc = "queueDeletion"
           /\ mailHandler'[w].order = mailHandler[w].order
           /\ mailHandler'[w].job = mailHandler[w].job
           /\ \A v \in Workers \ {w} : mailHandler'[v] = mailHandler[v]
           /\ mailHandler[w].pc = "deleteOrder"
           /\ \A o \in MailOrders :
                 mailOrder'[o] = mailOrder[o] \/ (mailOrder'[o] = "deleted" /\ mailCut')
           /\ mailCut => mailCut'
           /\ mailbox' = mailbox
           /\ mailQueue' = mailQueue
           /\ lostOrders' = lostOrders
           /\ mailCrowded' = mailCrowded
<1>1. /\ mailHandler'[w].pc = "queueDeletion"
      /\ mailHandler'[w].order = mailHandler[w].order
      /\ mailHandler'[w].job = mailHandler[w].job
      /\ \A v \in Workers \ {w} : mailHandler'[v] = mailHandler[v]
  BY MailGoes DEF MailOrderNotDeleted
<1>2. /\ mailHandler[w].pc = "deleteOrder"
      /\ \A o \in MailOrders :
            mailOrder'[o] = mailOrder[o] \/ (mailOrder'[o] = "deleted" /\ mailCut')
      /\ mailCut => mailCut'
      /\ mailbox' = mailbox
      /\ mailQueue' = mailQueue
      /\ lostOrders' = lostOrders
      /\ mailCrowded' = mailCrowded
  BY MailTypes DEF MailOrderNotDeleted, MailAt, At, IsLive, MailFault, MailTypeOK
<1>3. QED
  BY <1>1, <1>2

LEMMA QueueDeletionEffect ==
    ASSUME MailTypeOK, NEW w \in Workers, QueueDeletion(w)
    PROVE  /\ mailHandler'[w].pc = "idle"
           /\ mailHandler'[w].order = None
           /\ mailHandler'[w].job = None
           /\ \A v \in Workers \ {w} : mailHandler'[v] = mailHandler[v]
           /\ mailHandler[w].pc = "queueDeletion"
           /\ mailbox' = mailbox
           /\ mailOrder' = mailOrder
           /\ lostOrders' = lostOrders
           /\ mailCut' = mailCut
           /\ mailCrowded' = mailCrowded
           /\ \E j \in Jobs :
                 /\ mailQueue[j].state = "none"
                 /\ mailQueue'[j].kind = "deprovision"
                        /\ mailQueue'[j].on = mailHandler[w].order
                 /\ mailQueue'[j].state = "waiting"
                 /\ \A i \in Jobs \ {j} : mailQueue'[i] = mailQueue[i]
<1>1. /\ mailHandler'[w].pc = "idle"
      /\ mailHandler'[w].order = None
      /\ mailHandler'[w].job = None
      /\ \A v \in Workers \ {w} : mailHandler'[v] = mailHandler[v]
  BY MailReturns DEF QueueDeletion
<1>2. /\ \E j \in Jobs :
            /\ mailQueue[j].state = "none"
            /\ mailQueue'[j].kind = "deprovision" /\ mailQueue'[j].on = mailHandler[w].order
            /\ mailQueue'[j].state = "waiting"
            /\ \A i \in Jobs \ {j} : mailQueue'[i] = mailQueue[i]
  BY JobsAdded DEF QueueDeletion
<1>3. /\ mailHandler[w].pc = "queueDeletion"
      /\ mailbox' = mailbox
      /\ mailOrder' = mailOrder
      /\ lostOrders' = lostOrders
      /\ mailCut' = mailCut
      /\ mailCrowded' = mailCrowded
  BY DEF QueueDeletion, MailAt, At, AddMailJob, mailHistories
<1>4. QED
  BY <1>1, <1>2, <1>3

LEMMA CancelMailboxEffect ==
    ASSUME MailTypeOK, NEW w \in Workers, CancelMailbox(w)
    PROVE  /\ mailHandler'[w].pc = "idle"
           /\ mailHandler'[w].order = None
           /\ mailHandler'[w].job = None
           /\ \A v \in Workers \ {w} : mailHandler'[v] = mailHandler[v]
           /\ mailHandler[w].pc = "cancel"
           /\ mailbox'.status = "CANCELLED"
           /\ mailbox'.order = mailbox.order
           /\ mailbox'.provider = mailbox.provider
           /\ mailQueue' = mailQueue
           /\ mailOrder' = mailOrder
           /\ lostOrders' = lostOrders
           /\ mailCut' = mailCut
           /\ mailCrowded' = mailCrowded
<1>1. /\ mailHandler'[w].pc = "idle"
      /\ mailHandler'[w].order = None
      /\ mailHandler'[w].job = None
      /\ \A v \in Workers \ {w} : mailHandler'[v] = mailHandler[v]
  BY MailReturns DEF CancelMailbox
<1>2. /\ mailHandler[w].pc = "cancel"
      /\ mailbox'.status = "CANCELLED"
      /\ mailbox'.order = mailbox.order
      /\ mailbox'.provider = mailbox.provider
      /\ mailQueue' = mailQueue
      /\ mailOrder' = mailOrder
      /\ lostOrders' = lostOrders
      /\ mailCut' = mailCut
      /\ mailCrowded' = mailCrowded
  BY MailTypes DEF CancelMailbox, MailAt, At, SetMailStatus, WriteMailbox, mailHistories
<1>3. QED
  BY <1>1, <1>2

LEMMA CancellationFailsEffect ==
    ASSUME MailTypeOK, NEW w \in Workers, CancellationFails(w)
    PROVE  /\ mailHandler'[w].pc = "queueDeletion"
           /\ mailHandler'[w].order = mailHandler[w].order
           /\ mailHandler'[w].job = mailHandler[w].job
           /\ \A v \in Workers \ {w} : mailHandler'[v] = mailHandler[v]
           /\ mailHandler[w].pc = "cancel"
           /\ mailHandler[w].order # None
           /\ mailOrder' = mailOrder
           /\ mailCut' = mailCut
           /\ mailbox' = mailbox
           /\ mailQueue' = mailQueue
           /\ lostOrders' = lostOrders
           /\ mailCrowded' = mailCrowded
<1>1. /\ mailHandler'[w].pc = "queueDeletion"
      /\ mailHandler'[w].order = mailHandler[w].order
      /\ mailHandler'[w].job = mailHandler[w].job
      /\ \A v \in Workers \ {w} : mailHandler'[v] = mailHandler[v]
  BY MailGoes DEF CancellationFails
<1>2. /\ mailHandler[w].pc = "cancel"
      /\ mailHandler[w].order # None
      /\ mailOrder' = mailOrder
      /\ mailCut' = mailCut
      /\ mailbox' = mailbox
      /\ mailQueue' = mailQueue
      /\ lostOrders' = lostOrders
      /\ mailCrowded' = mailCrowded
  BY MailTypes DEF CancellationFails, MailAt, At, IsLive, MailFault, MailTypeOK
<1>3. QED
  BY <1>1, <1>2

LEMMA RenewMailOrderEffect ==
    ASSUME MailTypeOK, NEW w \in Workers, RenewMailOrder(w)
    PROVE  /\ mailHandler[w].pc = "renew"
           /\ \/ /\ IsLive(mailHandler[w].order)
                 /\ mailHandler'[w].pc = "saveRenewal"
                 /\ mailHandler'[w].order = mailHandler[w].order
                 /\ mailHandler'[w].job = mailHandler[w].job
              \/ /\ mailHandler'[w].pc = "idle"
                 /\ mailHandler'[w].order = None
                 /\ mailHandler'[w].job = None
           /\ \A v \in Workers \ {w} : mailHandler'[v] = mailHandler[v]
           /\ mailbox' = mailbox
           /\ mailQueue' = mailQueue
           /\ mailOrder' = mailOrder
           /\ lostOrders' = lostOrders
           /\ mailCut' = mailCut
           /\ mailCrowded' = mailCrowded
<1>1. /\ mailHandler[w].pc = "renew"
      /\ \/ /\ IsLive(mailHandler[w].order)
            /\ mailHandler'[w].pc = "saveRenewal"
            /\ mailHandler'[w].order = mailHandler[w].order
            /\ mailHandler'[w].job = mailHandler[w].job
         \/ /\ mailHandler'[w].pc = "idle"
            /\ mailHandler'[w].order = None
            /\ mailHandler'[w].job = None
      /\ \A v \in Workers \ {w} : mailHandler'[v] = mailHandler[v]
      /\ mailbox' = mailbox
      /\ mailQueue' = mailQueue
      /\ mailOrder' = mailOrder
      /\ lostOrders' = lostOrders
      /\ mailCut' = mailCut
      /\ mailCrowded' = mailCrowded
  BY MailGoes, MailReturns DEF RenewMailOrder, MailAt, At, mailHistories
<1>2. QED
  BY <1>1

LEMMA SaveMailRenewalEffect ==
    ASSUME MailTypeOK, NEW w \in Workers, SaveMailRenewal(w)
    PROVE  /\ mailHandler'[w].pc = "idle"
           /\ mailHandler'[w].order = None
           /\ mailHandler'[w].job = None
           /\ \A v \in Workers \ {w} : mailHandler'[v] = mailHandler[v]
           /\ mailHandler[w].pc = "saveRenewal"
           /\ mailbox'.status = "ACTIVE"
           /\ mailbox'.order = mailbox.order
           /\ mailbox'.provider = mailbox.provider
           /\ mailQueue' = mailQueue
           /\ mailOrder' = mailOrder
           /\ lostOrders' = lostOrders
           /\ mailCut' = mailCut
           /\ mailCrowded' = mailCrowded
<1>1. /\ mailHandler'[w].pc = "idle"
      /\ mailHandler'[w].order = None
      /\ mailHandler'[w].job = None
      /\ \A v \in Workers \ {w} : mailHandler'[v] = mailHandler[v]
  BY MailReturns DEF SaveMailRenewal
<1>2. /\ mailHandler[w].pc = "saveRenewal"
      /\ mailbox'.status = "ACTIVE"
      /\ mailbox'.order = mailbox.order
      /\ mailbox'.provider = mailbox.provider
      /\ mailQueue' = mailQueue
      /\ mailOrder' = mailOrder
      /\ lostOrders' = lostOrders
      /\ mailCut' = mailCut
      /\ mailCrowded' = mailCrowded
  BY MailTypes DEF SaveMailRenewal, MailAt, At, SetMailStatus, WriteMailbox, mailHistories
<1>3. QED
  BY <1>1, <1>2

LEMMA PlaceOrderEffect ==
    ASSUME MailTypeOK, NEW w \in Workers, PlaceOrder(w)
    PROVE  /\ mailHandler'[w].pc \in {"mailbox", "save"}
           /\ mailHandler'[w].order = NextOrder
           /\ mailHandler'[w].job = mailHandler[w].job
           /\ \A v \in Workers \ {w} : mailHandler'[v] = mailHandler[v]
           /\ mailHandler[w].pc = "order"
           /\ NextOrder \in MailOrders
           /\ mailOrder[NextOrder] = "none"
           /\ mailOrder'[NextOrder] = "live"
           /\ \A o \in MailOrders \ {NextOrder} : mailOrder'[o] = mailOrder[o]
           /\ mailbox' = mailbox
           /\ mailQueue' = mailQueue
           /\ lostOrders' = lostOrders
           /\ mailCut' = mailCut
           /\ mailCrowded' = mailCrowded
<1>1. /\ mailHandler'[w].pc \in {"mailbox", "save"}
      /\ mailHandler'[w].order = NextOrder
      /\ mailHandler'[w].job = mailHandler[w].job
      /\ \A v \in Workers \ {w} : mailHandler'[v] = mailHandler[v]
  BY MailTypes DEF PlaceOrder, MailTypeOK
<1>2. /\ mailHandler[w].pc = "order"
      /\ NextOrder \in MailOrders
      /\ mailOrder[NextOrder] = "none"
      /\ mailOrder'[NextOrder] = "live"
      /\ \A o \in MailOrders \ {NextOrder} : mailOrder'[o] = mailOrder[o]
      /\ mailbox' = mailbox
      /\ mailQueue' = mailQueue
      /\ lostOrders' = lostOrders
      /\ mailCut' = mailCut
      /\ mailCrowded' = mailCrowded
  BY NextIsUnused DEF PlaceOrder, MailAt, At, Unused, MarkOrder, mailHistories, MailTypeOK
<1>3. QED
  BY <1>1, <1>2

LEMMA OrderFailsEffect ==
    ASSUME MailTypeOK, NEW w \in Workers, OrderFails(w)
    PROVE  /\ mailHandler'[w].pc = "giveUp"
           /\ mailHandler'[w].order = mailHandler[w].order
           /\ mailHandler'[w].job = mailHandler[w].job
           /\ \A v \in Workers \ {w} : mailHandler'[v] = mailHandler[v]
           /\ mailHandler[w].pc = "order"
           /\ \A o \in MailOrders :
                 \/ mailOrder'[o] = mailOrder[o]
                 \/ mailOrder[o] = "none" /\ mailOrder'[o] = "live" /\ o \in lostOrders'
           /\ lostOrders \subseteq lostOrders'
           /\ mailCut => mailCut'
           /\ mailbox' = mailbox
           /\ mailQueue' = mailQueue
           /\ mailCrowded' = mailCrowded
<1>1. /\ mailHandler'[w].pc = "giveUp"
      /\ mailHandler'[w].order = mailHandler[w].order
      /\ mailHandler'[w].job = mailHandler[w].job
      /\ \A v \in Workers \ {w} : mailHandler'[v] = mailHandler[v]
  BY MailGoes DEF OrderFails
<1>2. /\ mailHandler[w].pc = "order"
      /\ \A o \in MailOrders :
            \/ mailOrder'[o] = mailOrder[o]
            \/ mailOrder[o] = "none" /\ mailOrder'[o] = "live" /\ o \in lostOrders'
      /\ lostOrders \subseteq lostOrders'
      /\ mailCut => mailCut'
      /\ mailbox' = mailbox
      /\ mailQueue' = mailQueue
      /\ mailCrowded' = mailCrowded
  BY NextIsUnused, MailTypes DEF OrderFails, MailAt, At, Unused, MailTypeOK
<1>3. QED
  BY <1>1, <1>2

LEMMA CreateTitanMailboxEffect ==
    ASSUME MailTypeOK, NEW w \in Workers, CreateTitanMailbox(w)
    PROVE  /\ mailHandler'[w].pc = "save"
           /\ mailHandler'[w].order = mailHandler[w].order
           /\ mailHandler'[w].job = mailHandler[w].job
           /\ \A v \in Workers \ {w} : mailHandler'[v] = mailHandler[v]
           /\ mailHandler[w].pc = "mailbox"
           /\ mailbox' = mailbox
           /\ mailQueue' = mailQueue
           /\ mailOrder' = mailOrder
           /\ lostOrders' = lostOrders
           /\ mailCut' = mailCut
           /\ mailCrowded' = mailCrowded
<1>1. /\ mailHandler'[w].pc = "save"
      /\ mailHandler'[w].order = mailHandler[w].order
      /\ mailHandler'[w].job = mailHandler[w].job
      /\ \A v \in Workers \ {w} : mailHandler'[v] = mailHandler[v]
  BY MailGoes DEF CreateTitanMailbox
<1>2. /\ mailHandler[w].pc = "mailbox"
      /\ mailbox' = mailbox
      /\ mailQueue' = mailQueue
      /\ mailOrder' = mailOrder
      /\ lostOrders' = lostOrders
      /\ mailCut' = mailCut
      /\ mailCrowded' = mailCrowded
  BY DEF CreateTitanMailbox, MailAt, At, mailHistories
<1>3. QED
  BY <1>1, <1>2

LEMMA ProvisioningFailsEffect ==
    ASSUME MailTypeOK, NEW w \in Workers, ProvisioningFails(w)
    PROVE  /\ mailHandler'[w].pc = "giveUp"
           /\ mailHandler'[w].order = mailHandler[w].order
           /\ mailHandler'[w].job = mailHandler[w].job
           /\ \A v \in Workers \ {w} : mailHandler'[v] = mailHandler[v]
           /\ mailHandler[w].pc \in {"mailbox", "save"}
           /\ lostOrders' = lostOrders \cup {mailHandler[w].order}
           /\ mailbox' = mailbox
           /\ mailQueue' = mailQueue
           /\ mailOrder' = mailOrder
           /\ mailCut' = mailCut
           /\ mailCrowded' = mailCrowded
<1>1. /\ mailHandler'[w].pc = "giveUp"
      /\ mailHandler'[w].order = mailHandler[w].order
      /\ mailHandler'[w].job = mailHandler[w].job
      /\ \A v \in Workers \ {w} : mailHandler'[v] = mailHandler[v]
  BY MailGoes DEF ProvisioningFails
<1>2. /\ mailHandler[w].pc \in {"mailbox", "save"}
      /\ lostOrders' = lostOrders \cup {mailHandler[w].order}
      /\ mailbox' = mailbox
      /\ mailQueue' = mailQueue
      /\ mailOrder' = mailOrder
      /\ mailCut' = mailCut
      /\ mailCrowded' = mailCrowded
  BY DEF ProvisioningFails, MailAt, At
<1>3. QED
  BY <1>1, <1>2

LEMMA SaveMailOrderEffect ==
    ASSUME MailTypeOK, NEW w \in Workers, SaveMailOrder(w), mailHandler[w].job \in Jobs
    PROVE  /\ mailHandler'[w].pc = "idle"
           /\ mailHandler'[w].order = None
           /\ mailHandler'[w].job = None
           /\ \A v \in Workers \ {w} : mailHandler'[v] = mailHandler[v]
           /\ mailHandler[w].pc = "save"
           /\ mailbox'.status = "ACTIVE"
           /\ mailbox'.order = mailHandler[w].order
           /\ mailbox'.provider = mailbox.provider
           /\ mailQueue'[mailHandler[w].job].kind = None
           /\ mailQueue'[mailHandler[w].job].state = "none"
           /\ \A i \in Jobs \ {mailHandler[w].job} : mailQueue'[i] = mailQueue[i]
           /\ mailOrder' = mailOrder
           /\ lostOrders' = lostOrders
           /\ mailCut' = mailCut
           /\ mailCrowded' = mailCrowded
<1>1. /\ mailHandler'[w].pc = "idle"
      /\ mailHandler'[w].order = None
      /\ mailHandler'[w].job = None
      /\ \A v \in Workers \ {w} : mailHandler'[v] = mailHandler[v]
  BY MailReturns DEF SaveMailOrder
<1>2. /\ mailHandler[w].pc = "save"
      /\ mailbox'.status = "ACTIVE"
      /\ mailbox'.order = mailHandler[w].order
      /\ mailbox'.provider = mailbox.provider
      /\ mailQueue'[mailHandler[w].job].kind = None
      /\ mailQueue'[mailHandler[w].job].state = "none"
      /\ \A i \in Jobs \ {mailHandler[w].job} : mailQueue'[i] = mailQueue[i]
      /\ mailOrder' = mailOrder
      /\ lostOrders' = lostOrders
      /\ mailCut' = mailCut
      /\ mailCrowded' = mailCrowded
  BY MailTypes, JobRemoved DEF SaveMailOrder, MailAt, At, MailJobDone, mailHistories
<1>3. QED
  BY <1>1, <1>2

LEMMA GiveUpProvisioningEffect ==
    ASSUME MailTypeOK, NEW w \in Workers, GiveUpProvisioning(w)
    PROVE  /\ mailHandler'[w].pc = "retry"
           /\ mailHandler'[w].order = mailHandler[w].order
           /\ mailHandler'[w].job = mailHandler[w].job
           /\ \A v \in Workers \ {w} : mailHandler'[v] = mailHandler[v]
           /\ mailHandler[w].pc = "giveUp"
           /\ mailbox'.status = "PENDING_SETUP"
           /\ mailbox'.order = mailbox.order
           /\ mailbox'.provider = mailbox.provider
           /\ mailQueue' = mailQueue
           /\ mailOrder' = mailOrder
           /\ lostOrders' = lostOrders
           /\ mailCut' = mailCut
           /\ mailCrowded' = mailCrowded
<1>1. /\ mailHandler'[w].pc = "retry"
      /\ mailHandler'[w].order = mailHandler[w].order
      /\ mailHandler'[w].job = mailHandler[w].job
      /\ \A v \in Workers \ {w} : mailHandler'[v] = mailHandler[v]
  BY MailGoes DEF GiveUpProvisioning
<1>2. /\ mailHandler[w].pc = "giveUp"
      /\ mailbox'.status = "PENDING_SETUP"
      /\ mailbox'.order = mailbox.order
      /\ mailbox'.provider = mailbox.provider
      /\ mailQueue' = mailQueue
      /\ mailOrder' = mailOrder
      /\ lostOrders' = lostOrders
      /\ mailCut' = mailCut
      /\ mailCrowded' = mailCrowded
  BY MailTypes DEF GiveUpProvisioning, MailAt, At, SetMailStatus, WriteMailbox,
      mailHistories
<1>3. QED
  BY <1>1, <1>2

LEMMA RetryMailJobEffect ==
    ASSUME MailTypeOK, NEW w \in Workers, RetryMailJob(w), mailHandler[w].job \in Jobs
    PROVE  /\ mailHandler'[w].pc = "idle"
           /\ mailHandler'[w].order = None
           /\ mailHandler'[w].job = None
           /\ \A v \in Workers \ {w} : mailHandler'[v] = mailHandler[v]
           /\ mailHandler[w].pc = "retry"
           /\ \/ /\ mailQueue'[mailHandler[w].job].kind = None
                 /\ mailQueue'[mailHandler[w].job].state = "none"
              \/ /\ mailQueue'[mailHandler[w].job].kind = mailQueue[mailHandler[w].job].kind
                 /\ mailQueue'[mailHandler[w].job].on = mailQueue[mailHandler[w].job].on
           /\ \A i \in Jobs \ {mailHandler[w].job} : mailQueue'[i] = mailQueue[i]
           /\ mailbox' = mailbox
           /\ mailOrder' = mailOrder
           /\ lostOrders' = lostOrders
           /\ mailCut' = mailCut
           /\ mailCrowded' = mailCrowded
<1>1. /\ mailHandler'[w].pc = "idle"
      /\ mailHandler'[w].order = None
      /\ mailHandler'[w].job = None
      /\ \A v \in Workers \ {w} : mailHandler'[v] = mailHandler[v]
  BY MailReturns DEF RetryMailJob
<1>2. /\ mailHandler[w].pc = "retry"
      /\ \/ /\ mailQueue'[mailHandler[w].job].kind = None
            /\ mailQueue'[mailHandler[w].job].state = "none"
         \/ /\ mailQueue'[mailHandler[w].job].kind = mailQueue[mailHandler[w].job].kind
            /\ mailQueue'[mailHandler[w].job].on = mailQueue[mailHandler[w].job].on
      /\ \A i \in Jobs \ {mailHandler[w].job} : mailQueue'[i] = mailQueue[i]
      /\ mailbox' = mailbox
      /\ mailOrder' = mailOrder
      /\ lostOrders' = lostOrders
      /\ mailCut' = mailCut
      /\ mailCrowded' = mailCrowded
  BY MailTypes DEF RetryMailJob, MailAt, At, AfterFailure, NoJob, MailTypeOK, MailJob
<1>3. QED
  BY <1>1, <1>2

LEMMA DeleteQueuedOrderEffect ==
    ASSUME MailTypeOK, NEW w \in Workers, DeleteQueuedOrder(w), mailHandler[w].order # None
    PROVE  /\ mailHandler'[w].pc = "cancelQueued"
           /\ mailHandler'[w].order = mailHandler[w].order
           /\ mailHandler'[w].job = mailHandler[w].job
           /\ \A v \in Workers \ {w} : mailHandler'[v] = mailHandler[v]
           /\ mailHandler[w].pc = "deleteQueued"
           /\ IsLive(mailHandler[w].order)
           /\ mailOrder'[mailHandler[w].order] = "deleted"
           /\ \A o \in MailOrders \ {mailHandler[w].order} : mailOrder'[o] = mailOrder[o]
           /\ mailbox' = mailbox
           /\ mailQueue' = mailQueue
           /\ lostOrders' = lostOrders
           /\ mailCut' = mailCut
           /\ mailCrowded' = mailCrowded
<1>1. /\ mailHandler'[w].pc = "cancelQueued"
      /\ mailHandler'[w].order = mailHandler[w].order
      /\ mailHandler'[w].job = mailHandler[w].job
      /\ \A v \in Workers \ {w} : mailHandler'[v] = mailHandler[v]
  BY MailGoes DEF DeleteQueuedOrder
<1>2. /\ mailHandler[w].pc = "deleteQueued"
      /\ IsLive(mailHandler[w].order)
      /\ mailOrder'[mailHandler[w].order] = "deleted"
      /\ \A o \in MailOrders \ {mailHandler[w].order} : mailOrder'[o] = mailOrder[o]
      /\ mailbox' = mailbox
      /\ mailQueue' = mailQueue
      /\ lostOrders' = lostOrders
      /\ mailCut' = mailCut
      /\ mailCrowded' = mailCrowded
  BY MailTypes DEF DeleteQueuedOrder, MailAt, At, MarkOrder, IsLive, mailHistories,
      MailTypeOK
<1>3. QED
  BY <1>1, <1>2

LEMMA QueuedOrderNotDeletedEffect ==
    ASSUME MailTypeOK, NEW w \in Workers, QueuedOrderNotDeleted(w)
    PROVE  /\ mailHandler'[w].pc = "retry"
           /\ mailHandler'[w].order = mailHandler[w].order
           /\ mailHandler'[w].job = mailHandler[w].job
           /\ \A v \in Workers \ {w} : mailHandler'[v] = mailHandler[v]
           /\ mailHandler[w].pc = "deleteQueued"
           /\ \A o \in MailOrders :
                 mailOrder'[o] = mailOrder[o] \/ (mailOrder'[o] = "deleted" /\ mailCut')
           /\ mailCut => mailCut'
           /\ mailbox' = mailbox
           /\ mailQueue' = mailQueue
           /\ lostOrders' = lostOrders
           /\ mailCrowded' = mailCrowded
<1>1. /\ mailHandler'[w].pc = "retry"
      /\ mailHandler'[w].order = mailHandler[w].order
      /\ mailHandler'[w].job = mailHandler[w].job
      /\ \A v \in Workers \ {w} : mailHandler'[v] = mailHandler[v]
  BY MailGoes DEF QueuedOrderNotDeleted
<1>2. /\ mailHandler[w].pc = "deleteQueued"
      /\ \A o \in MailOrders :
            mailOrder'[o] = mailOrder[o] \/ (mailOrder'[o] = "deleted" /\ mailCut')
      /\ mailCut => mailCut'
      /\ mailbox' = mailbox
      /\ mailQueue' = mailQueue
      /\ lostOrders' = lostOrders
      /\ mailCrowded' = mailCrowded
  BY MailTypes DEF QueuedOrderNotDeleted, MailAt, At, IsLive, MailFault, MailTypeOK
<1>3. QED
  BY <1>1, <1>2

LEMMA CancelQueuedEffect ==
    ASSUME MailTypeOK, NEW w \in Workers, CancelQueued(w), mailHandler[w].job \in Jobs
    PROVE  /\ mailHandler'[w].pc = "idle"
           /\ mailHandler'[w].order = None
           /\ mailHandler'[w].job = None
           /\ \A v \in Workers \ {w} : mailHandler'[v] = mailHandler[v]
           /\ mailHandler[w].pc = "cancelQueued"
           /\ mailbox'.status = "CANCELLED"
           /\ mailbox'.order = mailbox.order
           /\ mailbox'.provider = mailbox.provider
           /\ mailQueue'[mailHandler[w].job].kind = None
           /\ mailQueue'[mailHandler[w].job].state = "none"
           /\ \A i \in Jobs \ {mailHandler[w].job} : mailQueue'[i] = mailQueue[i]
           /\ mailOrder' = mailOrder
           /\ lostOrders' = lostOrders
           /\ mailCut' = mailCut
           /\ mailCrowded' = mailCrowded
<1>1. /\ mailHandler'[w].pc = "idle"
      /\ mailHandler'[w].order = None
      /\ mailHandler'[w].job = None
      /\ \A v \in Workers \ {w} : mailHandler'[v] = mailHandler[v]
  BY MailReturns DEF CancelQueued
<1>2. /\ mailHandler[w].pc = "cancelQueued"
      /\ mailbox'.status = "CANCELLED"
      /\ mailbox'.order = mailbox.order
      /\ mailbox'.provider = mailbox.provider
      /\ mailQueue'[mailHandler[w].job].kind = None
      /\ mailQueue'[mailHandler[w].job].state = "none"
      /\ \A i \in Jobs \ {mailHandler[w].job} : mailQueue'[i] = mailQueue[i]
      /\ mailOrder' = mailOrder
      /\ lostOrders' = lostOrders
      /\ mailCut' = mailCut
      /\ mailCrowded' = mailCrowded
  BY MailTypes, JobRemoved DEF CancelQueued, MailAt, At, MailJobDone, mailHistories
<1>3. QED
  BY <1>1, <1>2

LEMMA QueuedCancellationFailsEffect ==
    ASSUME MailTypeOK, NEW w \in Workers, QueuedCancellationFails(w)
    PROVE  /\ mailHandler'[w].pc = "retry"
           /\ mailHandler'[w].order = mailHandler[w].order
           /\ mailHandler'[w].job = mailHandler[w].job
           /\ \A v \in Workers \ {w} : mailHandler'[v] = mailHandler[v]
           /\ mailHandler[w].pc = "cancelQueued"
           /\ mailOrder' = mailOrder
           /\ mailCut'
           /\ mailbox' = mailbox
           /\ mailQueue' = mailQueue
           /\ lostOrders' = lostOrders
           /\ mailCrowded' = mailCrowded
<1>1. /\ mailHandler'[w].pc = "retry"
      /\ mailHandler'[w].order = mailHandler[w].order
      /\ mailHandler'[w].job = mailHandler[w].job
      /\ \A v \in Workers \ {w} : mailHandler'[v] = mailHandler[v]
  BY MailGoes DEF QueuedCancellationFails
<1>2. /\ mailHandler[w].pc = "cancelQueued"
      /\ mailOrder' = mailOrder
      /\ mailCut'
      /\ mailbox' = mailbox
      /\ mailQueue' = mailQueue
      /\ lostOrders' = lostOrders
      /\ mailCrowded' = mailCrowded
  BY MailTypes DEF QueuedCancellationFails, MailAt, At, IsLive, MailFault, MailTypeOK
<1>3. QED
  BY <1>1, <1>2

LEMMA MailBreaksOffEffect ==
    ASSUME MailTypeOK, NEW w \in Workers, MailBreaksOff(w)
    PROVE  /\ mailHandler'[w].pc = "idle"
           /\ mailHandler'[w].order = None
           /\ mailHandler'[w].job = None
           /\ \A v \in Workers \ {w} : mailHandler'[v] = mailHandler[v]
           /\ mailHandler[w].pc # "idle"
           /\ \A i \in Jobs : mailQueue'[i].kind = mailQueue[i].kind
                  /\ mailQueue'[i].on = mailQueue[i].on
           /\ \A i \in Jobs : i # mailHandler[w].job => mailQueue'[i] = mailQueue[i]
           /\ lostOrders \subseteq lostOrders'
           /\ mailHandler[w].pc \in {"mailbox",
                  "save"} => mailHandler[w].order \in lostOrders'
           /\ mailbox' = mailbox
           /\ mailOrder' = mailOrder
           /\ mailCut'
           /\ mailCrowded' = mailCrowded
<1>1. /\ mailHandler'[w].pc = "idle"
      /\ mailHandler'[w].order = None
      /\ mailHandler'[w].job = None
      /\ \A v \in Workers \ {w} : mailHandler'[v] = mailHandler[v]
  BY MailReturns DEF MailBreaksOff
<1>2. /\ mailHandler[w].pc # "idle"
      /\ \A i \in Jobs : mailQueue'[i].kind = mailQueue[i].kind
             /\ mailQueue'[i].on = mailQueue[i].on
      /\ \A i \in Jobs : i # mailHandler[w].job => mailQueue'[i] = mailQueue[i]
      /\ lostOrders \subseteq lostOrders'
      /\ mailHandler[w].pc \in {"mailbox", "save"} => mailHandler[w].order \in lostOrders'
      /\ mailbox' = mailbox
      /\ mailOrder' = mailOrder
      /\ mailCut'
      /\ mailCrowded' = mailCrowded
  BY MailTypes DEF MailBreaksOff, MailAt, At, MailTypeOK, MailJob
<1>3. QED
  BY <1>1, <1>2

--------------------------------------------------------------------------------
\* Types.

LEMMA CreateEmailAccountType ==
    ASSUME MailTypeOK, MailInv, NEW w \in Workers, NEW provider \in {"TITAN",
        "GOOGLE_WORKSPACE"}, CreateEmailAccount(w, provider)
    PROVE  MailTypeOK'
  BY MailTypes, JobsAssumption DEF CreateEmailAccount, StartMail, IdleMail, MailAt, At,
      MailTypeOK, MailRow, MailJob, MailStatus, MailSteps

LEMMA DeleteEmailAccountType ==
    ASSUME MailTypeOK, MailInv, NEW w \in Workers, DeleteEmailAccount(w)
    PROVE  MailTypeOK'
  BY MailTypes DEF DeleteEmailAccount, StartMail, IdleMail, MailAt, At, MailTypeOK,
      MailRow, MailJob, MailStatus, MailSteps

LEMMA RenewEmailType ==
    ASSUME MailTypeOK, MailInv, NEW w \in Workers, RenewEmail(w)
    PROVE  MailTypeOK'
  BY MailTypes DEF RenewEmail, StartMail, IdleMail, MailAt, At, MailTypeOK, MailRow,
      MailJob, MailStatus, MailSteps

LEMMA TakeMailJobType ==
    ASSUME MailTypeOK, MailInv, NEW w \in Workers, NEW j \in Jobs, TakeMailJob(w, j)
    PROVE  MailTypeOK'
  BY MailTypes, JobsAssumption DEF TakeMailJob, StartMail, MailAt, At, MailTypeOK,
      MailRow, MailJob, MailStatus, MailSteps

LEMMA QueueMailboxType ==
    ASSUME MailTypeOK, MailInv, NEW w \in Workers, QueueMailbox(w)
    PROVE  MailTypeOK'
  BY MailTypes, JobsAssumption DEF QueueMailbox, MailAt, AddMailJob, MailReturn, At,
      Free, QueuedJob, mailHistories, IdleMail, MailTypeOK, MailRow, MailJob, MailStatus,
      MailSteps

LEMMA SuspendMailboxType ==
    ASSUME MailTypeOK, MailInv, NEW w \in Workers, SuspendMailbox(w)
    PROVE  MailTypeOK'
  BY MailTypes DEF SuspendMailbox, MailAt, SetMailStatus, MailGoto, At, WriteMailbox,
      Goto, mailHistories, MailTypeOK, MailRow, MailJob, MailStatus, MailSteps

LEMMA DeleteMailOrderType ==
    ASSUME MailTypeOK, MailInv, NEW w \in Workers, DeleteMailOrder(w)
    PROVE  MailTypeOK'
<1>1. mailbox' \in MailRow
  BY MailTypes DEF DeleteMailOrder, MailAt, MarkOrder, MailGoto, At, mailHistories, Goto,
      MailTypeOK, MailRow, MailStatus
<1>2. mailOrder' \in [MailOrders -> {"none", "live", "deleted"}]
  BY MailTypes DEF DeleteMailOrder, MailAt, MarkOrder, MailGoto, At, mailHistories, Goto,
      MailTypeOK
<1>3. mailQueue' \in [Jobs -> MailJob]
  BY MailTypes, QueueTypes DEF DeleteMailOrder, MailAt, MarkOrder, At, mailHistories,
      MailTypeOK
<1>4. mailHandler' \in [Workers -> [pc : MailSteps, order : MailOrders \cup {None},
                                  job : Jobs \cup {None}]]
  BY HandlerTypes DEF DeleteMailOrder, MailSteps
<1>5. /\ lostOrders' \subseteq MailOrders /\ abandoned' \in BOOLEAN
      /\ mailCut' \in BOOLEAN /\ mailCrowded' \in BOOLEAN
  BY MailTypes DEF DeleteMailOrder, MailAt, MarkOrder, MailGoto, At, mailHistories, Goto,
      MailTypeOK
<1>6. mailFaults' \in 0..MaxFaults
  BY MailTypes DEF DeleteMailOrder, mailHistories, MarkOrder
<1>7. QED
  BY <1>1, <1>2, <1>3, <1>4, <1>5, <1>6 DEF MailTypeOK

LEMMA MailOrderNotDeletedType ==
    ASSUME MailTypeOK, MailInv, NEW w \in Workers, MailOrderNotDeleted(w)
    PROVE  MailTypeOK'
<1>1. mailbox' \in MailRow
  BY MailTypes DEF MailOrderNotDeleted, MailAt, MailFault, MailGoto, At, Goto,
      MailTypeOK, MailRow, MailStatus
<1>2. mailOrder' \in [MailOrders -> {"none", "live", "deleted"}]
  BY MailTypes DEF MailOrderNotDeleted, MailAt, MailFault, MailGoto, At, Goto, MailTypeOK
<1>3. mailQueue' \in [Jobs -> MailJob]
  BY MailTypes, QueueTypes DEF MailOrderNotDeleted, MailAt, MailFault, At, MailTypeOK
<1>4. mailHandler' \in [Workers -> [pc : MailSteps, order : MailOrders \cup {None},
                                  job : Jobs \cup {None}]]
  BY HandlerTypes DEF MailOrderNotDeleted, MailSteps
<1>5. /\ lostOrders' \subseteq MailOrders /\ abandoned' \in BOOLEAN
      /\ mailCut' \in BOOLEAN /\ mailCrowded' \in BOOLEAN
  BY MailTypes DEF MailOrderNotDeleted, MailAt, MailFault, MailGoto, At, Goto, MailTypeOK
<1>6. mailFaults' \in 0..MaxFaults
  BY MailTypes DEF MailOrderNotDeleted, MailFault
<1>7. QED
  BY <1>1, <1>2, <1>3, <1>4, <1>5, <1>6 DEF MailTypeOK

LEMMA QueueDeletionType ==
    ASSUME MailTypeOK, MailInv, NEW w \in Workers, QueueDeletion(w)
    PROVE  MailTypeOK'
  BY MailTypes, JobsAssumption DEF QueueDeletion, MailAt, AddMailJob, MailReturn, At,
      Free, QueuedJob, mailHistories, IdleMail, MailTypeOK, MailRow, MailJob, MailStatus,
      MailSteps

LEMMA CancelMailboxType ==
    ASSUME MailTypeOK, MailInv, NEW w \in Workers, CancelMailbox(w)
    PROVE  MailTypeOK'
  BY MailTypes DEF CancelMailbox, MailAt, SetMailStatus, MailReturn, At, WriteMailbox,
      IdleMail, mailHistories, MailTypeOK, MailRow, MailJob, MailStatus, MailSteps

LEMMA CancellationFailsType ==
    ASSUME MailTypeOK, MailInv, NEW w \in Workers, CancellationFails(w)
    PROVE  MailTypeOK'
<1>1. mailbox' \in MailRow
  BY MailTypes DEF CancellationFails, MailAt, MailFault, MailGoto, At, Goto,
      MailTypeOK, MailRow, MailStatus
<1>2. mailOrder' \in [MailOrders -> {"none", "live", "deleted"}]
  BY MailTypes DEF CancellationFails, MailAt, MailFault, MailGoto, At, Goto, MailTypeOK
<1>3. mailQueue' \in [Jobs -> MailJob]
  BY MailTypes, QueueTypes DEF CancellationFails, MailAt, MailFault, At, MailTypeOK
<1>4. mailHandler' \in [Workers -> [pc : MailSteps, order : MailOrders \cup {None},
                                  job : Jobs \cup {None}]]
  BY HandlerTypes DEF CancellationFails, MailSteps
<1>5. /\ lostOrders' \subseteq MailOrders /\ abandoned' \in BOOLEAN
      /\ mailCut' \in BOOLEAN /\ mailCrowded' \in BOOLEAN
  BY MailTypes DEF CancellationFails, MailAt, MailFault, MailGoto, At, Goto, MailTypeOK
<1>6. mailFaults' \in 0..MaxFaults
  BY MailTypes DEF CancellationFails, MailFault
<1>7. QED
  BY <1>1, <1>2, <1>3, <1>4, <1>5, <1>6 DEF MailTypeOK

LEMMA RenewMailOrderType ==
    ASSUME MailTypeOK, MailInv, NEW w \in Workers, RenewMailOrder(w)
    PROVE  MailTypeOK'
<1>1. mailbox' \in MailRow
  BY MailTypes DEF RenewMailOrder, MailAt, MailGoto, MailReturn, mailHistories, At, Goto,
      IdleMail, MailTypeOK, MailRow, MailStatus
<1>2. mailOrder' \in [MailOrders -> {"none", "live", "deleted"}]
  BY MailTypes DEF RenewMailOrder, MailAt, MailGoto, MailReturn, mailHistories, At, Goto,
      IdleMail, MailTypeOK
<1>3. mailQueue' \in [Jobs -> MailJob]
  BY MailTypes, QueueTypes DEF RenewMailOrder, MailAt, mailHistories, At, MailTypeOK
<1>4. mailHandler' \in [Workers -> [pc : MailSteps, order : MailOrders \cup {None},
                                  job : Jobs \cup {None}]]
  BY HandlerTypes DEF RenewMailOrder, MailSteps
<1>5. /\ lostOrders' \subseteq MailOrders /\ abandoned' \in BOOLEAN
      /\ mailCut' \in BOOLEAN /\ mailCrowded' \in BOOLEAN
  BY MailTypes DEF RenewMailOrder, MailAt, MailGoto, MailReturn, mailHistories, At, Goto,
      IdleMail, MailTypeOK
<1>6. mailFaults' \in 0..MaxFaults
  BY MailTypes DEF RenewMailOrder, mailHistories
<1>7. QED
  BY <1>1, <1>2, <1>3, <1>4, <1>5, <1>6 DEF MailTypeOK

LEMMA SaveMailRenewalType ==
    ASSUME MailTypeOK, MailInv, NEW w \in Workers, SaveMailRenewal(w)
    PROVE  MailTypeOK'
  BY MailTypes DEF SaveMailRenewal, MailAt, SetMailStatus, MailReturn, At, WriteMailbox,
      IdleMail, mailHistories, MailTypeOK, MailRow, MailJob, MailStatus, MailSteps

LEMMA PlaceOrderType ==
    ASSUME MailTypeOK, MailInv, NEW w \in Workers, PlaceOrder(w)
    PROVE  MailTypeOK'
  BY MailTypes, NextIsUnused DEF PlaceOrder, MailAt, Unused, MarkOrder, At,
      mailHistories, MailTypeOK, MailRow, MailJob, MailStatus, MailSteps

LEMMA OrderFailsType ==
    ASSUME MailTypeOK, MailInv, NEW w \in Workers, OrderFails(w)
    PROVE  MailTypeOK'
<1>1. mailbox' \in MailRow
  BY MailTypes, NextIsUnused DEF OrderFails, MailAt, Unused, MailGoto, MailFault, At,
      Goto, MailTypeOK, MailRow, MailStatus
<1>2. mailOrder' \in [MailOrders -> {"none", "live", "deleted"}]
  BY MailTypes, NextIsUnused DEF OrderFails, MailAt, Unused, MailGoto, MailFault, At,
      Goto, MailTypeOK
<1>3. mailQueue' \in [Jobs -> MailJob]
  BY MailTypes, NextIsUnused, QueueTypes DEF OrderFails, MailAt, Unused, MailFault, At,
      MailTypeOK
<1>4. mailHandler' \in [Workers -> [pc : MailSteps, order : MailOrders \cup {None},
                                  job : Jobs \cup {None}]]
  BY HandlerTypes DEF OrderFails, MailSteps
<1>5. /\ lostOrders' \subseteq MailOrders /\ abandoned' \in BOOLEAN
      /\ mailCut' \in BOOLEAN /\ mailCrowded' \in BOOLEAN
  BY MailTypes, NextIsUnused DEF OrderFails, MailAt, Unused, MailGoto, MailFault, At,
      Goto, MailTypeOK
<1>6. mailFaults' \in 0..MaxFaults
  BY MailTypes DEF OrderFails, MailFault
<1>7. QED
  BY <1>1, <1>2, <1>3, <1>4, <1>5, <1>6 DEF MailTypeOK

LEMMA CreateTitanMailboxType ==
    ASSUME MailTypeOK, MailInv, NEW w \in Workers, CreateTitanMailbox(w)
    PROVE  MailTypeOK'
  BY MailTypes DEF CreateTitanMailbox, MailAt, MailGoto, mailHistories, At, Goto,
      MailTypeOK, MailRow, MailJob, MailStatus, MailSteps

LEMMA ProvisioningFailsType ==
    ASSUME MailTypeOK, MailInv, NEW w \in Workers, ProvisioningFails(w)
    PROVE  MailTypeOK'
  BY MailTypes DEF ProvisioningFails, MailGoto, MailFault, Goto, MailTypeOK, MailRow,
      MailJob, MailStatus, MailSteps, MailInv, OrdersInHand

LEMMA SaveMailOrderType ==
    ASSUME MailTypeOK, MailInv, NEW w \in Workers, SaveMailOrder(w)
    PROVE  MailTypeOK'
<1>1. mailbox' \in MailRow
  BY MailTypes DEF SaveMailOrder, MailAt, MailJobDone, MailReturn, mailHistories, At,
      NoJob, IdleMail, MailTypeOK, MailRow, MailStatus
<1>2. mailOrder' \in [MailOrders -> {"none", "live", "deleted"}]
  BY MailTypes DEF SaveMailOrder, MailAt, MailJobDone, MailReturn, mailHistories, At,
      NoJob, IdleMail, MailTypeOK
<1>3. mailQueue' \in [Jobs -> MailJob]
  BY MailTypes, QueueTypes DEF SaveMailOrder, MailAt, MailJobDone, mailHistories, At,
      MailTypeOK
<1>4. mailHandler' \in [Workers -> [pc : MailSteps, order : MailOrders \cup {None},
                                  job : Jobs \cup {None}]]
  BY HandlerTypes DEF SaveMailOrder, MailSteps
<1>5. /\ lostOrders' \subseteq MailOrders /\ abandoned' \in BOOLEAN
      /\ mailCut' \in BOOLEAN /\ mailCrowded' \in BOOLEAN
  BY MailTypes DEF SaveMailOrder, MailAt, MailJobDone, MailReturn, mailHistories, At,
      NoJob, IdleMail, MailTypeOK
<1>6. mailFaults' \in 0..MaxFaults
  BY MailTypes DEF SaveMailOrder, mailHistories
<1>7. QED
  BY <1>1, <1>2, <1>3, <1>4, <1>5, <1>6 DEF MailTypeOK

LEMMA GiveUpProvisioningType ==
    ASSUME MailTypeOK, MailInv, NEW w \in Workers, GiveUpProvisioning(w)
    PROVE  MailTypeOK'
<1>1. mailbox' \in MailRow
  BY MailTypes DEF GiveUpProvisioning, MailAt, SetMailStatus, MailGoto, At, WriteMailbox,
      Goto, mailHistories, MailTypeOK, MailRow, MailStatus
<1>2. mailOrder' \in [MailOrders -> {"none", "live", "deleted"}]
  BY MailTypes DEF GiveUpProvisioning, MailAt, SetMailStatus, MailGoto, At, WriteMailbox,
      Goto, mailHistories, MailTypeOK
<1>3. mailQueue' \in [Jobs -> MailJob]
  BY MailTypes, QueueTypes DEF GiveUpProvisioning, MailAt, SetMailStatus, At,
      WriteMailbox, mailHistories, MailTypeOK
<1>4. mailHandler' \in [Workers -> [pc : MailSteps, order : MailOrders \cup {None},
                                  job : Jobs \cup {None}]]
  BY HandlerTypes DEF GiveUpProvisioning, MailSteps
<1>5. /\ lostOrders' \subseteq MailOrders /\ abandoned' \in BOOLEAN
      /\ mailCut' \in BOOLEAN /\ mailCrowded' \in BOOLEAN
  BY MailTypes DEF GiveUpProvisioning, MailAt, SetMailStatus, MailGoto, At, WriteMailbox,
      Goto, mailHistories, MailTypeOK
<1>6. mailFaults' \in 0..MaxFaults
  BY MailTypes DEF GiveUpProvisioning, mailHistories, SetMailStatus, WriteMailbox
<1>7. QED
  BY <1>1, <1>2, <1>3, <1>4, <1>5, <1>6 DEF MailTypeOK

LEMMA RetryMailJobType ==
    ASSUME MailTypeOK, MailInv, NEW w \in Workers, RetryMailJob(w)
    PROVE  MailTypeOK'
<1>1. mailbox' \in MailRow
  BY MailTypes DEF RetryMailJob, MailAt, AfterFailure, IsLastTry, MailReturn, At, NoJob,
      IdleMail, MailTypeOK, MailRow, MailStatus
<1>2. mailOrder' \in [MailOrders -> {"none", "live", "deleted"}]
  BY MailTypes DEF RetryMailJob, MailAt, AfterFailure, IsLastTry, MailReturn, At, NoJob,
      IdleMail, MailTypeOK
<1>3. mailQueue' \in [Jobs -> MailJob]
  BY MailTypes, QueueTypes DEF RetryMailJob, MailAt, At, MailTypeOK
<1>4. mailHandler' \in [Workers -> [pc : MailSteps, order : MailOrders \cup {None},
                                  job : Jobs \cup {None}]]
  BY HandlerTypes DEF RetryMailJob, MailSteps
<1>5. /\ lostOrders' \subseteq MailOrders /\ abandoned' \in BOOLEAN
      /\ mailCut' \in BOOLEAN /\ mailCrowded' \in BOOLEAN
  BY MailTypes DEF RetryMailJob, MailAt, AfterFailure, IsLastTry, MailReturn, At, NoJob,
      IdleMail, MailTypeOK
<1>6. mailFaults' \in 0..MaxFaults
  BY MailTypes DEF RetryMailJob
<1>7. QED
  BY <1>1, <1>2, <1>3, <1>4, <1>5, <1>6 DEF MailTypeOK

LEMMA DeleteQueuedOrderType ==
    ASSUME MailTypeOK, MailInv, NEW w \in Workers, DeleteQueuedOrder(w)
    PROVE  MailTypeOK'
<1>1. mailbox' \in MailRow
  BY MailTypes DEF DeleteQueuedOrder, MailAt, MarkOrder, MailGoto, At, mailHistories,
      Goto, MailTypeOK, MailRow, MailStatus
<1>2. mailOrder' \in [MailOrders -> {"none", "live", "deleted"}]
  BY MailTypes DEF DeleteQueuedOrder, MailAt, MarkOrder, MailGoto, At, mailHistories,
      Goto, MailTypeOK
<1>3. mailQueue' \in [Jobs -> MailJob]
  BY MailTypes, QueueTypes DEF DeleteQueuedOrder, MailAt, MarkOrder, At, mailHistories,
      MailTypeOK
<1>4. mailHandler' \in [Workers -> [pc : MailSteps, order : MailOrders \cup {None},
                                  job : Jobs \cup {None}]]
  BY HandlerTypes DEF DeleteQueuedOrder, MailSteps
<1>5. /\ lostOrders' \subseteq MailOrders /\ abandoned' \in BOOLEAN
      /\ mailCut' \in BOOLEAN /\ mailCrowded' \in BOOLEAN
  BY MailTypes DEF DeleteQueuedOrder, MailAt, MarkOrder, MailGoto, At, mailHistories,
      Goto, MailTypeOK
<1>6. mailFaults' \in 0..MaxFaults
  BY MailTypes DEF DeleteQueuedOrder, mailHistories, MarkOrder
<1>7. QED
  BY <1>1, <1>2, <1>3, <1>4, <1>5, <1>6 DEF MailTypeOK

LEMMA QueuedOrderNotDeletedType ==
    ASSUME MailTypeOK, MailInv, NEW w \in Workers, QueuedOrderNotDeleted(w)
    PROVE  MailTypeOK'
<1>1. mailbox' \in MailRow
  BY MailTypes DEF QueuedOrderNotDeleted, MailAt, MailFault, MailGoto, At, Goto,
      MailTypeOK, MailRow, MailStatus
<1>2. mailOrder' \in [MailOrders -> {"none", "live", "deleted"}]
  BY MailTypes DEF QueuedOrderNotDeleted, MailAt, MailFault, MailGoto, At, Goto, MailTypeOK
<1>3. mailQueue' \in [Jobs -> MailJob]
  BY MailTypes, QueueTypes DEF QueuedOrderNotDeleted, MailAt, MailFault, At, MailTypeOK
<1>4. mailHandler' \in [Workers -> [pc : MailSteps, order : MailOrders \cup {None},
                                  job : Jobs \cup {None}]]
  BY HandlerTypes DEF QueuedOrderNotDeleted, MailSteps
<1>5. /\ lostOrders' \subseteq MailOrders /\ abandoned' \in BOOLEAN
      /\ mailCut' \in BOOLEAN /\ mailCrowded' \in BOOLEAN
  BY MailTypes DEF QueuedOrderNotDeleted, MailAt, MailFault, MailGoto, At, Goto, MailTypeOK
<1>6. mailFaults' \in 0..MaxFaults
  BY MailTypes DEF QueuedOrderNotDeleted, MailFault
<1>7. QED
  BY <1>1, <1>2, <1>3, <1>4, <1>5, <1>6 DEF MailTypeOK

LEMMA CancelQueuedType ==
    ASSUME MailTypeOK, MailInv, NEW w \in Workers, CancelQueued(w)
    PROVE  MailTypeOK'
<1>1. mailbox' \in MailRow
  BY MailTypes DEF CancelQueued, MailAt, MailJobDone, MailReturn, mailHistories, At,
      NoJob, IdleMail, MailTypeOK, MailRow, MailStatus
<1>2. mailOrder' \in [MailOrders -> {"none", "live", "deleted"}]
  BY MailTypes DEF CancelQueued, MailAt, MailJobDone, MailReturn, mailHistories, At,
      NoJob, IdleMail, MailTypeOK
<1>3. mailQueue' \in [Jobs -> MailJob]
  BY MailTypes, QueueTypes DEF CancelQueued, MailAt, MailJobDone, mailHistories, At,
      MailTypeOK
<1>4. mailHandler' \in [Workers -> [pc : MailSteps, order : MailOrders \cup {None},
                                  job : Jobs \cup {None}]]
  BY HandlerTypes DEF CancelQueued, MailSteps
<1>5. /\ lostOrders' \subseteq MailOrders /\ abandoned' \in BOOLEAN
      /\ mailCut' \in BOOLEAN /\ mailCrowded' \in BOOLEAN
  BY MailTypes DEF CancelQueued, MailAt, MailJobDone, MailReturn, mailHistories, At,
      NoJob, IdleMail, MailTypeOK
<1>6. mailFaults' \in 0..MaxFaults
  BY MailTypes DEF CancelQueued, mailHistories
<1>7. QED
  BY <1>1, <1>2, <1>3, <1>4, <1>5, <1>6 DEF MailTypeOK

LEMMA QueuedCancellationFailsType ==
    ASSUME MailTypeOK, MailInv, NEW w \in Workers, QueuedCancellationFails(w)
    PROVE  MailTypeOK'
<1>1. mailbox' \in MailRow
  BY MailTypes DEF QueuedCancellationFails, MailAt, MailFault, MailGoto, At, Goto,
      MailTypeOK, MailRow, MailStatus
<1>2. mailOrder' \in [MailOrders -> {"none", "live", "deleted"}]
  BY MailTypes DEF QueuedCancellationFails, MailAt, MailFault, MailGoto, At, Goto, MailTypeOK
<1>3. mailQueue' \in [Jobs -> MailJob]
  BY MailTypes, QueueTypes DEF QueuedCancellationFails, MailAt, MailFault, At, MailTypeOK
<1>4. mailHandler' \in [Workers -> [pc : MailSteps, order : MailOrders \cup {None},
                                  job : Jobs \cup {None}]]
  BY HandlerTypes DEF QueuedCancellationFails, MailSteps
<1>5. /\ lostOrders' \subseteq MailOrders /\ abandoned' \in BOOLEAN
      /\ mailCut' \in BOOLEAN /\ mailCrowded' \in BOOLEAN
  BY MailTypes DEF QueuedCancellationFails, MailAt, MailFault, MailGoto, At, Goto, MailTypeOK
<1>6. mailFaults' \in 0..MaxFaults
  BY MailTypes DEF QueuedCancellationFails, MailFault
<1>7. QED
  BY <1>1, <1>2, <1>3, <1>4, <1>5, <1>6 DEF MailTypeOK

LEMMA MailBreaksOffType ==
    ASSUME MailTypeOK, MailInv, NEW w \in Workers, MailBreaksOff(w)
    PROVE  MailTypeOK'
  BY MailTypes DEF MailBreaksOff, MailAt, MailReturn, MailFault, At, IdleMail,
      MailTypeOK, MailRow, MailJob, MailStatus, MailSteps, MailInv, OrdersInHand

--------------------------------------------------------------------------------
\* The invariant.

LEMMA CreateEmailAccountKeeps ==
    ASSUME MailTypeOK, MailInv, NEW w \in Workers, NEW provider \in {"TITAN",
        "GOOGLE_WORKSPACE"}, CreateEmailAccount(w, provider)
    PROVE  MailInv'
<1> USE MailAssumption, JobsAssumption DEF MailAt, At
<1>1. /\ JobsInHand /\ OneProvisioning /\ OrdersInHand /\ OrdersOnRecord
      /\ ~mailCrowded => MailTurns
  BY DEF MailInv
<1>2. JobsInHand'
  BY <1>1, MailTypes, CreateEmailAccountEffect DEF JobsInHand, RunsJob, Deleting,
      Renewing, Provisioning, Deprovisioning
<1>3. OneProvisioning'
  BY <1>1, MailTypes, CreateEmailAccountEffect DEF OneProvisioning, JobsInHand, RunsJob,
      Deleting, Renewing, Provisioning, Deprovisioning
<1>4. OrdersInHand'
  BY <1>1, MailTypes, CreateEmailAccountEffect DEF OrdersInHand, OneProvisioning,
      JobsInHand, RunsJob, Deleting, Renewing, Provisioning, Deprovisioning, IsLive
<1>5. OrdersOnRecord'
  BY <1>1, MailTypes, CreateEmailAccountEffect DEF OrdersOnRecord, OneProvisioning,
      OrdersInHand, JobsInHand, RunsJob, Deleting, Renewing, Provisioning,
      Deprovisioning, IsLive
<1>6. (~mailCrowded => MailTurns)'
  <2> SUFFICES ASSUME ~mailCrowded'
               PROVE  MailTurns'
    OBVIOUS
  <2>1. QED
    BY <1>1, MailTypes, CreateEmailAccountEffect DEF MailTurns, CancelledIsDeleted, Busy,
        JobsInHand, RunsJob, OrdersInHand, Provisioning, Deprovisioning, Deleting,
        Renewing, IsLive
<1>7. QED
  BY <1>2, <1>3, <1>4, <1>5, <1>6 DEF MailInv

LEMMA DeleteEmailAccountKeeps ==
    ASSUME MailTypeOK, MailInv, NEW w \in Workers, DeleteEmailAccount(w)
    PROVE  MailInv'
<1> USE MailAssumption, JobsAssumption DEF MailAt, At
<1>1. /\ JobsInHand /\ OneProvisioning /\ OrdersInHand /\ OrdersOnRecord
      /\ ~mailCrowded => MailTurns
  BY DEF MailInv
<1>2. JobsInHand'
  BY <1>1, MailTypes, DeleteEmailAccountEffect DEF JobsInHand, RunsJob, Deleting,
      Renewing, Provisioning, Deprovisioning
<1>3. OneProvisioning'
  BY <1>1, MailTypes, DeleteEmailAccountEffect DEF OneProvisioning, JobsInHand, RunsJob,
      Deleting, Renewing, Provisioning, Deprovisioning
<1>4. OrdersInHand'
  BY <1>1, MailTypes, DeleteEmailAccountEffect DEF OrdersInHand, OneProvisioning,
      JobsInHand, RunsJob, Deleting, Renewing, Provisioning, Deprovisioning, IsLive
<1>5. OrdersOnRecord'
  BY <1>1, MailTypes, DeleteEmailAccountEffect DEF OrdersOnRecord, OneProvisioning,
      OrdersInHand, JobsInHand, RunsJob, Deleting, Renewing, Provisioning,
      Deprovisioning, IsLive
<1>6. (~mailCrowded => MailTurns)'
  <2> SUFFICES ASSUME ~mailCrowded'
               PROVE  MailTurns'
    OBVIOUS
  <2>1. QED
    BY <1>1, MailTypes, DeleteEmailAccountEffect DEF MailTurns, CancelledIsDeleted, Busy,
        JobsInHand, RunsJob, OrdersInHand, Provisioning, Deprovisioning, Deleting,
        Renewing, IsLive
<1>7. QED
  BY <1>2, <1>3, <1>4, <1>5, <1>6 DEF MailInv

LEMMA RenewEmailKeeps ==
    ASSUME MailTypeOK, MailInv, NEW w \in Workers, RenewEmail(w)
    PROVE  MailInv'
<1> USE MailAssumption, JobsAssumption DEF MailAt, At
<1>1. /\ JobsInHand /\ OneProvisioning /\ OrdersInHand /\ OrdersOnRecord
      /\ ~mailCrowded => MailTurns
  BY DEF MailInv
<1>2. JobsInHand'
  BY <1>1, MailTypes, RenewEmailEffect DEF JobsInHand, RunsJob, Deleting, Renewing,
      Provisioning, Deprovisioning
<1>3. OneProvisioning'
  BY <1>1, MailTypes, RenewEmailEffect DEF OneProvisioning, JobsInHand, RunsJob,
      Deleting, Renewing, Provisioning, Deprovisioning
<1>4. OrdersInHand'
  BY <1>1, MailTypes, RenewEmailEffect DEF OrdersInHand, OneProvisioning, JobsInHand,
      RunsJob, Deleting, Renewing, Provisioning, Deprovisioning, IsLive
<1>5. OrdersOnRecord'
  BY <1>1, MailTypes, RenewEmailEffect DEF OrdersOnRecord, OneProvisioning, OrdersInHand,
      JobsInHand, RunsJob, Deleting, Renewing, Provisioning, Deprovisioning, IsLive
<1>6. (~mailCrowded => MailTurns)'
  <2> SUFFICES ASSUME ~mailCrowded'
               PROVE  MailTurns'
    OBVIOUS
  <2>1. QED
    BY <1>1, MailTypes, RenewEmailEffect DEF MailTurns, CancelledIsDeleted, Busy,
        JobsInHand, RunsJob, OrdersInHand, Provisioning, Deprovisioning, Deleting,
        Renewing, IsLive
<1>7. QED
  BY <1>2, <1>3, <1>4, <1>5, <1>6 DEF MailInv

LEMMA TakeMailJobKeeps ==
    ASSUME MailTypeOK, MailInv, NEW w \in Workers, NEW j \in Jobs, TakeMailJob(w, j)
    PROVE  MailInv'
<1> USE MailAssumption, JobsAssumption DEF MailAt, At
<1>1. /\ JobsInHand /\ OneProvisioning /\ OrdersInHand /\ OrdersOnRecord
      /\ ~mailCrowded => MailTurns
  BY DEF MailInv
<1>2. JobsInHand'
  BY <1>1, MailTypes, TakeMailJobEffect DEF JobsInHand, RunsJob, Deleting, Renewing,
      Provisioning, Deprovisioning
<1>3. OneProvisioning'
  BY <1>1, MailTypes, TakeMailJobEffect DEF OneProvisioning, JobsInHand, RunsJob,
      Deleting, Renewing, Provisioning, Deprovisioning
<1>4. OrdersInHand'
  BY <1>1, MailTypes, TakeMailJobEffect DEF OrdersInHand, OneProvisioning, JobsInHand,
      RunsJob, Deleting, Renewing, Provisioning, Deprovisioning, IsLive
<1>5. OrdersOnRecord'
  BY <1>1, MailTypes, TakeMailJobEffect DEF OrdersOnRecord, OneProvisioning,
      OrdersInHand, JobsInHand, RunsJob, Deleting, Renewing, Provisioning,
      Deprovisioning, IsLive
<1>6. (~mailCrowded => MailTurns)'
  <2> SUFFICES ASSUME ~mailCrowded'
               PROVE  MailTurns'
    OBVIOUS
  <2>1. QED
    BY <1>1, MailTypes, TakeMailJobEffect DEF MailTurns, CancelledIsDeleted, Busy,
        JobsInHand, RunsJob, OrdersInHand, Provisioning, Deprovisioning, Deleting,
        Renewing, IsLive
<1>7. QED
  BY <1>2, <1>3, <1>4, <1>5, <1>6 DEF MailInv

LEMMA QueueMailboxKeeps ==
    ASSUME MailTypeOK, MailInv, NEW w \in Workers, QueueMailbox(w)
    PROVE  MailInv'
<1> USE MailAssumption, JobsAssumption DEF MailAt, At
<1>1. /\ JobsInHand /\ OneProvisioning /\ OrdersInHand /\ OrdersOnRecord
      /\ ~mailCrowded => MailTurns
  BY DEF MailInv
<1>2. JobsInHand'
  BY <1>1, MailTypes, QueueMailboxEffect DEF JobsInHand, RunsJob, Deleting, Renewing,
      Provisioning, Deprovisioning
<1>3. OneProvisioning'
  BY <1>1, MailTypes, QueueMailboxEffect DEF OneProvisioning, JobsInHand, RunsJob,
      Deleting, Renewing, Provisioning, Deprovisioning
<1>4. OrdersInHand'
  BY <1>1, MailTypes, QueueMailboxEffect DEF OrdersInHand, OneProvisioning, JobsInHand,
      RunsJob, Deleting, Renewing, Provisioning, Deprovisioning, IsLive
<1>5. OrdersOnRecord'
  BY <1>1, MailTypes, QueueMailboxEffect DEF OrdersOnRecord, OneProvisioning,
      OrdersInHand, JobsInHand, RunsJob, Deleting, Renewing, Provisioning,
      Deprovisioning, IsLive
<1>6. (~mailCrowded => MailTurns)'
  <2> SUFFICES ASSUME ~mailCrowded'
               PROVE  MailTurns'
    OBVIOUS
  <2>1. QED
    BY <1>1, MailTypes, QueueMailboxEffect DEF MailTurns, CancelledIsDeleted, Busy,
        JobsInHand, RunsJob, OrdersInHand, Provisioning, Deprovisioning, Deleting,
        Renewing, IsLive
<1>7. QED
  BY <1>2, <1>3, <1>4, <1>5, <1>6 DEF MailInv

LEMMA SuspendMailboxKeeps ==
    ASSUME MailTypeOK, MailInv, NEW w \in Workers, SuspendMailbox(w)
    PROVE  MailInv'
<1> USE MailAssumption, JobsAssumption DEF MailAt, At
<1>1. /\ JobsInHand /\ OneProvisioning /\ OrdersInHand /\ OrdersOnRecord
      /\ ~mailCrowded => MailTurns
  BY DEF MailInv
<1>2. JobsInHand'
  BY <1>1, MailTypes, SuspendMailboxEffect DEF JobsInHand, RunsJob, Deleting, Renewing,
      Provisioning, Deprovisioning
<1>3. OneProvisioning'
  BY <1>1, MailTypes, SuspendMailboxEffect DEF OneProvisioning, JobsInHand, RunsJob,
      Deleting, Renewing, Provisioning, Deprovisioning
<1>4. OrdersInHand'
  BY <1>1, MailTypes, SuspendMailboxEffect DEF OrdersInHand, OneProvisioning, JobsInHand,
      RunsJob, Deleting, Renewing, Provisioning, Deprovisioning, IsLive
<1>5. OrdersOnRecord'
  BY <1>1, MailTypes, SuspendMailboxEffect DEF OrdersOnRecord, OneProvisioning,
      OrdersInHand, JobsInHand, RunsJob, Deleting, Renewing, Provisioning,
      Deprovisioning, IsLive
<1>6. (~mailCrowded => MailTurns)'
  <2> SUFFICES ASSUME ~mailCrowded'
               PROVE  MailTurns'
    OBVIOUS
  <2>1. QED
    BY <1>1, MailTypes, SuspendMailboxEffect DEF MailTurns, CancelledIsDeleted, Busy,
        JobsInHand, RunsJob, OrdersInHand, Provisioning, Deprovisioning, Deleting,
        Renewing, IsLive
<1>7. QED
  BY <1>2, <1>3, <1>4, <1>5, <1>6 DEF MailInv

LEMMA DeleteMailOrderKeeps ==
    ASSUME MailTypeOK, MailInv, NEW w \in Workers, DeleteMailOrder(w)
    PROVE  MailInv'
<1> USE MailAssumption, JobsAssumption DEF MailAt, At
<1>1. /\ JobsInHand /\ OneProvisioning /\ OrdersInHand /\ OrdersOnRecord
      /\ ~mailCrowded => MailTurns
  BY DEF MailInv
<1>2. mailHandler[w].order # None
  BY <1>1, MailTypes DEF DeleteMailOrder, JobsInHand, RunsJob, OrdersInHand,
      Provisioning, Deprovisioning, Deleting, Renewing
<1>3. JobsInHand'
  BY <1>1, MailTypes, DeleteMailOrderEffect, <1>2 DEF JobsInHand, RunsJob, Deleting,
      Renewing, Provisioning, Deprovisioning
<1>4. OneProvisioning'
  BY <1>1, MailTypes, DeleteMailOrderEffect, <1>2 DEF OneProvisioning, JobsInHand,
      RunsJob, Deleting, Renewing, Provisioning, Deprovisioning
<1>5. OrdersInHand'
  BY <1>1, MailTypes, DeleteMailOrderEffect, <1>2 DEF OrdersInHand, OneProvisioning,
      JobsInHand, RunsJob, Deleting, Renewing, Provisioning, Deprovisioning, IsLive
<1>6. OrdersOnRecord'
  BY <1>1, MailTypes, DeleteMailOrderEffect, <1>2 DEF OrdersOnRecord, OneProvisioning,
      OrdersInHand, JobsInHand, RunsJob, Deleting, Renewing, Provisioning,
      Deprovisioning, IsLive
<1>7. (~mailCrowded => MailTurns)'
  <2> SUFFICES ASSUME ~mailCrowded'
               PROVE  MailTurns'
    OBVIOUS
  <2>1. QED
    BY <1>1, MailTypes, DeleteMailOrderEffect, <1>2 DEF MailTurns, CancelledIsDeleted,
        Busy, JobsInHand, RunsJob, OrdersInHand, Provisioning, Deprovisioning, Deleting,
        Renewing, IsLive
<1>8. QED
  BY <1>3, <1>4, <1>5, <1>6, <1>7 DEF MailInv

LEMMA MailOrderNotDeletedKeeps ==
    ASSUME MailTypeOK, MailInv, NEW w \in Workers, MailOrderNotDeleted(w)
    PROVE  MailInv'
<1> USE MailAssumption, JobsAssumption DEF MailAt, At
<1>1. /\ JobsInHand /\ OneProvisioning /\ OrdersInHand /\ OrdersOnRecord
      /\ ~mailCrowded => MailTurns
  BY DEF MailInv
<1>2. mailHandler[w].order # None
  BY <1>1, MailTypes DEF MailOrderNotDeleted, JobsInHand, RunsJob, OrdersInHand,
      Provisioning, Deprovisioning, Deleting, Renewing
<1>3. JobsInHand'
  BY <1>1, MailTypes, MailOrderNotDeletedEffect, <1>2 DEF JobsInHand, RunsJob, Deleting,
      Renewing, Provisioning, Deprovisioning
<1>4. OneProvisioning'
  BY <1>1, MailTypes, MailOrderNotDeletedEffect, <1>2 DEF OneProvisioning, JobsInHand,
      RunsJob, Deleting, Renewing, Provisioning, Deprovisioning
<1>5. OrdersInHand'
  BY <1>1, MailTypes, MailOrderNotDeletedEffect, <1>2 DEF OrdersInHand, OneProvisioning,
      JobsInHand, RunsJob, Deleting, Renewing, Provisioning, Deprovisioning, IsLive
<1>6. OrdersOnRecord'
  BY <1>1, MailTypes, MailOrderNotDeletedEffect, <1>2 DEF OrdersOnRecord,
      OneProvisioning, OrdersInHand, JobsInHand, RunsJob, Deleting, Renewing,
      Provisioning, Deprovisioning, IsLive
<1>7. (~mailCrowded => MailTurns)'
  <2> SUFFICES ASSUME ~mailCrowded'
               PROVE  MailTurns'
    OBVIOUS
  <2>1. QED
    BY <1>1, MailTypes, MailOrderNotDeletedEffect, <1>2 DEF MailTurns,
        CancelledIsDeleted, Busy, JobsInHand, RunsJob, OrdersInHand, Provisioning,
        Deprovisioning, Deleting, Renewing, IsLive
<1>8. QED
  BY <1>3, <1>4, <1>5, <1>6, <1>7 DEF MailInv

LEMMA QueueDeletionKeeps ==
    ASSUME MailTypeOK, MailInv, NEW w \in Workers, QueueDeletion(w)
    PROVE  MailInv'
<1> USE MailAssumption, JobsAssumption DEF MailAt, At
<1>1. /\ JobsInHand /\ OneProvisioning /\ OrdersInHand /\ OrdersOnRecord
      /\ ~mailCrowded => MailTurns
  BY DEF MailInv
<1>2. JobsInHand'
  BY <1>1, MailTypes, QueueDeletionEffect DEF JobsInHand, RunsJob, Deleting, Renewing,
      Provisioning, Deprovisioning
<1>3. OneProvisioning'
  BY <1>1, MailTypes, QueueDeletionEffect DEF OneProvisioning, JobsInHand, RunsJob,
      Deleting, Renewing, Provisioning, Deprovisioning
<1>4. OrdersInHand'
  BY <1>1, MailTypes, QueueDeletionEffect DEF OrdersInHand, OneProvisioning, JobsInHand,
      RunsJob, Deleting, Renewing, Provisioning, Deprovisioning, IsLive
<1>5. OrdersOnRecord'
  BY <1>1, MailTypes, QueueDeletionEffect DEF OrdersOnRecord, OneProvisioning,
      OrdersInHand, JobsInHand, RunsJob, Deleting, Renewing, Provisioning,
      Deprovisioning, IsLive
<1>6. (~mailCrowded => MailTurns)'
  <2> SUFFICES ASSUME ~mailCrowded'
               PROVE  MailTurns'
    OBVIOUS
  <2>1. QED
    BY <1>1, MailTypes, QueueDeletionEffect DEF MailTurns, CancelledIsDeleted, Busy,
        JobsInHand, RunsJob, OrdersInHand, Provisioning, Deprovisioning, Deleting,
        Renewing, IsLive
<1>7. QED
  BY <1>2, <1>3, <1>4, <1>5, <1>6 DEF MailInv

LEMMA CancelMailboxKeeps ==
    ASSUME MailTypeOK, MailInv, NEW w \in Workers, CancelMailbox(w)
    PROVE  MailInv'
<1> USE MailAssumption, JobsAssumption DEF MailAt, At
<1>1. /\ JobsInHand /\ OneProvisioning /\ OrdersInHand /\ OrdersOnRecord
      /\ ~mailCrowded => MailTurns
  BY DEF MailInv
<1>2. JobsInHand'
  BY <1>1, MailTypes, CancelMailboxEffect DEF JobsInHand, RunsJob, Deleting, Renewing,
      Provisioning, Deprovisioning
<1>3. OneProvisioning'
  BY <1>1, MailTypes, CancelMailboxEffect DEF OneProvisioning, JobsInHand, RunsJob,
      Deleting, Renewing, Provisioning, Deprovisioning
<1>4. OrdersInHand'
  BY <1>1, MailTypes, CancelMailboxEffect DEF OrdersInHand, OneProvisioning, JobsInHand,
      RunsJob, Deleting, Renewing, Provisioning, Deprovisioning, IsLive
<1>5. OrdersOnRecord'
  BY <1>1, MailTypes, CancelMailboxEffect DEF OrdersOnRecord, OneProvisioning,
      OrdersInHand, JobsInHand, RunsJob, Deleting, Renewing, Provisioning,
      Deprovisioning, IsLive
<1>6. (~mailCrowded => MailTurns)'
  <2> SUFFICES ASSUME ~mailCrowded'
               PROVE  MailTurns'
    OBVIOUS
  <2>1. QED
    BY <1>1, MailTypes, CancelMailboxEffect DEF MailTurns, CancelledIsDeleted, Busy,
        JobsInHand, RunsJob, OrdersInHand, Provisioning, Deprovisioning, Deleting,
        Renewing, IsLive
<1>7. QED
  BY <1>2, <1>3, <1>4, <1>5, <1>6 DEF MailInv

LEMMA CancellationFailsKeeps ==
    ASSUME MailTypeOK, MailInv, NEW w \in Workers, CancellationFails(w)
    PROVE  MailInv'
<1> USE MailAssumption, JobsAssumption DEF MailAt, At
<1>1. /\ JobsInHand /\ OneProvisioning /\ OrdersInHand /\ OrdersOnRecord
      /\ ~mailCrowded => MailTurns
  BY DEF MailInv
<1>2. JobsInHand'
  BY <1>1, MailTypes, CancellationFailsEffect DEF JobsInHand, RunsJob, Deleting,
      Renewing, Provisioning, Deprovisioning
<1>3. OneProvisioning'
  BY <1>1, MailTypes, CancellationFailsEffect DEF OneProvisioning, JobsInHand,
      RunsJob, Deleting, Renewing, Provisioning, Deprovisioning
<1>4. OrdersInHand'
  BY <1>1, MailTypes, CancellationFailsEffect DEF OrdersInHand, OneProvisioning,
      JobsInHand, RunsJob, Deleting, Renewing, Provisioning, Deprovisioning, IsLive
<1>5. OrdersOnRecord'
  BY <1>1, MailTypes, CancellationFailsEffect DEF OrdersOnRecord, OneProvisioning,
      OrdersInHand, JobsInHand, RunsJob, Deleting, Renewing, Provisioning,
      Deprovisioning, IsLive
<1>6. (~mailCrowded => MailTurns)'
  <2> SUFFICES ASSUME ~mailCrowded'
               PROVE  MailTurns'
    OBVIOUS
  <2>1. QED
    BY <1>1, MailTypes, CancellationFailsEffect DEF MailTurns, CancelledIsDeleted,
        Busy, JobsInHand, RunsJob, OrdersInHand, Provisioning, Deprovisioning, Deleting,
        Renewing, IsLive
<1>7. QED
  BY <1>2, <1>3, <1>4, <1>5, <1>6 DEF MailInv

LEMMA RenewMailOrderKeeps ==
    ASSUME MailTypeOK, MailInv, NEW w \in Workers, RenewMailOrder(w)
    PROVE  MailInv'
<1> USE MailAssumption, JobsAssumption DEF MailAt, At
<1>1. /\ JobsInHand /\ OneProvisioning /\ OrdersInHand /\ OrdersOnRecord
      /\ ~mailCrowded => MailTurns
  BY DEF MailInv
<1>2. JobsInHand'
  BY <1>1, MailTypes, RenewMailOrderEffect DEF JobsInHand, RunsJob, Deleting, Renewing,
      Provisioning, Deprovisioning
<1>3. OneProvisioning'
  BY <1>1, MailTypes, RenewMailOrderEffect DEF OneProvisioning, JobsInHand, RunsJob,
      Deleting, Renewing, Provisioning, Deprovisioning
<1>4. OrdersInHand'
  BY <1>1, MailTypes, RenewMailOrderEffect DEF OrdersInHand, OneProvisioning, JobsInHand,
      RunsJob, Deleting, Renewing, Provisioning, Deprovisioning, IsLive
<1>5. OrdersOnRecord'
  BY <1>1, MailTypes, RenewMailOrderEffect DEF OrdersOnRecord, OneProvisioning,
      OrdersInHand, JobsInHand, RunsJob, Deleting, Renewing, Provisioning,
      Deprovisioning, IsLive
<1>6. (~mailCrowded => MailTurns)'
  <2> SUFFICES ASSUME ~mailCrowded'
               PROVE  MailTurns'
    OBVIOUS
  <2>1. QED
    BY <1>1, MailTypes, RenewMailOrderEffect DEF MailTurns, CancelledIsDeleted, Busy,
        JobsInHand, RunsJob, OrdersInHand, Provisioning, Deprovisioning, Deleting,
        Renewing, IsLive
<1>7. QED
  BY <1>2, <1>3, <1>4, <1>5, <1>6 DEF MailInv

LEMMA SaveMailRenewalKeeps ==
    ASSUME MailTypeOK, MailInv, NEW w \in Workers, SaveMailRenewal(w)
    PROVE  MailInv'
<1> USE MailAssumption, JobsAssumption DEF MailAt, At
<1>1. /\ JobsInHand /\ OneProvisioning /\ OrdersInHand /\ OrdersOnRecord
      /\ ~mailCrowded => MailTurns
  BY DEF MailInv
<1>2. JobsInHand'
  BY <1>1, MailTypes, SaveMailRenewalEffect DEF JobsInHand, RunsJob, Deleting, Renewing,
      Provisioning, Deprovisioning
<1>3. OneProvisioning'
  BY <1>1, MailTypes, SaveMailRenewalEffect DEF OneProvisioning, JobsInHand, RunsJob,
      Deleting, Renewing, Provisioning, Deprovisioning
<1>4. OrdersInHand'
  BY <1>1, MailTypes, SaveMailRenewalEffect DEF OrdersInHand, OneProvisioning,
      JobsInHand, RunsJob, Deleting, Renewing, Provisioning, Deprovisioning, IsLive
<1>5. OrdersOnRecord'
  BY <1>1, MailTypes, SaveMailRenewalEffect DEF OrdersOnRecord, OneProvisioning,
      OrdersInHand, JobsInHand, RunsJob, Deleting, Renewing, Provisioning,
      Deprovisioning, IsLive
<1>6. (~mailCrowded => MailTurns)'
  <2> SUFFICES ASSUME ~mailCrowded'
               PROVE  MailTurns'
    OBVIOUS
  <2>1. QED
    BY <1>1, MailTypes, SaveMailRenewalEffect DEF MailTurns, CancelledIsDeleted, Busy,
        JobsInHand, RunsJob, OrdersInHand, Provisioning, Deprovisioning, Deleting,
        Renewing, IsLive
<1>7. QED
  BY <1>2, <1>3, <1>4, <1>5, <1>6 DEF MailInv

LEMMA PlaceOrderKeeps ==
    ASSUME MailTypeOK, MailInv, NEW w \in Workers, PlaceOrder(w)
    PROVE  MailInv'
<1> USE MailAssumption, JobsAssumption DEF MailAt, At
<1>1. /\ JobsInHand /\ OneProvisioning /\ OrdersInHand /\ OrdersOnRecord
      /\ ~mailCrowded => MailTurns
  BY DEF MailInv
<1>2. JobsInHand'
  BY <1>1, MailTypes, PlaceOrderEffect DEF JobsInHand, RunsJob, Deleting, Renewing,
      Provisioning, Deprovisioning
<1>3. OneProvisioning'
  BY <1>1, MailTypes, PlaceOrderEffect DEF OneProvisioning, JobsInHand, RunsJob,
      Deleting, Renewing, Provisioning, Deprovisioning
<1>4. OrdersInHand'
  BY <1>1, MailTypes, PlaceOrderEffect DEF OrdersInHand, OneProvisioning, JobsInHand,
      RunsJob, Deleting, Renewing, Provisioning, Deprovisioning, IsLive
<1>5. OrdersOnRecord'
  BY <1>1, MailTypes, PlaceOrderEffect DEF OrdersOnRecord, OneProvisioning, OrdersInHand,
      JobsInHand, RunsJob, Deleting, Renewing, Provisioning, Deprovisioning, IsLive
<1>6. (~mailCrowded => MailTurns)'
  <2> SUFFICES ASSUME ~mailCrowded'
               PROVE  MailTurns'
    OBVIOUS
  <2>1. QED
    BY <1>1, MailTypes, PlaceOrderEffect DEF MailTurns, CancelledIsDeleted, Busy,
        JobsInHand, RunsJob, OrdersInHand, Provisioning, Deprovisioning, Deleting,
        Renewing, IsLive
<1>7. QED
  BY <1>2, <1>3, <1>4, <1>5, <1>6 DEF MailInv

LEMMA OrderFailsKeeps ==
    ASSUME MailTypeOK, MailInv, NEW w \in Workers, OrderFails(w)
    PROVE  MailInv'
<1> USE MailAssumption, JobsAssumption DEF MailAt, At
<1>1. /\ JobsInHand /\ OneProvisioning /\ OrdersInHand /\ OrdersOnRecord
      /\ ~mailCrowded => MailTurns
  BY DEF MailInv
<1>2. JobsInHand'
  BY <1>1, MailTypes, OrderFailsEffect DEF JobsInHand, RunsJob, Deleting, Renewing,
      Provisioning, Deprovisioning
<1>3. OneProvisioning'
  BY <1>1, MailTypes, OrderFailsEffect DEF OneProvisioning, JobsInHand, RunsJob,
      Deleting, Renewing, Provisioning, Deprovisioning
<1>4. OrdersInHand'
  BY <1>1, MailTypes, OrderFailsEffect DEF OrdersInHand, OneProvisioning, JobsInHand,
      RunsJob, Deleting, Renewing, Provisioning, Deprovisioning, IsLive
<1>5. OrdersOnRecord'
  BY <1>1, MailTypes, OrderFailsEffect DEF OrdersOnRecord, OneProvisioning, OrdersInHand,
      JobsInHand, RunsJob, Deleting, Renewing, Provisioning, Deprovisioning, IsLive
<1>6. (~mailCrowded => MailTurns)'
  <2> SUFFICES ASSUME ~mailCrowded'
               PROVE  MailTurns'
    OBVIOUS
  <2>1. QED
    BY <1>1, MailTypes, OrderFailsEffect DEF MailTurns, CancelledIsDeleted, Busy,
        JobsInHand, RunsJob, OrdersInHand, Provisioning, Deprovisioning, Deleting,
        Renewing, IsLive
<1>7. QED
  BY <1>2, <1>3, <1>4, <1>5, <1>6 DEF MailInv

LEMMA CreateTitanMailboxKeeps ==
    ASSUME MailTypeOK, MailInv, NEW w \in Workers, CreateTitanMailbox(w)
    PROVE  MailInv'
<1> USE MailAssumption, JobsAssumption DEF MailAt, At
<1>1. /\ JobsInHand /\ OneProvisioning /\ OrdersInHand /\ OrdersOnRecord
      /\ ~mailCrowded => MailTurns
  BY DEF MailInv
<1>2. JobsInHand'
  BY <1>1, MailTypes, CreateTitanMailboxEffect DEF JobsInHand, RunsJob, Deleting,
      Renewing, Provisioning, Deprovisioning
<1>3. OneProvisioning'
  BY <1>1, MailTypes, CreateTitanMailboxEffect DEF OneProvisioning, JobsInHand, RunsJob,
      Deleting, Renewing, Provisioning, Deprovisioning
<1>4. OrdersInHand'
  BY <1>1, MailTypes, CreateTitanMailboxEffect DEF OrdersInHand, OneProvisioning,
      JobsInHand, RunsJob, Deleting, Renewing, Provisioning, Deprovisioning, IsLive
<1>5. OrdersOnRecord'
  BY <1>1, MailTypes, CreateTitanMailboxEffect DEF OrdersOnRecord, OneProvisioning,
      OrdersInHand, JobsInHand, RunsJob, Deleting, Renewing, Provisioning,
      Deprovisioning, IsLive
<1>6. (~mailCrowded => MailTurns)'
  <2> SUFFICES ASSUME ~mailCrowded'
               PROVE  MailTurns'
    OBVIOUS
  <2>1. QED
    BY <1>1, MailTypes, CreateTitanMailboxEffect DEF MailTurns, CancelledIsDeleted, Busy,
        JobsInHand, RunsJob, OrdersInHand, Provisioning, Deprovisioning, Deleting,
        Renewing, IsLive
<1>7. QED
  BY <1>2, <1>3, <1>4, <1>5, <1>6 DEF MailInv

LEMMA ProvisioningFailsKeeps ==
    ASSUME MailTypeOK, MailInv, NEW w \in Workers, ProvisioningFails(w)
    PROVE  MailInv'
<1> USE MailAssumption, JobsAssumption DEF MailAt, At
<1>1. /\ JobsInHand /\ OneProvisioning /\ OrdersInHand /\ OrdersOnRecord
      /\ ~mailCrowded => MailTurns
  BY DEF MailInv
<1>2. JobsInHand'
  BY <1>1, MailTypes, ProvisioningFailsEffect DEF JobsInHand, RunsJob, Deleting,
      Renewing, Provisioning, Deprovisioning
<1>3. OneProvisioning'
  BY <1>1, MailTypes, ProvisioningFailsEffect DEF OneProvisioning, JobsInHand, RunsJob,
      Deleting, Renewing, Provisioning, Deprovisioning
<1>4. OrdersInHand'
  BY <1>1, MailTypes, ProvisioningFailsEffect DEF OrdersInHand, OneProvisioning,
      JobsInHand, RunsJob, Deleting, Renewing, Provisioning, Deprovisioning, IsLive
<1>5. OrdersOnRecord'
  BY <1>1, MailTypes, ProvisioningFailsEffect DEF OrdersOnRecord, OneProvisioning,
      OrdersInHand, JobsInHand, RunsJob, Deleting, Renewing, Provisioning,
      Deprovisioning, IsLive
<1>6. (~mailCrowded => MailTurns)'
  <2> SUFFICES ASSUME ~mailCrowded'
               PROVE  MailTurns'
    OBVIOUS
  <2>1. QED
    BY <1>1, MailTypes, ProvisioningFailsEffect DEF MailTurns, CancelledIsDeleted, Busy,
        JobsInHand, RunsJob, OrdersInHand, Provisioning, Deprovisioning, Deleting,
        Renewing, IsLive
<1>7. QED
  BY <1>2, <1>3, <1>4, <1>5, <1>6 DEF MailInv

LEMMA SaveMailOrderKeeps ==
    ASSUME MailTypeOK, MailInv, NEW w \in Workers, SaveMailOrder(w)
    PROVE  MailInv'
<1> USE MailAssumption, JobsAssumption DEF MailAt, At
<1>1. /\ JobsInHand /\ OneProvisioning /\ OrdersInHand /\ OrdersOnRecord
      /\ ~mailCrowded => MailTurns
  BY DEF MailInv
<1>2. mailHandler[w].job \in Jobs
  BY <1>1, MailTypes DEF SaveMailOrder, JobsInHand, RunsJob, OrdersInHand, Provisioning,
      Deprovisioning, Deleting, Renewing
<1>3. JobsInHand'
  BY <1>1, MailTypes, SaveMailOrderEffect, <1>2 DEF JobsInHand, RunsJob, Deleting,
      Renewing, Provisioning, Deprovisioning
<1>4. OneProvisioning'
  BY <1>1, MailTypes, SaveMailOrderEffect, <1>2 DEF OneProvisioning, JobsInHand, RunsJob,
      Deleting, Renewing, Provisioning, Deprovisioning
<1>5. OrdersInHand'
  BY <1>1, MailTypes, SaveMailOrderEffect, <1>2 DEF OrdersInHand, OneProvisioning,
      JobsInHand, RunsJob, Deleting, Renewing, Provisioning, Deprovisioning, IsLive
<1>6. OrdersOnRecord'
  BY <1>1, MailTypes, SaveMailOrderEffect, <1>2 DEF OrdersOnRecord, OneProvisioning,
      OrdersInHand, JobsInHand, RunsJob, Deleting, Renewing, Provisioning,
      Deprovisioning, IsLive
<1>7. (~mailCrowded => MailTurns)'
  <2> SUFFICES ASSUME ~mailCrowded'
               PROVE  MailTurns'
    OBVIOUS
  <2>1. QED
    BY <1>1, MailTypes, SaveMailOrderEffect, <1>2 DEF MailTurns, CancelledIsDeleted,
        Busy, JobsInHand, RunsJob, OrdersInHand, Provisioning, Deprovisioning, Deleting,
        Renewing, IsLive
<1>8. QED
  BY <1>3, <1>4, <1>5, <1>6, <1>7 DEF MailInv

LEMMA GiveUpProvisioningKeeps ==
    ASSUME MailTypeOK, MailInv, NEW w \in Workers, GiveUpProvisioning(w)
    PROVE  MailInv'
<1> USE MailAssumption, JobsAssumption DEF MailAt, At
<1>1. /\ JobsInHand /\ OneProvisioning /\ OrdersInHand /\ OrdersOnRecord
      /\ ~mailCrowded => MailTurns
  BY DEF MailInv
<1>2. JobsInHand'
  BY <1>1, MailTypes, GiveUpProvisioningEffect DEF JobsInHand, RunsJob, Deleting,
      Renewing, Provisioning, Deprovisioning
<1>3. OneProvisioning'
  BY <1>1, MailTypes, GiveUpProvisioningEffect DEF OneProvisioning, JobsInHand, RunsJob,
      Deleting, Renewing, Provisioning, Deprovisioning
<1>4. OrdersInHand'
  BY <1>1, MailTypes, GiveUpProvisioningEffect DEF OrdersInHand, OneProvisioning,
      JobsInHand, RunsJob, Deleting, Renewing, Provisioning, Deprovisioning, IsLive
<1>5. OrdersOnRecord'
  BY <1>1, MailTypes, GiveUpProvisioningEffect DEF OrdersOnRecord, OneProvisioning,
      OrdersInHand, JobsInHand, RunsJob, Deleting, Renewing, Provisioning,
      Deprovisioning, IsLive
<1>6. (~mailCrowded => MailTurns)'
  <2> SUFFICES ASSUME ~mailCrowded'
               PROVE  MailTurns'
    OBVIOUS
  <2>1. QED
    BY <1>1, MailTypes, GiveUpProvisioningEffect DEF MailTurns, CancelledIsDeleted, Busy,
        JobsInHand, RunsJob, OrdersInHand, Provisioning, Deprovisioning, Deleting,
        Renewing, IsLive
<1>7. QED
  BY <1>2, <1>3, <1>4, <1>5, <1>6 DEF MailInv

LEMMA RetryMailJobKeeps ==
    ASSUME MailTypeOK, MailInv, NEW w \in Workers, RetryMailJob(w)
    PROVE  MailInv'
<1> USE MailAssumption, JobsAssumption DEF MailAt, At
<1>1. /\ JobsInHand /\ OneProvisioning /\ OrdersInHand /\ OrdersOnRecord
      /\ ~mailCrowded => MailTurns
  BY DEF MailInv
<1>2. mailHandler[w].job \in Jobs
  BY <1>1, MailTypes DEF RetryMailJob, JobsInHand, RunsJob, OrdersInHand, Provisioning,
      Deprovisioning, Deleting, Renewing
<1>3. JobsInHand'
  BY <1>1, MailTypes, RetryMailJobEffect, <1>2 DEF JobsInHand, RunsJob, Deleting,
      Renewing, Provisioning, Deprovisioning
<1>4. OneProvisioning'
  BY <1>1, MailTypes, RetryMailJobEffect, <1>2 DEF OneProvisioning, JobsInHand, RunsJob,
      Deleting, Renewing, Provisioning, Deprovisioning
<1>5. OrdersInHand'
  BY <1>1, MailTypes, RetryMailJobEffect, <1>2 DEF OrdersInHand, OneProvisioning,
      JobsInHand, RunsJob, Deleting, Renewing, Provisioning, Deprovisioning, IsLive
<1>6. OrdersOnRecord'
  BY <1>1, MailTypes, RetryMailJobEffect, <1>2 DEF OrdersOnRecord, OneProvisioning,
      OrdersInHand, JobsInHand, RunsJob, Deleting, Renewing, Provisioning,
      Deprovisioning, IsLive
<1>7. (~mailCrowded => MailTurns)'
  <2> SUFFICES ASSUME ~mailCrowded'
               PROVE  MailTurns'
    OBVIOUS
  <2>1. QED
    BY <1>1, MailTypes, RetryMailJobEffect, <1>2 DEF MailTurns, CancelledIsDeleted, Busy,
        JobsInHand, RunsJob, OrdersInHand, Provisioning, Deprovisioning, Deleting,
        Renewing, IsLive
<1>8. QED
  BY <1>3, <1>4, <1>5, <1>6, <1>7 DEF MailInv

LEMMA DeleteQueuedOrderKeeps ==
    ASSUME MailTypeOK, MailInv, NEW w \in Workers, DeleteQueuedOrder(w)
    PROVE  MailInv'
<1> USE MailAssumption, JobsAssumption DEF MailAt, At
<1>1. /\ JobsInHand /\ OneProvisioning /\ OrdersInHand /\ OrdersOnRecord
      /\ ~mailCrowded => MailTurns
  BY DEF MailInv
<1>2. mailHandler[w].order # None
  BY <1>1, MailTypes DEF DeleteQueuedOrder, JobsInHand, RunsJob, OrdersInHand,
      Provisioning, Deprovisioning, Deleting, Renewing
<1>3. JobsInHand'
  BY <1>1, MailTypes, DeleteQueuedOrderEffect, <1>2 DEF JobsInHand, RunsJob, Deleting,
      Renewing, Provisioning, Deprovisioning
<1>4. OneProvisioning'
  BY <1>1, MailTypes, DeleteQueuedOrderEffect, <1>2 DEF OneProvisioning, JobsInHand,
      RunsJob, Deleting, Renewing, Provisioning, Deprovisioning
<1>5. OrdersInHand'
  BY <1>1, MailTypes, DeleteQueuedOrderEffect, <1>2 DEF OrdersInHand, OneProvisioning,
      JobsInHand, RunsJob, Deleting, Renewing, Provisioning, Deprovisioning, IsLive
<1>6. OrdersOnRecord'
  BY <1>1, MailTypes, DeleteQueuedOrderEffect, <1>2 DEF OrdersOnRecord, OneProvisioning,
      OrdersInHand, JobsInHand, RunsJob, Deleting, Renewing, Provisioning,
      Deprovisioning, IsLive
<1>7. (~mailCrowded => MailTurns)'
  <2> SUFFICES ASSUME ~mailCrowded'
               PROVE  MailTurns'
    OBVIOUS
  <2>1. QED
    BY <1>1, MailTypes, DeleteQueuedOrderEffect, <1>2 DEF MailTurns, CancelledIsDeleted,
        Busy, JobsInHand, RunsJob, OrdersInHand, Provisioning, Deprovisioning, Deleting,
        Renewing, IsLive
<1>8. QED
  BY <1>3, <1>4, <1>5, <1>6, <1>7 DEF MailInv

LEMMA QueuedOrderNotDeletedKeeps ==
    ASSUME MailTypeOK, MailInv, NEW w \in Workers, QueuedOrderNotDeleted(w)
    PROVE  MailInv'
<1> USE MailAssumption, JobsAssumption DEF MailAt, At
<1>1. /\ JobsInHand /\ OneProvisioning /\ OrdersInHand /\ OrdersOnRecord
      /\ ~mailCrowded => MailTurns
  BY DEF MailInv
<1>2. JobsInHand'
  BY <1>1, MailTypes, QueuedOrderNotDeletedEffect DEF JobsInHand, RunsJob, Deleting,
      Renewing, Provisioning, Deprovisioning
<1>3. OneProvisioning'
  BY <1>1, MailTypes, QueuedOrderNotDeletedEffect DEF OneProvisioning, JobsInHand,
      RunsJob, Deleting, Renewing, Provisioning, Deprovisioning
<1>4. OrdersInHand'
  BY <1>1, MailTypes, QueuedOrderNotDeletedEffect DEF OrdersInHand, OneProvisioning,
      JobsInHand, RunsJob, Deleting, Renewing, Provisioning, Deprovisioning, IsLive
<1>5. OrdersOnRecord'
  BY <1>1, MailTypes, QueuedOrderNotDeletedEffect DEF OrdersOnRecord, OneProvisioning,
      OrdersInHand, JobsInHand, RunsJob, Deleting, Renewing, Provisioning,
      Deprovisioning, IsLive
<1>6. (~mailCrowded => MailTurns)'
  <2> SUFFICES ASSUME ~mailCrowded'
               PROVE  MailTurns'
    OBVIOUS
  <2>1. QED
    BY <1>1, MailTypes, QueuedOrderNotDeletedEffect DEF MailTurns, CancelledIsDeleted,
        Busy, JobsInHand, RunsJob, OrdersInHand, Provisioning, Deprovisioning, Deleting,
        Renewing, IsLive
<1>7. QED
  BY <1>2, <1>3, <1>4, <1>5, <1>6 DEF MailInv

LEMMA CancelQueuedKeeps ==
    ASSUME MailTypeOK, MailInv, NEW w \in Workers, CancelQueued(w)
    PROVE  MailInv'
<1> USE MailAssumption, JobsAssumption DEF MailAt, At
<1>1. /\ JobsInHand /\ OneProvisioning /\ OrdersInHand /\ OrdersOnRecord
      /\ ~mailCrowded => MailTurns
  BY DEF MailInv
<1>2. mailHandler[w].job \in Jobs
  BY <1>1, MailTypes DEF CancelQueued, JobsInHand, RunsJob, OrdersInHand, Provisioning,
      Deprovisioning, Deleting, Renewing
<1>3. JobsInHand'
  BY <1>1, MailTypes, CancelQueuedEffect, <1>2 DEF JobsInHand, RunsJob, Deleting,
      Renewing, Provisioning, Deprovisioning
<1>4. OneProvisioning'
  BY <1>1, MailTypes, CancelQueuedEffect, <1>2 DEF OneProvisioning, JobsInHand, RunsJob,
      Deleting, Renewing, Provisioning, Deprovisioning
<1>5. OrdersInHand'
  BY <1>1, MailTypes, CancelQueuedEffect, <1>2 DEF OrdersInHand, OneProvisioning,
      JobsInHand, RunsJob, Deleting, Renewing, Provisioning, Deprovisioning, IsLive
<1>6. OrdersOnRecord'
  BY <1>1, MailTypes, CancelQueuedEffect, <1>2 DEF OrdersOnRecord, OneProvisioning,
      OrdersInHand, JobsInHand, RunsJob, Deleting, Renewing, Provisioning,
      Deprovisioning, IsLive
<1>7. (~mailCrowded => MailTurns)'
  <2> SUFFICES ASSUME ~mailCrowded'
               PROVE  MailTurns'
    OBVIOUS
  <2>1. QED
    BY <1>1, MailTypes, CancelQueuedEffect, <1>2 DEF MailTurns, CancelledIsDeleted, Busy,
        JobsInHand, RunsJob, OrdersInHand, Provisioning, Deprovisioning, Deleting,
        Renewing, IsLive
<1>8. QED
  BY <1>3, <1>4, <1>5, <1>6, <1>7 DEF MailInv

LEMMA QueuedCancellationFailsKeeps ==
    ASSUME MailTypeOK, MailInv, NEW w \in Workers, QueuedCancellationFails(w)
    PROVE  MailInv'
<1> USE MailAssumption, JobsAssumption DEF MailAt, At
<1>1. /\ JobsInHand /\ OneProvisioning /\ OrdersInHand /\ OrdersOnRecord
      /\ ~mailCrowded => MailTurns
  BY DEF MailInv
<1>2. JobsInHand'
  BY <1>1, MailTypes, QueuedCancellationFailsEffect DEF JobsInHand, RunsJob, Deleting,
      Renewing, Provisioning, Deprovisioning
<1>3. OneProvisioning'
  BY <1>1, MailTypes, QueuedCancellationFailsEffect DEF OneProvisioning, JobsInHand,
      RunsJob, Deleting, Renewing, Provisioning, Deprovisioning
<1>4. OrdersInHand'
  BY <1>1, MailTypes, QueuedCancellationFailsEffect DEF OrdersInHand, OneProvisioning,
      JobsInHand, RunsJob, Deleting, Renewing, Provisioning, Deprovisioning, IsLive
<1>5. OrdersOnRecord'
  BY <1>1, MailTypes, QueuedCancellationFailsEffect DEF OrdersOnRecord, OneProvisioning,
      OrdersInHand, JobsInHand, RunsJob, Deleting, Renewing, Provisioning,
      Deprovisioning, IsLive
<1>6. (~mailCrowded => MailTurns)'
  <2> SUFFICES ASSUME ~mailCrowded'
               PROVE  MailTurns'
    OBVIOUS
  <2>1. QED
    BY <1>1, MailTypes, QueuedCancellationFailsEffect DEF MailTurns, CancelledIsDeleted,
        Busy, JobsInHand, RunsJob, OrdersInHand, Provisioning, Deprovisioning, Deleting,
        Renewing, IsLive
<1>7. QED
  BY <1>2, <1>3, <1>4, <1>5, <1>6 DEF MailInv

LEMMA MailBreaksOffKeeps ==
    ASSUME MailTypeOK, MailInv, NEW w \in Workers, MailBreaksOff(w)
    PROVE  MailInv'
<1> USE MailAssumption, JobsAssumption DEF MailAt, At
<1>1. /\ JobsInHand /\ OneProvisioning /\ OrdersInHand /\ OrdersOnRecord
      /\ ~mailCrowded => MailTurns
  BY DEF MailInv
<1>2. JobsInHand'
  BY <1>1, MailTypes, MailBreaksOffEffect DEF JobsInHand, RunsJob, Deleting, Renewing,
      Provisioning, Deprovisioning
<1>3. OneProvisioning'
  BY <1>1, MailTypes, MailBreaksOffEffect DEF OneProvisioning, JobsInHand, RunsJob,
      Deleting, Renewing, Provisioning, Deprovisioning
<1>4. OrdersInHand'
  BY <1>1, MailTypes, MailBreaksOffEffect DEF OrdersInHand, OneProvisioning, JobsInHand,
      RunsJob, Deleting, Renewing, Provisioning, Deprovisioning, IsLive
<1>5. OrdersOnRecord'
  BY <1>1, MailTypes, MailBreaksOffEffect DEF OrdersOnRecord, OneProvisioning,
      OrdersInHand, JobsInHand, RunsJob, Deleting, Renewing, Provisioning,
      Deprovisioning, IsLive
<1>6. (~mailCrowded => MailTurns)'
  <2> SUFFICES ASSUME ~mailCrowded'
               PROVE  MailTurns'
    OBVIOUS
  <2>1. QED
    BY <1>1, MailTypes, MailBreaksOffEffect DEF MailTurns, CancelledIsDeleted, Busy,
        JobsInHand, RunsJob, OrdersInHand, Provisioning, Deprovisioning, Deleting,
        Renewing, IsLive
<1>7. QED
  BY <1>2, <1>3, <1>4, <1>5, <1>6 DEF MailInv

LEMMA MailInitInv == MailInit => MailTypeOK /\ MailInv
<1> SUFFICES ASSUME MailInit
             PROVE  MailTypeOK /\ MailInv
  OBVIOUS
<1>1. MailTypeOK
  <2>1. mailbox \in MailRow
    BY DEF MailInit, MailRow, MailStatus
  <2>2. mailQueue \in [Jobs -> MailJob]
    BY QueueTypes DEF MailInit
  <2>3. mailHandler \in [Workers -> [pc : MailSteps, order : MailOrders \cup {None},
                                    job : Jobs \cup {None}]]
    BY DEF MailInit, MailSteps, IdleMail
  <2>4. /\ mailOrder \in [MailOrders -> {"none", "live", "deleted"}]
        /\ mailFaults \in 0..MaxFaults /\ lostOrders \subseteq MailOrders
    BY FaultsAssumption DEF MailInit
  <2>5. abandoned \in BOOLEAN /\ mailCut \in BOOLEAN /\ mailCrowded \in BOOLEAN
    BY DEF MailInit
  <2>6. QED
    BY <2>1, <2>2, <2>3, <2>4, <2>5 DEF MailTypeOK
<1>2. /\ \A j \in Jobs : mailQueue[j].state = "none" /\ mailQueue[j].kind = None
      /\ \A w \in Workers : mailHandler[w].pc = "idle" /\ mailHandler[w].job = None
      /\ \A o \in MailOrders : mailOrder[o] = "none"
      /\ mailbox.status = "NONE" /\ mailbox.order = None
  BY DEF MailInit, NoJob, IdleMail
<1>3. JobsInHand /\ OneProvisioning /\ OrdersInHand /\ OrdersOnRecord
  BY <1>2, MailAssumption
  DEF JobsInHand, OneProvisioning, OrdersInHand, OrdersOnRecord, MailAt, At, Deleting,
      Renewing, IsLive
<1>4. MailTurns
  BY <1>2 DEF MailTurns, CancelledIsDeleted, Busy, MailAt, At, Deleting
<1>5. QED
  BY <1>1, <1>3, <1>4 DEF MailInv

LEMMA MailStepInv == MailTypeOK /\ MailInv /\ [MailNext]_mailVars => MailTypeOK' /\ MailInv'
<1> SUFFICES ASSUME MailTypeOK, MailInv, [MailNext]_mailVars
             PROVE  MailTypeOK' /\ MailInv'
  OBVIOUS
<1>1. ASSUME NEW w \in Workers, StartMailHandler(w)
      PROVE  MailTypeOK' /\ MailInv'
  <2>1. ASSUME NEW provider \in {"TITAN", "GOOGLE_WORKSPACE"}, CreateEmailAccount(w,
            provider)
        PROVE  MailTypeOK' /\ MailInv'
    BY <2>1, CreateEmailAccountType, CreateEmailAccountKeeps
  <2>2. ASSUME DeleteEmailAccount(w)
        PROVE  MailTypeOK' /\ MailInv'
    BY <2>2, DeleteEmailAccountType, DeleteEmailAccountKeeps
  <2>3. ASSUME RenewEmail(w)
        PROVE  MailTypeOK' /\ MailInv'
    BY <2>3, RenewEmailType, RenewEmailKeeps
  <2>4. QED
    BY <1>1, <2>1, <2>2, <2>3 DEF StartMailHandler
<1>2. ASSUME NEW w \in Workers, ContinueMail(w)
      PROVE  MailTypeOK' /\ MailInv'
  <2>1. CASE QueueMailbox(w)
    BY <2>1, QueueMailboxType, QueueMailboxKeeps
  <2>2. CASE SuspendMailbox(w)
    BY <2>2, SuspendMailboxType, SuspendMailboxKeeps
  <2>3. CASE DeleteMailOrder(w)
    BY <2>3, DeleteMailOrderType, DeleteMailOrderKeeps
  <2>4. CASE MailOrderNotDeleted(w)
    BY <2>4, MailOrderNotDeletedType, MailOrderNotDeletedKeeps
  <2>5. CASE QueueDeletion(w)
    BY <2>5, QueueDeletionType, QueueDeletionKeeps
  <2>6. CASE CancelMailbox(w)
    BY <2>6, CancelMailboxType, CancelMailboxKeeps
  <2>7. CASE RenewMailOrder(w)
    BY <2>7, RenewMailOrderType, RenewMailOrderKeeps
  <2>8. CASE SaveMailRenewal(w)
    BY <2>8, SaveMailRenewalType, SaveMailRenewalKeeps
  <2>9. CASE PlaceOrder(w)
    BY <2>9, PlaceOrderType, PlaceOrderKeeps
  <2>10. CASE OrderFails(w)
    BY <2>10, OrderFailsType, OrderFailsKeeps
  <2>11. CASE CreateTitanMailbox(w)
    BY <2>11, CreateTitanMailboxType, CreateTitanMailboxKeeps
  <2>12. CASE ProvisioningFails(w)
    BY <2>12, ProvisioningFailsType, ProvisioningFailsKeeps
  <2>13. CASE SaveMailOrder(w)
    BY <2>13, SaveMailOrderType, SaveMailOrderKeeps
  <2>14. CASE GiveUpProvisioning(w)
    BY <2>14, GiveUpProvisioningType, GiveUpProvisioningKeeps
  <2>15. CASE RetryMailJob(w)
    BY <2>15, RetryMailJobType, RetryMailJobKeeps
  <2>16. CASE DeleteQueuedOrder(w)
    BY <2>16, DeleteQueuedOrderType, DeleteQueuedOrderKeeps
  <2>17. CASE QueuedOrderNotDeleted(w)
    BY <2>17, QueuedOrderNotDeletedType, QueuedOrderNotDeletedKeeps
  <2>18. CASE CancelQueued(w)
    BY <2>18, CancelQueuedType, CancelQueuedKeeps
  <2>19. CASE CancellationFails(w)
    BY <2>19, CancellationFailsType, CancellationFailsKeeps
  <2>20. CASE QueuedCancellationFails(w)
    BY <2>20, QueuedCancellationFailsType, QueuedCancellationFailsKeeps
  <2>21. QED
    BY <1>2, <2>1, <2>2, <2>3, <2>4, <2>5, <2>6, <2>7, <2>8, <2>9, <2>10, <2>11, <2>12,
        <2>13, <2>14, <2>15, <2>16, <2>17, <2>18, <2>19, <2>20 DEF ContinueMail
<1>3. ASSUME NEW w \in Workers, MailBreaksOff(w)
      PROVE  MailTypeOK' /\ MailInv'
  BY <1>3, MailBreaksOffType, MailBreaksOffKeeps
<1>4. ASSUME NEW j \in Jobs, NEW w \in Workers, TakeMailJob(w, j)
      PROVE  MailTypeOK' /\ MailInv'
  BY <1>4, TakeMailJobType, TakeMailJobKeeps
<1>5. ASSUME UNCHANGED mailVars
      PROVE  MailTypeOK' /\ MailInv'
  <2>1. MailTypeOK'
    BY <1>5 DEF mailVars, mailHistories, MailTypeOK
  <2>2. MailInv'
    BY <1>5 DEF mailVars, mailHistories, MailInv, JobsInHand, RunsJob, OneProvisioning,
                OrdersInHand, OrdersOnRecord, MailTurns, CancelledIsDeleted, Busy, MailAt,
                At, IsLive
  <2>3. QED
    BY <2>1, <2>2
<1>6. QED
  BY <1>1, <1>2, <1>3, <1>4, <1>5 DEF MailNext, TakesMailJob

LEMMA MailInvariant == MailSpec => [](MailTypeOK /\ MailInv)
<1>1. QED
  BY MailInitInv, MailStepInv, PTL DEF MailSpec

--------------------------------------------------------------------------------

\* The row, the orders, the jobs and the handlers keep their types.
THEOREM MailTypeCorrect == MailSpec => []MailTypeOK
<1>1. QED
  BY MailInvariant, PTL

\* However many handlers and jobs work on the account and whatever fails, an order that
\* is paid for is on the row or about to be, unless the try that placed it has failed.
THEOREM OrdersStayOnRecord == MailSpec => []OrdersOnRecord
<1>1. MailInv => OrdersOnRecord
  BY DEF MailInv
<1>2. QED
  BY <1>1, MailInvariant, PTL

\* Handlers that take turns cancel an account only once its order has been deleted.
THEOREM CancelledMailIsDeleted == MailSpec => []CancelledIsDeleted
<1>1. MailInv => CancelledIsDeleted
  <2>1. CASE mailCrowded
    BY <2>1 DEF CancelledIsDeleted
  <2>2. CASE ~mailCrowded
    BY <2>2 DEF MailInv, MailTurns
  <2>3. QED
    BY <2>1, <2>2
<1>2. QED
  BY <1>1, MailInvariant, PTL

\* Handlers that take turns and get their answers leave no account in use without a
\* live order.
THEOREM ActiveMailIsServed == MailSpec => []ActiveIsServed
<1>1. MailTypeOK /\ MailInv => ActiveIsServed
  BY DEF MailInv, MailTurns, ActiveIsServed, Busy, MailAt, At
<1>2. QED
  BY <1>1, MailInvariant, PTL

================================================================================
