------------------------------- MODULE VpsProofs -------------------------------
(****************************************************************************)
(* Provisioning proved for any number of accounts, servers, jobs, handlers, *)
(* retries and failures: nothing is paid for before its approval, and, when *)
(* no server is lost, no approved request is paid for twice.                *)
(****************************************************************************)
EXTENDS VpsProperties, TLAPS

--------------------------------------------------------------------------------
\* The records.

LEMMA NoneIsNoRow == None \notin Accounts /\ None \notin Servers /\ None \notin Jobs
  BY SetsAssumption

LEMMA AccountType ==
    ASSUME TypeOK, NEW a \in Accounts
    PROVE  /\ account[a] \in AccountRow
           /\ account[a].status \in Status
           /\ account[a].server \in Servers \cup {None}
           /\ account[a].blob \in Blob
           /\ account[a].blob.kind \in {"none", "request", "contabo"}
           /\ account[a].blob.upgrade \in BOOLEAN
  BY DEF TypeOK, AccountRow, Blob

LEMMA JobType ==
    ASSUME TypeOK, NEW j \in Jobs
    PROVE  /\ job[j] \in JobRow
           /\ job[j].kind \in {"none", "provision", "deprovision"}
           /\ job[j].a \in Accounts \cup {None}
           /\ job[j].server \in Servers \cup {None}
           /\ job[j].tries \in Nat
           /\ job[j].stalled \in BOOLEAN
           /\ job[j].state \in {"none", "waiting", "active", "failed"}
  BY DEF TypeOK, JobRow

LEMMA WorkerType ==
    ASSUME TypeOK, NEW w \in Workers
    PROVE  /\ worker[w] \in WorkerRow
           /\ worker[w].pc \in Steps
           /\ worker[w].a \in Accounts \cup {None}
           /\ worker[w].row \in AccountRow
           /\ worker[w].row.status \in Status
           /\ worker[w].row.blob \in Blob
           /\ worker[w].j \in Jobs \cup {None}
           /\ worker[w].s \in Servers \cup {None}
  BY DEF TypeOK, WorkerRow, AccountRow

LEMMA NullTypes ==
    /\ NoBlob \in Blob
    /\ NoAccount \in AccountRow
    /\ NoInstance \in InstanceRow
    /\ NoJob \in JobRow
    /\ Idle \in WorkerRow
  BY DEF NoBlob, Blob, NoAccount, AccountRow, Status, NoInstance, InstanceRow,
     NoJob, JobRow, Idle, WorkerRow, Steps

LEMMA TypeInit == Init => TypeOK
  BY NullTypes DEF Init, TypeOK

--------------------------------------------------------------------------------
\* Types are kept.

LEMMA RowUpdate ==
    ASSUME NEW r \in AccountRow, NEW status \in Status, NEW server \in Servers \cup {None},
           NEW blob \in Blob
    PROVE  /\ [r EXCEPT !.status = status, !.blob = blob] \in AccountRow
           /\ [r EXCEPT !.status = status, !.server = server, !.blob = blob] \in AccountRow
  BY DEF AccountRow

LEMMA WriteType ==
    ASSUME TypeOK, NEW w \in Workers, NEW status \in Status, Write(w, status)
    PROVE  account' \in [Accounts -> AccountRow]
  BY AccountType DEF Write, TypeOK, AccountRow

LEMMA BecomeType ==
    ASSUME TypeOK, NEW w \in Workers, NEW next \in WorkerRow, Become(w, next)
    PROVE  worker' \in [Workers -> WorkerRow]
  BY DEF Become, TypeOK

LEMMA ReturnType ==
    ASSUME TypeOK, NEW w \in Workers, Return(w)
    PROVE  worker' \in [Workers -> WorkerRow]
  BY BecomeType, NullTypes DEF Return

LEMMA GotoType ==
    ASSUME TypeOK, NEW w \in Workers, NEW step \in Steps, Goto(w, step)
    PROVE  worker' \in [Workers -> WorkerRow]
  BY WorkerType DEF Goto, Become, WorkerRow, TypeOK

LEMMA GoOnType ==
    ASSUME TypeOK, NEW w \in Workers, NEW step \in Steps, GoOn(w, step)
    PROVE  worker' \in [Workers -> WorkerRow]
  BY WorkerType, NullTypes DEF GoOn, Become, WorkerRow, TypeOK

LEMMA ReadRowType ==
    ASSUME TypeOK, NEW w \in Workers, NEW a \in Accounts, NEW step \in Steps,
           NEW row \in AccountRow, ReadRow(w, a, step, row)
    PROVE  TypeOK'
  BY NullTypes DEF ReadRow, Become, WorkerRow, TypeOK, history, Idle

LEMMA QueueJobType ==
    ASSUME TypeOK, NEW kind \in {"provision", "deprovision"}, NEW a \in Accounts,
           NEW server \in Servers \cup {None}, QueueJob(kind, a, server)
    PROVE  job' \in [Jobs -> JobRow]
<1>1. PICK j \in Jobs : job' = [job EXCEPT ![j] = [NoJob EXCEPT !.kind = kind, !.a = a,
                                         !.server = server, !.state = "waiting"]]
  BY DEF QueueJob
<1>2. [NoJob EXCEPT !.kind = kind, !.a = a, !.server = server, !.state = "waiting"] \in JobRow
  BY DEF NoJob, JobRow
<1>3. QED
  BY <1>1, <1>2 DEF TypeOK

LEMMA DoneType ==
    ASSUME TypeOK, NEW j \in Jobs \cup {None}, Done(j)
    PROVE  job' \in [Jobs -> JobRow]
  BY NullTypes DEF Done, TypeOK

LEMMA RetryType ==
    ASSUME TypeOK, NEW j \in Jobs \cup {None}, Retry(j)
    PROVE  job' \in [Jobs -> JobRow]
  BY JobType DEF Retry, TypeOK, JobRow

LEMMA TakeType ==
    ASSUME TypeOK, NEW w \in Workers, NEW j \in Jobs, NEW next \in WorkerRow,
           Take(w, j, next)
    PROVE  TypeOK'
  BY JobType DEF Take, Become, TypeOK, JobRow, history

LEMMA CreateVpsType ==
    ASSUME TypeOK, NEW a \in Accounts, CreateVps(a)
    PROVE  TypeOK'
<1>1. [NoAccount EXCEPT !.status = "PENDING_SETUP", !.blob.kind = "request"] \in AccountRow
  BY DEF NoAccount, NoBlob, Blob, AccountRow, Status
<1>2. QED
  BY <1>1 DEF CreateVps, TypeOK, history

LEMMA RequestType ==
    ASSUME TypeOK, NEW w \in Workers, NEW a \in Accounts,
           \/ Request(w, a) \/ ApproveVps(w, a) \/ DeleteHosting(w, a)
    PROVE  TypeOK'
<1>1. /\ NoAccount \in AccountRow
      /\ [NoAccount EXCEPT !.blob = account[a].blob] \in AccountRow
      /\ [NoAccount EXCEPT !.server = account[a].server] \in AccountRow
      /\ [account[a] EXCEPT !.server = None] \in AccountRow
  BY AccountType, NullTypes DEF AccountRow
<1>2. PICK step \in Steps, row \in AccountRow : ReadRow(w, a, step, row)
  BY <1>1 DEF Request, ApproveVps, DeleteHosting, RejectVps, SyncVps, UpgradeVps, ReinstallVps,
     Read, ReadBlob, Steps
<1>3. QED
  BY <1>2, ReadRowType

LEMMA CreateWebsiteType ==
    ASSUME TypeOK, NEW w \in Workers, NEW a \in Accounts, CreateWebsite(w, a)
    PROVE  TypeOK'
<1>1. [Idle EXCEPT !.pc = "queue", !.a = a] \in WorkerRow
  BY NullTypes DEF WorkerRow, Steps, Idle
<1>2. worker' \in [Workers -> WorkerRow]
  BY <1>1, BecomeType DEF CreateWebsite
<1>3. QED
  BY <1>2, AccountType DEF CreateWebsite, TypeOK, AccountRow, Status, history

LEMMA StartJobType ==
    ASSUME TypeOK, NEW w \in Workers, NEW j \in Jobs, StartJob(w, j), job[j].a \in Accounts
    PROVE  TypeOK'
<1>1. CASE StartProvision(w, j)
  <2>1. [Idle EXCEPT !.pc = "create", !.a = job[j].a, !.j = j] \in WorkerRow
    BY NullTypes DEF WorkerRow, Steps, Idle
  <2>2. CASE Take(w, j, [Idle EXCEPT !.pc = "create", !.a = job[j].a, !.j = j])
    BY <2>1, <2>2, TakeType
  <2>3. CASE Done(j) /\ UNCHANGED <<account, instance, history, worker>>
    BY <2>3, DoneType DEF TypeOK, history
  <2>4. QED
    BY <1>1, <2>2, <2>3 DEF StartProvision
<1>2. CASE StartDeprovision(w, j)
  <2>1. [Idle EXCEPT !.pc = IF job[j].server = None THEN "delete" ELSE "cancel",
                     !.a = job[j].a, !.j = j, !.s = job[j].server] \in WorkerRow
    BY NullTypes, JobType DEF WorkerRow, Steps, Idle
  <2>2. QED
    BY <1>2, <2>1, TakeType DEF StartDeprovision
<1>3. QED
  BY <1>1, <1>2 DEF StartJob

LEMMA ProceedType ==
    ASSUME TypeOK, NEW w \in Workers, Proceed(w), At(w, "idle") \/ worker[w].a \in Accounts
    PROVE  TypeOK'
<1> DEFINE a == worker[w].a
<1>0. /\ worker[w].j \in Jobs \cup {None}
      /\ worker[w].s \in Servers \cup {None}
      /\ worker[w].row \in AccountRow
      /\ worker[w].row.blob \in Blob
      /\ worker[w].row.blob.upgrade \in BOOLEAN
      /\ worker[w].row.status \in Status
  BY WorkerType DEF Blob
<1>1. CASE ClaimApproval(w)
  <2>1. worker' \in [Workers -> WorkerRow]
    BY <1>1, GoOnType, ReturnType DEF ClaimApproval, Steps
  <2>2. account' \in [Accounts -> AccountRow]
    BY <1>1, WriteType DEF ClaimApproval, Status, TypeOK
  <2>3. QED
    BY <1>1, <2>1, <2>2 DEF ClaimApproval, TypeOK, At
<1>2. CASE ReleaseClaim(w) \/ CancelAccount(w) \/ EndReinstall(w)
  BY <1>2, WriteType, ReturnType
     DEF ReleaseClaim, CancelAccount, EndReinstall, Status, TypeOK, history
<1>3. CASE QueueProvisioning(w)
  <2>1. a \in Accounts
    BY <1>3 DEF QueueProvisioning, At
  <2>2. job' \in [Jobs -> JobRow]
    BY <1>3, <2>1, QueueJobType DEF QueueProvisioning
  <2>3. QED
    BY <1>3, <2>2, ReturnType DEF QueueProvisioning, TypeOK, history
<1>4. CASE CommitReject(w)
  <2>1. account' \in [Accounts -> AccountRow]
    BY <1>4, AccountType, NullTypes DEF CommitReject, TypeOK, AccountRow, Status
  <2>2. QED
    BY <1>4, <2>1, ReturnType DEF CommitReject, TypeOK, At
<1>5. CASE QueueDeprovision(w)
  <2>1. /\ a \in Accounts
        /\ worker[w].row.server \in Servers \cup {None}
    BY <1>5, <1>0 DEF QueueDeprovision, At, AccountRow
  <2>2. job' \in [Jobs -> JobRow]
    BY <1>5, <2>1, QueueJobType DEF QueueDeprovision
  <2>3. QED
    BY <1>5, <2>2, GoOnType DEF QueueDeprovision, TypeOK, history, Steps
<1>6. ASSUME NEW running \in BOOLEAN, NEW applied \in BOOLEAN, CommitSync(w, running, applied)
      PROVE  TypeOK'
  <2>1. [worker[w].row.blob EXCEPT !.upgrade = @ /\ ~applied] \in Blob
    BY <1>0 DEF Blob
  <2>2. (IF running THEN "ACTIVE" ELSE worker[w].row.status) \in Status
    BY <1>0 DEF Status
  <2>3. [account[a] EXCEPT !.status = IF running THEN "ACTIVE" ELSE worker[w].row.status,
                            !.blob = [worker[w].row.blob EXCEPT !.upgrade = @ /\ ~applied]]
            \in AccountRow
    BY <1>0, <1>6, <2>1, <2>2, AccountType, RowUpdate DEF CommitSync, At
  <2>4. account' \in [Accounts -> AccountRow]
    BY <1>6, <2>3 DEF CommitSync, TypeOK
  <2>5. QED
    BY <1>6, <2>4, ReturnType DEF CommitSync, TypeOK, history
<1>7. CASE CommitUpgrade(w)
  <2>1. [worker[w].row.blob EXCEPT !.upgrade = TRUE] \in Blob
    BY <1>0 DEF Blob
  <2>2. account' \in [Accounts -> AccountRow]
    BY <1>7, <2>1, AccountType DEF CommitUpgrade, TypeOK, AccountRow
  <2>3. QED
    BY <1>7, <2>2, ReturnType DEF CommitUpgrade, TypeOK, history
<1>8. CASE StartReinstall(w)
  BY <1>8, WriteType, GotoType DEF StartReinstall, Status, TypeOK, history, Steps
<1>9. CASE CreateInstance(w)
  <2>1. PICK s \in Servers :
            /\ instance' = [instance EXCEPT ![s] = [state |-> "running", a |-> a]]
            /\ Become(w, [worker[w] EXCEPT !.pc = IF a \in Vps THEN "save" ELSE "boot", !.s = s])
    BY <1>9 DEF CreateInstance
  <2>2. [worker[w] EXCEPT !.pc = IF a \in Vps THEN "save" ELSE "boot", !.s = s] \in WorkerRow
    BY WorkerType DEF WorkerRow, Steps
  <2>3. worker' \in [Workers -> WorkerRow]
    BY <2>1, <2>2, BecomeType
  <2>4. instance' \in [Servers -> InstanceRow]
    BY <2>1, WorkerType DEF TypeOK, InstanceRow
  <2>5. QED
    BY <1>9, <2>3, <2>4 DEF CreateInstance, TypeOK, history
<1>10. CASE CreateInstanceFails(w)
  <2>1. instance' \in [Servers -> InstanceRow]
    BY <1>10, WorkerType DEF CreateInstanceFails, TypeOK, InstanceRow
  <2>2. QED
    BY <1>10, <2>1, GotoType DEF CreateInstanceFails, TypeOK, history, Steps
<1>11. CASE BootInstance(w) \/ PanelReady(w)
  BY <1>11, GotoType DEF BootInstance, PanelReady, TypeOK, history, Steps
<1>12. CASE SaveInstance(w)
  <2>1. [kind |-> "contabo", upgrade |-> FALSE] \in Blob
    BY DEF Blob
  <2>2. a \in Accounts
    BY <1>12 DEF SaveInstance, At
  <2>3. [account[a] EXCEPT !.status = "PROVISIONING", !.server = worker[w].s,
             !.blob = IF a \in Vps THEN @ ELSE [kind |-> "contabo", upgrade |-> FALSE]]
            \in AccountRow
    BY <1>0, <2>2, <2>1, AccountType, RowUpdate DEF Status
  <2>4. account' \in [Accounts -> AccountRow]
    BY <1>12, <2>3 DEF SaveInstance, TypeOK
  <2>5. worker' \in [Workers -> WorkerRow]
    BY <1>12, GotoType DEF SaveInstance, Steps
  <2>6. QED
    BY <1>12, <2>4, <2>5 DEF SaveInstance, TypeOK, history
<1>13. CASE ReadPendingUpgrade(w)
  <2>1. a \in Accounts
    BY <1>13 DEF ReadPendingUpgrade, At
  <2>2. [worker[w].row EXCEPT !.blob = account[a].blob] \in AccountRow
    BY <1>0, <2>1, AccountType DEF AccountRow
  <2>3. [worker[w] EXCEPT !.pc = "activate", !.row.blob = account[a].blob] \in WorkerRow
    BY <2>2, WorkerType DEF WorkerRow, Steps
  <2>4. QED
    BY <1>13, <2>3, BecomeType DEF ReadPendingUpgrade, TypeOK, history
<1>14. CASE ActivateVps(w)
  <2>1. [kind |-> "contabo", upgrade |-> worker[w].row.blob.upgrade] \in Blob
    BY <1>0 DEF Blob
  <2>2. a \in Accounts
    BY <1>14 DEF ActivateVps, At
  <2>3. /\ account[a] \in AccountRow
        /\ (IF worker[w].s = None THEN account[a].server ELSE worker[w].s)
               \in Servers \cup {None}
    BY <1>0, <2>2, AccountType DEF AccountRow
  <2>4. [account[a] EXCEPT !.status = "ACTIVE",
             !.server = IF worker[w].s = None THEN @ ELSE worker[w].s,
             !.blob = [kind |-> "contabo", upgrade |-> worker[w].row.blob.upgrade]]
            \in AccountRow
    BY <2>1, <2>3, RowUpdate DEF Status
  <2>5. account' \in [Accounts -> AccountRow]
    BY <1>14, <2>4 DEF ActivateVps, TypeOK
  <2>6. QED
    BY <1>0, <1>14, <2>5, DoneType, ReturnType DEF ActivateVps, TypeOK, history
<1>15. CASE PanelNotReady(w) \/ ActivateWebsite(w) \/ MarkDeleted(w)
  BY <1>0, <1>15, WriteType, DoneType, ReturnType
     DEF PanelNotReady, ActivateWebsite, MarkDeleted, TypeOK, history, Status
<1>16. CASE FailProvision(w)
  <2>0. [account[a] EXCEPT !.status = "SUSPENDED", !.blob = NoBlob] \in AccountRow
    BY <1>16, AccountType, NullTypes, RowUpdate DEF FailProvision, At, Status
  <2>1. account' \in [Accounts -> AccountRow]
    BY <1>16, <2>0, WriteType DEF FailProvision, TypeOK, Status
  <2>2. QED
    BY <1>0, <1>16, <2>1, RetryType, ReturnType DEF FailProvision, TypeOK, history
<1>17. CASE CancelInstance(w)
  <2>1. instance' \in [Servers -> InstanceRow]
    BY <1>17 DEF CancelInstance, TypeOK, InstanceRow
  <2>2. job' \in [Jobs -> JobRow]
    BY <1>0, <1>17, RetryType DEF CancelInstance, TypeOK
  <2>3. worker' \in [Workers -> WorkerRow]
    BY <1>17, GotoType, ReturnType DEF CancelInstance, Steps
  <2>4. QED
    BY <1>17, <2>1, <2>2, <2>3 DEF CancelInstance, TypeOK, history
<1>18. QED
  BY <1>1, <1>2, <1>3, <1>4, <1>5, <1>6, <1>7, <1>8, <1>9, <1>10, <1>11, <1>12, <1>13,
     <1>14, <1>15, <1>16, <1>17 DEF Proceed

LEMMA FailureType ==
    ASSUME TypeOK, NEW w \in Workers, TimeOut(w) \/ Fail(w)
    PROVE  TypeOK'
<1>1. worker[w].j \in Jobs \cup {None}
  BY WorkerType
<1>2. CASE TimeOut(w)
  <2>1. [worker[w] EXCEPT !.j = None] \in WorkerRow
    BY WorkerType DEF WorkerRow
  <2>2. QED
    BY <1>1, <1>2, <2>1, BecomeType, RetryType DEF TimeOut, TypeOK, history
<1>3. CASE Fail(w)
  <2>1. worker' \in [Workers -> WorkerRow]
    BY <1>3, GotoType, ReturnType DEF Fail, Steps
  <2>2. ASSUME NEW j \in Jobs
        PROVE  \A state \in {"waiting", "failed"} :
                   [job[j] EXCEPT !.stalled = TRUE, !.state = state] \in JobRow
    BY JobType DEF JobRow
  <2>3. job' \in [Jobs -> JobRow]
    BY <1>1, <1>3, <2>2 DEF Fail, TypeOK
  <2>4. QED
    BY <1>3, <2>1, <2>3 DEF Fail, TypeOK
<1>4. QED
  BY <1>2, <1>3

LEMMA TypeStep == TypeOK /\ IInv /\ [Next]_vars => TypeOK'
<1> SUFFICES ASSUME TypeOK, IInv, [Next]_vars
             PROVE  TypeOK'
  OBVIOUS
<1>1. ASSUME NEW a \in Accounts, CreateVps(a) \/ SuspendHosting(a) \/ UnsuspendHosting(a)
      PROVE  TypeOK'
  <2>1. CASE CreateVps(a)
    BY <2>1, CreateVpsType
  <2>2. CASE SuspendHosting(a) \/ UnsuspendHosting(a)
    BY <2>2, AccountType DEF SuspendHosting, UnsuspendHosting, TypeOK, AccountRow, Status, history
  <2>3. QED
    BY <1>1, <2>1, <2>2
<1>2. ASSUME NEW w \in Workers, NEW a \in Accounts, Request(w, a) \/ QueueingRequest(w, a)
      PROVE  TypeOK'
  BY <1>2, RequestType, CreateWebsiteType DEF QueueingRequest
<1>3. ASSUME NEW w \in Workers, NEW j \in Jobs, StartJob(w, j)
      PROVE  TypeOK'
  <2>1. job[j].state = "waiting" /\ job[j].a \in Accounts
    BY <1>3, JobType DEF StartJob, StartProvision, StartDeprovision, Take, IInv, JobInv, NoJob
  <2>2. QED
    BY <1>3, <2>1, StartJobType
<1>4. ASSUME NEW w \in Workers, Proceed(w) \/ TimeOut(w) \/ Fail(w)
      PROVE  TypeOK'
  BY <1>4, ProceedType, FailureType DEF IInv, HandlerInv, At
<1>5. CASE UNCHANGED vars
  BY <1>5 DEF vars, TypeOK
<1>6. QED
  BY <1>1, <1>2, <1>3, <1>4, <1>5 DEF Next

--------------------------------------------------------------------------------
\* What holds of accounts.

LEMMA IInvInit == Init => IInv
<1> SUFFICES ASSUME Init PROVE IInv
  OBVIOUS
<1>1. ASSUME NEW a \in Vps PROVE AccountInv(a)
  BY NoneIsNoRow DEF Init, AccountInv, ServersOf, NoAccount, NoInstance, Vps
<1>2. ASSUME NEW j \in Jobs PROVE JobInv(j)
  BY NoneIsNoRow DEF Init, JobInv, NoJob
<1>3. ASSUME NEW w \in Workers PROVE HandlerInv(w)
  BY NoneIsNoRow DEF Init, HandlerInv, Idle, Vps, Provisioning, Deprovisioning
<1>4. OneProvisioner /\ OneHandlerEach
  BY DEF Init, OneProvisioner, OneHandlerEach, ProvisionJob, AboutToQueue, Idle, NoJob
<1>5. QED
  BY <1>1, <1>2, <1>3, <1>4 DEF IInv

\* The handler of a virtual server's provisioning job works on an approved request.
LEMMA ProvisionerApproved ==
    ASSUME TypeOK, IInv, NEW w \in Workers,
           worker[w].pc \in Provisioning, worker[w].a \in Vps
    PROVE  worker[w].a \in approved
<1>1. /\ worker[w].j \in Jobs
      /\ ProvisionJob(worker[w].j, worker[w].a)
  BY WorkerType DEF IInv, HandlerInv, VpsHandlerInv, ProvisionJob
<1>2. QED
  BY <1>1 DEF IInv, JobInv, ProvisionJob

\* No step takes an account out of the table, or back to waiting for approval.
RowsKept ==
    /\ \A a \in Accounts :
          /\ account[a].status # "NONE" => account'[a].status # "NONE"
          /\ a \in Vps /\ account[a].status \notin {"NONE", "PENDING_SETUP"}
                => account'[a].status # "PENDING_SETUP"
    /\ approved \subseteq approved'

LEMMA HandlerFacts ==
    ASSUME IInv, NEW w \in Workers
    PROVE  /\ HandlerInv(w)
           /\ worker[w].a \in Vps => VpsHandlerInv(w)
  BY DEF IInv, HandlerInv

LEMMA BusyHandler ==
    ASSUME IInv, NEW w \in Workers, ~At(w, "idle")
    PROVE  /\ worker[w].a \in Accounts
           /\ account[worker[w].a].status # "NONE"
  BY DEF IInv, HandlerInv, At

LEMMA WriteRow ==
    ASSUME TypeOK, NEW w \in Workers, worker[w].a \in Accounts,
           NEW status \in Status, Write(w, status)
    PROVE  /\ account'[worker[w].a] = [account[worker[w].a] EXCEPT !.status = status]
           /\ account'[worker[w].a].status = status
           /\ \A x \in Accounts \ {worker[w].a} : account'[x] = account[x]
<1>1. /\ account'[worker[w].a] = [account[worker[w].a] EXCEPT !.status = status]
      /\ \A x \in Accounts \ {worker[w].a} : account'[x] = account[x]
  BY DEF Write, TypeOK
<1>2. QED
  BY <1>1, AccountType DEF AccountRow

\* A handler writes only the row of its own account.
LEMMA OtherRows ==
    ASSUME TypeOK, IInv, NEW w \in Workers, Proceed(w)
    PROVE  \A x \in Accounts \ {worker[w].a} : account'[x] = account[x]
<1>1. CASE ClaimApproval(w) \/ CommitReject(w) \/ FailProvision(w)
  BY <1>1 DEF ClaimApproval, CommitReject, FailProvision, Write, TypeOK
<1>2. CASE ReleaseClaim(w) \/ PanelNotReady(w) \/ CancelAccount(w) \/ StartReinstall(w)
  BY <1>2 DEF ReleaseClaim, PanelNotReady, CancelAccount, StartReinstall, Write, TypeOK
<1>3. CASE EndReinstall(w) \/ ActivateWebsite(w) \/ MarkDeleted(w) \/ CommitUpgrade(w)
  BY <1>3 DEF EndReinstall, ActivateWebsite, MarkDeleted, CommitUpgrade, Write, TypeOK
<1>4. CASE SaveInstance(w)
  BY <1>4 DEF SaveInstance, TypeOK
<1>5. CASE ActivateVps(w)
  BY <1>5 DEF ActivateVps, TypeOK
<1>6. ASSUME NEW running \in BOOLEAN, NEW applied \in BOOLEAN, CommitSync(w, running, applied)
      PROVE  \A x \in Accounts \ {worker[w].a} : account'[x] = account[x]
  BY <1>6 DEF CommitSync, TypeOK
<1>7. CASE \/ QueueProvisioning(w) \/ QueueDeprovision(w) \/ CreateInstance(w)
           \/ CreateInstanceFails(w) \/ BootInstance(w) \/ ReadPendingUpgrade(w)
           \/ PanelReady(w) \/ CancelInstance(w)
  BY <1>7 DEF QueueProvisioning, QueueDeprovision, CreateInstance, CreateInstanceFails,
     BootInstance, ReadPendingUpgrade, PanelReady, CancelInstance
<1>8. QED
  BY <1>1, <1>2, <1>3, <1>4, <1>5, <1>6, <1>7 DEF Proceed

\* What it writes of it.
LEMMA OwnStatus ==
    ASSUME TypeOK, IInv, NEW w \in Workers, Proceed(w)
    PROVE  LET a == worker[w].a
           IN  /\ a \in Accounts
               /\ account[a].status # "NONE"
               /\ account'[a].status # "NONE"
               /\ a \in Vps => \/ account'[a].status = account[a].status
                               \/ account'[a].status # "PENDING_SETUP"
<1> DEFINE a == worker[w].a
           Goal == /\ a \in Accounts
                   /\ account[a].status # "NONE"
                   /\ account'[a].status # "NONE"
                   /\ a \in Vps => \/ account'[a].status = account[a].status
                                   \/ account'[a].status # "PENDING_SETUP"
<1>1. ~At(w, "idle")
  BY DEF Proceed, ClaimApproval, ReleaseClaim, QueueProvisioning, CommitReject, QueueDeprovision,
     CancelAccount, CommitSync, CommitUpgrade, StartReinstall, EndReinstall, CreateInstance,
     CreateInstanceFails, BootInstance, SaveInstance, ReadPendingUpgrade, ActivateVps, PanelReady,
     PanelNotReady, ActivateWebsite, FailProvision, CancelInstance, MarkDeleted, At
<1>2. /\ a \in Accounts
      /\ account[a].status # "NONE"
      /\ a \in Vps => VpsHandlerInv(w)
      /\ HandlerInv(w)
  BY <1>1, BusyHandler, HandlerFacts
<1>3. account[a] \in AccountRow
  BY <1>2, AccountType
<1>4. CASE ClaimApproval(w)
  BY <1>2, <1>4, WriteRow DEF ClaimApproval, Status
<1>5. CASE ReleaseClaim(w)
  BY <1>2, <1>5, WriteRow DEF ReleaseClaim, At, VpsHandlerInv, Status
<1>6. CASE PanelNotReady(w)
  BY <1>2, <1>6, WriteRow DEF PanelNotReady, At, VpsHandlerInv, Status
<1>7. CASE CancelAccount(w) \/ StartReinstall(w) \/ EndReinstall(w)
  BY <1>2, <1>7, WriteRow DEF CancelAccount, StartReinstall, EndReinstall, Status
<1>8. CASE ActivateWebsite(w) \/ MarkDeleted(w)
  BY <1>2, <1>8, WriteRow DEF ActivateWebsite, MarkDeleted, Status
<1>9. CASE CommitReject(w)
  <2>1. account'[a] = [account[a] EXCEPT !.status = "CANCELLED", !.blob = NoBlob]
    BY <1>2, <1>9 DEF CommitReject, TypeOK
  <2>2. QED
    BY <1>2, <1>3, <2>1 DEF AccountRow
<1>10. CASE FailProvision(w)
  <2>1. CASE a \in Vps
    <3>1. account'[a] = [account[a] EXCEPT !.status = "SUSPENDED", !.blob = NoBlob]
      BY <1>2, <1>10, <2>1 DEF FailProvision, TypeOK
    <3>2. QED
      BY <1>2, <1>3, <3>1 DEF AccountRow
  <2>2. CASE a \notin Vps
    BY <1>2, <1>10, <2>2, WriteRow DEF FailProvision, Status
  <2>3. QED
    BY <2>1, <2>2
<1>11. CASE CommitUpgrade(w)
  <2>1. account'[a] = [account[a] EXCEPT
            !.blob = [worker[w].row.blob EXCEPT !.upgrade = TRUE]]
    BY <1>2, <1>11 DEF CommitUpgrade, TypeOK
  <2>2. account'[a].status = account[a].status
    BY <1>3, <2>1 DEF AccountRow
  <2>3. QED
    BY <1>2, <2>2
<1>12. ASSUME NEW running \in BOOLEAN, NEW applied \in BOOLEAN, CommitSync(w, running, applied)
       PROVE  Goal
  <2>1. account'[a] = [account[a] EXCEPT
            !.status = IF running THEN "ACTIVE" ELSE worker[w].row.status,
            !.blob = [worker[w].row.blob EXCEPT !.upgrade = @ /\ ~applied]]
    BY <1>2, <1>12 DEF CommitSync, TypeOK
  <2>2. account'[a].status = IF running THEN "ACTIVE" ELSE worker[w].row.status
    BY <1>3, <2>1 DEF AccountRow
  <2>3. QED
    BY <1>2, <1>12, <2>2 DEF CommitSync, At, HandlerInv, VpsHandlerInv
<1>13. CASE SaveInstance(w)
  <2>1. account'[a] = [account[a] EXCEPT
            !.status = "PROVISIONING", !.server = worker[w].s,
            !.blob = IF a \in Vps THEN @ ELSE [kind |-> "contabo", upgrade |-> FALSE]]
    BY <1>2, <1>13 DEF SaveInstance, TypeOK
  <2>2. QED
    BY <1>2, <1>3, <2>1 DEF AccountRow
<1>14. CASE ActivateVps(w)
  <2>1. account'[a] = [account[a] EXCEPT
            !.status = "ACTIVE",
            !.server = IF worker[w].s = None THEN @ ELSE worker[w].s,
            !.blob = [kind |-> "contabo", upgrade |-> worker[w].row.blob.upgrade]]
    BY <1>2, <1>14 DEF ActivateVps, TypeOK
  <2>2. QED
    BY <1>2, <1>3, <2>1 DEF AccountRow
<1>15. CASE \/ QueueProvisioning(w) \/ QueueDeprovision(w) \/ CreateInstance(w)
            \/ CreateInstanceFails(w) \/ BootInstance(w) \/ ReadPendingUpgrade(w)
            \/ PanelReady(w) \/ CancelInstance(w)
  <2>1. account' = account
    BY <1>15 DEF QueueProvisioning, QueueDeprovision, CreateInstance, CreateInstanceFails,
       BootInstance, ReadPendingUpgrade, PanelReady, CancelInstance
  <2>2. QED
    BY <1>2, <2>1
<1>16. Goal
  BY <1>4, <1>5, <1>6, <1>7, <1>8, <1>9, <1>10, <1>11, <1>12, <1>13, <1>14, <1>15 DEF Proceed
<1>17. QED
  BY <1>16

\* The compare-and-swap of approveVps has claimed the row of a request.
Claims(w, a) ==
    /\ ClaimApproval(w)
    /\ worker[w].a = a
    /\ account[a].status = "PENDING_SETUP"
    /\ worker[w].row.blob.kind = "request"
    /\ approved' = approved \cup {a}

LEMMA ApprovedStep ==
    ASSUME [Next]_vars
    PROVE  approved' = approved \/ \E w \in Workers : Claims(w, worker[w].a)
<1>1. ASSUME NEW w \in Workers, Proceed(w)
      PROVE  approved' = approved \/ Claims(w, worker[w].a)
  <2>1. CASE ClaimApproval(w)
    BY <2>1 DEF ClaimApproval, Claims
  <2>2. CASE ~ClaimApproval(w)
    BY <1>1, <2>2 DEF Proceed, ReleaseClaim, QueueProvisioning, QueueDeprovision, CommitReject,
       CancelAccount, CommitSync, CommitUpgrade, StartReinstall, EndReinstall, CreateInstance,
       CreateInstanceFails, BootInstance, SaveInstance, ReadPendingUpgrade, ActivateVps, PanelReady,
       PanelNotReady, ActivateWebsite, FailProvision, CancelInstance, MarkDeleted, history
  <2>3. QED
    BY <2>1, <2>2
<1>2. QED
  BY <1>1 DEF Next, CreateVps, SuspendHosting, UnsuspendHosting, Request, QueueingRequest,
     RejectVps, SyncVps, UpgradeVps, ReinstallVps, ApproveVps, CreateWebsite, DeleteHosting, Read,
     ReadBlob, ReadRow, StartJob, StartProvision, StartDeprovision, Take, TimeOut, Fail, history, vars

LEMMA RowsStep ==
    ASSUME TypeOK, IInv, [Next]_vars
    PROVE  RowsKept
<1> SUFFICES ASSUME NEW b \in Accounts
             PROVE  /\ account[b].status # "NONE" => account'[b].status # "NONE"
                    /\ b \in Vps /\ account[b].status \notin {"NONE", "PENDING_SETUP"}
                          => account'[b].status # "PENDING_SETUP"
  BY ApprovedStep DEF RowsKept, Claims
<1>1. ASSUME NEW a \in Accounts, CreateVps(a) \/ SuspendHosting(a) \/ UnsuspendHosting(a)
      PROVE  \/ account'[b] = account[b]
             \/ account[b].status = "NONE"
             \/ account'[b].status \notin {"NONE", "PENDING_SETUP"}
  <2>1. CASE b = a
    BY <1>1, <2>1, AccountType DEF CreateVps, SuspendHosting, UnsuspendHosting, TypeOK, AccountRow
  <2>2. CASE b # a
    BY <1>1, <2>2 DEF CreateVps, SuspendHosting, UnsuspendHosting, TypeOK
  <2>3. QED
    BY <2>1, <2>2
<1>2. ASSUME NEW w \in Workers, NEW a \in Accounts, Request(w, a) \/ QueueingRequest(w, a)
      PROVE  account'[b] = account[b] \/ account[b].status = "NONE"
  <2>1. CASE CreateWebsite(w, a)
    BY <2>1 DEF CreateWebsite, TypeOK
  <2>2. CASE Request(w, a) \/ ApproveVps(w, a) \/ DeleteHosting(w, a)
    BY <2>2 DEF Request, RejectVps, SyncVps, UpgradeVps, ReinstallVps, ApproveVps, DeleteHosting,
       Read, ReadBlob, ReadRow
  <2>3. QED
    BY <1>2, <2>1, <2>2 DEF QueueingRequest
<1>3. ASSUME NEW w \in Workers, NEW j \in Jobs, StartJob(w, j)
      PROVE  account' = account
  BY <1>3 DEF StartJob, StartProvision, StartDeprovision, Take
<1>4. ASSUME NEW w \in Workers, Proceed(w)
      PROVE  \/ account'[b] = account[b]
             \/ /\ account'[b].status # "NONE"
                /\ b \in Vps => \/ account'[b].status = account[b].status
                                \/ account'[b].status # "PENDING_SETUP"
  BY <1>4, OtherRows, OwnStatus
<1>5. ASSUME NEW w \in Workers, TimeOut(w) \/ Fail(w)
      PROVE  account' = account
  BY <1>5 DEF TimeOut, Fail
<1>6. QED
  BY <1>1, <1>2, <1>3, <1>4, <1>5 DEF Next, vars

\* What is written of a virtual server's row while its request waits, and what
\* is saved of its server.
LEMMA OwnBlob ==
    ASSUME TypeOK, IInv, NEW w \in Workers, Proceed(w)
    PROVE  LET a == worker[w].a
           IN  a \in Vps =>
                 /\ \/ account'[a].blob = account[a].blob
                    \/ a \in approved
                    \/ account'[a].status = "CANCELLED"
                 /\ \/ account'[a].server = account[a].server
                    \/ a \in approved /\ account'[a].server # None
<1> DEFINE a == worker[w].a
           Goal == /\ \/ account'[a].blob = account[a].blob
                      \/ a \in approved
                      \/ account'[a].status = "CANCELLED"
                   /\ \/ account'[a].server = account[a].server
                      \/ a \in approved /\ account'[a].server # None
<1> SUFFICES ASSUME a \in Vps PROVE Goal
  OBVIOUS
<1>1. /\ a \in Accounts
      /\ VpsHandlerInv(w)
      /\ HandlerInv(w)
      /\ worker[w].pc \in Provisioning => a \in approved
      /\ account[a] \in AccountRow
  BY HandlerFacts, ProvisionerApproved, AccountType DEF Vps
<1>2. ASSUME NEW status \in Status, Write(w, status)
      PROVE  Goal
  <2>1. account'[a] = [account[a] EXCEPT !.status = status]
    BY <1>1, <1>2, WriteRow
  <2>2. account'[a].blob = account[a].blob /\ account'[a].server = account[a].server
    BY <1>1, <2>1 DEF AccountRow
  <2>3. QED
    BY <2>2
<1>3. ASSUME account' = account
      PROVE  Goal
  BY <1>3
<1>4. CASE \/ ClaimApproval(w) \/ ReleaseClaim(w) \/ PanelNotReady(w) \/ CancelAccount(w)
           \/ StartReinstall(w) \/ EndReinstall(w) \/ ActivateWebsite(w) \/ MarkDeleted(w)
  <2>1. account' = account \/ \E status \in Status : Write(w, status)
    BY <1>4 DEF ClaimApproval, ReleaseClaim, PanelNotReady, CancelAccount, StartReinstall,
       EndReinstall, ActivateWebsite, MarkDeleted, Status
  <2>2. QED
    BY <1>2, <1>3, <2>1
<1>5. CASE CommitReject(w)
  <2>1. account'[a] = [account[a] EXCEPT !.status = "CANCELLED", !.blob = NoBlob]
    BY <1>1, <1>5 DEF CommitReject, TypeOK
  <2>2. QED
    BY <1>1, <2>1 DEF AccountRow
<1>6. CASE FailProvision(w)
  <2>1. account'[a] = [account[a] EXCEPT !.status = "SUSPENDED", !.blob = NoBlob]
    BY <1>1, <1>6 DEF FailProvision, TypeOK
  <2>2. QED
    BY <1>1, <1>6, <2>1 DEF AccountRow, FailProvision, At, Provisioning
<1>7. CASE CommitUpgrade(w)
  <2>1. account'[a] = [account[a] EXCEPT
            !.blob = [worker[w].row.blob EXCEPT !.upgrade = TRUE]]
    BY <1>1, <1>7 DEF CommitUpgrade, TypeOK
  <2>2. QED
    BY <1>1, <1>7, <2>1 DEF AccountRow, CommitUpgrade, At, VpsHandlerInv, OnServer
<1>8. ASSUME NEW running \in BOOLEAN, NEW applied \in BOOLEAN, CommitSync(w, running, applied)
      PROVE  Goal
  <2>1. account'[a] = [account[a] EXCEPT
            !.status = IF running THEN "ACTIVE" ELSE worker[w].row.status,
            !.blob = [worker[w].row.blob EXCEPT !.upgrade = @ /\ ~applied]]
    BY <1>1, <1>8 DEF CommitSync, TypeOK
  <2>2. account'[a].server = account[a].server
    BY <1>1, <2>1 DEF AccountRow
  <2>3. a \in approved
    BY <1>1, <1>8 DEF CommitSync, At, VpsHandlerInv, OnServer
  <2>4. QED
    BY <2>2, <2>3
<1>9. CASE SaveInstance(w) \/ ActivateVps(w)
  <2>1. a \in approved
    BY <1>1, <1>9 DEF SaveInstance, ActivateVps, At, Provisioning
  <2>2. CASE SaveInstance(w)
    <3>1. worker[w].s \in Servers /\ account'[a].server = worker[w].s
      BY <1>1, <2>2 DEF SaveInstance, At, HandlerInv, TypeOK, AccountRow
    <3>2. QED
      BY <2>1, <3>1, NoneIsNoRow
  <2>3. CASE ActivateVps(w)
    <3>1. account'[a] = [account[a] EXCEPT
              !.status = "ACTIVE",
              !.server = IF worker[w].s = None THEN @ ELSE worker[w].s,
              !.blob = [kind |-> "contabo", upgrade |-> worker[w].row.blob.upgrade]]
      BY <1>1, <2>3 DEF ActivateVps, TypeOK
    <3>2. account'[a].server = IF worker[w].s = None THEN account[a].server
                               ELSE worker[w].s
      BY <1>1, <3>1 DEF AccountRow
    <3>3. QED
      BY <2>1, <3>2
  <2>4. QED
    BY <1>9, <2>2, <2>3
<1>10. CASE \/ QueueProvisioning(w) \/ QueueDeprovision(w) \/ CreateInstance(w)
            \/ CreateInstanceFails(w) \/ BootInstance(w) \/ ReadPendingUpgrade(w)
            \/ PanelReady(w) \/ CancelInstance(w)
  <2>1. account' = account
    BY <1>10 DEF QueueProvisioning, QueueDeprovision, CreateInstance, CreateInstanceFails,
       BootInstance, ReadPendingUpgrade, PanelReady, CancelInstance
  <2>2. QED
    BY <1>3, <2>1
<1>11. QED
  BY <1>4, <1>5, <1>6, <1>7, <1>8, <1>9, <1>10 DEF Proceed

\* Contabo has created server s for the account of handler w.
Creates(w, s) ==
    /\ CreateInstance(w) \/ (LosesServers /\ CreateInstanceFails(w))
    /\ worker[w].pc = "create"
    /\ instance[s] = NoInstance
    /\ instance' = [instance EXCEPT ![s] = [state |-> "running", a |-> worker[w].a]]

LEMMA InstanceStep ==
    ASSUME TypeOK, [Next]_vars
    PROVE  \/ \A s \in Servers : instance'[s].a = instance[s].a
           \/ \E w \in Workers, s \in Servers : Creates(w, s)
<1>1. ASSUME NEW w \in Workers, Proceed(w)
      PROVE  \/ \A s \in Servers : instance'[s].a = instance[s].a
             \/ \E s \in Servers : Creates(w, s)
  <2>1. CASE CreateInstance(w)
    BY <2>1 DEF CreateInstance, Creates, At
  <2>2. CASE CreateInstanceFails(w)
    BY <2>2 DEF CreateInstanceFails, Creates, At
  <2>3. CASE CancelInstance(w)
    BY <2>3 DEF CancelInstance, TypeOK, InstanceRow
  <2>4. CASE ~CreateInstance(w) /\ ~CreateInstanceFails(w) /\ ~CancelInstance(w)
    <3>1. instance' = instance
      BY <1>1, <2>4 DEF Proceed, ClaimApproval, ReleaseClaim, QueueProvisioning, QueueDeprovision,
         CommitReject, CancelAccount, CommitSync, CommitUpgrade, StartReinstall, EndReinstall,
         BootInstance, SaveInstance, ReadPendingUpgrade, ActivateVps, PanelReady,
         PanelNotReady, ActivateWebsite, FailProvision, MarkDeleted
    <3>2. QED
      BY <3>1
  <2>5. QED
    BY <2>1, <2>2, <2>3, <2>4
<1>2. CASE ~\E w \in Workers : Proceed(w)
  <2>1. instance' = instance
    BY <1>2 DEF Next, CreateVps, SuspendHosting, UnsuspendHosting, Request, QueueingRequest,
       RejectVps, SyncVps, UpgradeVps, ReinstallVps, ApproveVps, CreateWebsite, DeleteHosting, Read,
       ReadBlob, ReadRow, StartJob, StartProvision, StartDeprovision, Take, TimeOut, Fail, vars
  <2>2. QED
    BY <2>1
<1>3. QED
  BY <1>1, <1>2

LEMMA CreatedFor ==
    ASSUME TypeOK, IInv, NEW w \in Workers, NEW s \in Servers, Creates(w, s), NEW b \in Vps
    PROVE  /\ b # worker[w].a => ServersOf(b)' = ServersOf(b)
           /\ b = worker[w].a => ServersOf(b)' = ServersOf(b) \cup {s} /\ b \in approved
<1>1. /\ instance'[s].a = worker[w].a
      /\ \A t \in Servers \ {s} : instance'[t] = instance[t]
      /\ instance[s].a = None
  BY DEF Creates, TypeOK, NoInstance
<1>2. b # None
  BY NoneIsNoRow DEF Vps
<1>3. worker[w].a \in Vps => worker[w].a \in approved
  BY ProvisionerApproved DEF Creates, Provisioning
<1>4. QED
  BY <1>1, <1>2, <1>3 DEF ServersOf

LEMMA AccountStep ==
    ASSUME TypeOK, IInv, [Next]_vars, NEW b \in Vps
    PROVE  AccountInv(b)'
<1>0. /\ AccountInv(b)
      /\ b \in Accounts
      /\ RowsKept
  BY RowsStep DEF IInv, Vps
<1>1. b \in approved' => account'[b].status \notin {"NONE", "PENDING_SETUP"}
  <2>1. CASE b \in approved
    BY <1>0, <2>1 DEF AccountInv, RowsKept
  <2>2. ASSUME b \in approved', b \notin approved
        PROVE  account'[b].status = "PROVISIONING"
    <3>1. PICK w \in Workers : Claims(w, b)
      BY <2>2, ApprovedStep DEF Claims
    <3>2. QED
      BY <1>0, <3>1, WriteRow DEF Claims, ClaimApproval, Status
  <2>3. QED
    BY <2>1, <2>2
<1>2. /\ account'[b].status = "PENDING_SETUP" => account'[b].blob.kind = "request"
      /\ account'[b].server # None => b \in approved'
  <2>1. ASSUME NEW a \in Accounts, CreateVps(a) \/ SuspendHosting(a) \/ UnsuspendHosting(a)
        PROVE  /\ account'[b].status = "PENDING_SETUP" => account'[b].blob.kind = "request"
               /\ account'[b].server # None => b \in approved
    <3>1. CASE b = a /\ CreateVps(a)
      BY <1>0, <3>1 DEF CreateVps, TypeOK, NoAccount, NoBlob
    <3>2. CASE b = a /\ ~CreateVps(a)
      <4>1. /\ account'[b].status # "PENDING_SETUP"
            /\ account'[b].server = account[b].server
        BY <1>0, <2>1, <3>2, AccountType DEF SuspendHosting, UnsuspendHosting, TypeOK, AccountRow
      <4>2. QED
        BY <1>0, <4>1 DEF AccountInv
    <3>3. CASE b # a
      BY <1>0, <2>1, <3>3 DEF CreateVps, SuspendHosting, UnsuspendHosting, TypeOK, AccountInv
    <3>4. QED
      BY <3>1, <3>2, <3>3
  <2>2. ASSUME NEW w \in Workers, Proceed(w)
        PROVE  /\ account'[b].status = "PENDING_SETUP" => account'[b].blob.kind = "request"
               /\ account'[b].server # None => b \in approved
    <3>1. CASE b = worker[w].a
      BY <1>0, <2>2, <3>1, OwnBlob, OwnStatus DEF AccountInv, RowsKept
    <3>2. CASE b # worker[w].a
      BY <1>0, <2>2, <3>2, OtherRows DEF AccountInv
    <3>3. QED
      BY <3>1, <3>2
  <2>3. ASSUME NEW w \in Workers, NEW a \in Accounts, Request(w, a) \/ QueueingRequest(w, a)
        PROVE  account'[b] = account[b]
    BY <2>3 DEF Request, RejectVps, SyncVps, UpgradeVps, ReinstallVps, QueueingRequest, ApproveVps,
       CreateWebsite, DeleteHosting, Read, ReadBlob, ReadRow, TypeOK, Vps
  <2>4. CASE \/ UNCHANGED vars
             \/ \E w \in Workers : TimeOut(w) \/ Fail(w) \/ \E j \in Jobs : StartJob(w, j)
    <3>1. account' = account
      BY <2>4 DEF vars, TimeOut, Fail, StartJob, StartProvision, StartDeprovision, Take
    <3>2. QED
      BY <1>0, <3>1 DEF AccountInv, RowsKept
  <2>5. QED
    BY <1>0, <2>1, <2>2, <2>3, <2>4 DEF Next, RowsKept, AccountInv
<1>3. ServersOf(b)' # {} => b \in approved'
  <2>1. CASE \A s \in Servers : instance'[s].a = instance[s].a
    BY <1>0, <2>1 DEF ServersOf, AccountInv, RowsKept
  <2>2. ASSUME NEW w \in Workers, NEW s \in Servers, Creates(w, s)
        PROVE  ServersOf(b)' # {} => b \in approved'
    BY <1>0, <2>2, CreatedFor DEF AccountInv, RowsKept
  <2>3. QED
    BY <2>1, <2>2, InstanceStep
<1>4. QED
  BY <1>1, <1>2, <1>3 DEF AccountInv

--------------------------------------------------------------------------------
\* What a step of a handler changes of the handlers and the jobs.

Acts(w) ==
    \/ \E a \in Accounts : Request(w, a) \/ QueueingRequest(w, a)
    \/ \E j \in Jobs : StartJob(w, j)
    \/ Proceed(w) \/ TimeOut(w) \/ Fail(w)

LEMMA StepCases ==
    ASSUME [Next]_vars
    PROVE  \/ UNCHANGED <<worker, job>>
           \/ \E w \in Workers : Acts(w)
  BY DEF Next, vars, Acts, CreateVps, SuspendHosting, UnsuspendHosting

LEMMA OtherHandlers ==
    ASSUME TypeOK, NEW w \in Workers, Acts(w)
    PROVE  \A v \in Workers \ {w} : worker'[v] = worker[v]
<1> USE DEF TypeOK, Become
<1>1. ASSUME NEW a \in Accounts, Request(w, a) \/ QueueingRequest(w, a)
      PROVE  \A v \in Workers \ {w} : worker'[v] = worker[v]
  BY <1>1 DEF Request, RejectVps, SyncVps, UpgradeVps, ReinstallVps, QueueingRequest, ApproveVps,
     CreateWebsite, DeleteHosting, Read, ReadBlob, ReadRow
<1>2. ASSUME NEW j \in Jobs, StartJob(w, j)
      PROVE  \A v \in Workers \ {w} : worker'[v] = worker[v]
  BY <1>2 DEF StartJob, StartProvision, StartDeprovision, Take
<1>3. CASE Proceed(w)
  <2> USE DEF Return, Goto, GoOn
  <2>1. CASE \/ ClaimApproval(w) \/ ReleaseClaim(w) \/ QueueProvisioning(w) \/ CommitReject(w)
             \/ QueueDeprovision(w) \/ CancelAccount(w)
             \/ \E running, applied \in BOOLEAN : CommitSync(w, running, applied)
    BY <2>1 DEF ClaimApproval, ReleaseClaim, QueueProvisioning, CommitReject, QueueDeprovision,
       CancelAccount, CommitSync
  <2>2. CASE \/ CommitUpgrade(w) \/ StartReinstall(w) \/ EndReinstall(w) \/ CreateInstance(w)
             \/ CreateInstanceFails(w) \/ BootInstance(w) \/ SaveInstance(w)
             \/ ReadPendingUpgrade(w)
    BY <2>2 DEF CommitUpgrade, StartReinstall, EndReinstall, CreateInstance, CreateInstanceFails,
       BootInstance, SaveInstance, ReadPendingUpgrade
  <2>3. CASE \/ ActivateVps(w) \/ PanelReady(w) \/ PanelNotReady(w) \/ ActivateWebsite(w)
             \/ FailProvision(w) \/ CancelInstance(w) \/ MarkDeleted(w)
    BY <2>3 DEF ActivateVps, PanelReady, PanelNotReady, ActivateWebsite, FailProvision,
       CancelInstance, MarkDeleted
  <2>4. QED
    BY <1>3, <2>1, <2>2, <2>3 DEF Proceed
<1>4. CASE TimeOut(w) \/ Fail(w)
  BY <1>4 DEF TimeOut, Fail, Return, Goto
<1>5. QED
  BY <1>1, <1>2, <1>3, <1>4 DEF Acts

\* Job i was queued by handler w, removed, or has gone on with the same account.
Queued(w, i) ==
    /\ job[i] = NoJob
    /\ job'[i].state = "waiting"
    /\ job'[i].a = worker[w].a
    /\ worker'[w].pc # "queue"
    /\ \A k \in Jobs \ {i} : job'[k] = job[k]
    /\ \/ job'[i].kind = "provision" /\ worker[w].pc = "queue"
       \/ job'[i].kind = "deprovision" /\ worker[w].pc = "deprovision"

Removed(i) == job'[i] = NoJob

WentOn(i) ==
    /\ job[i] # NoJob
    /\ job'[i].kind = job[i].kind
    /\ job'[i].a = job[i].a
    /\ job'[i].state \in {"waiting", "active", "failed"}

LEMMA QueueForm ==
    ASSUME TypeOK, NEW w \in Workers, QueueProvisioning(w) \/ QueueDeprovision(w), NEW i \in Jobs
    PROVE  job'[i] = job[i] \/ Queued(w, i)
<1>1. worker'[w].pc # "queue"
  <2>1. \/ worker'[w] = Idle
        \/ worker'[w] = [worker[w] EXCEPT !.pc = "abandon", !.row = NoAccount]
    BY DEF QueueProvisioning, QueueDeprovision, Return, GoOn, Become, TypeOK
  <2>2. CASE worker'[w] = Idle
    BY <2>2 DEF Idle
  <2>3. CASE worker'[w] = [worker[w] EXCEPT !.pc = "abandon", !.row = NoAccount]
    BY <2>3, WorkerType DEF WorkerRow
  <2>4. QED
    BY <2>1, <2>2, <2>3
<1>2. CASE QueueProvisioning(w)
  <2>1. PICK j \in Jobs :
            /\ job[j] = NoJob
            /\ job' = [job EXCEPT ![j] = [NoJob EXCEPT !.kind = "provision", !.a = worker[w].a,
                                             !.server = None, !.state = "waiting"]]
    BY <1>2 DEF QueueProvisioning, QueueJob
  <2>2. QED
    BY <1>1, <1>2, <2>1 DEF TypeOK, NoJob, Queued, QueueProvisioning, At
<1>3. CASE QueueDeprovision(w)
  <2> DEFINE server == IF worker[w].a \in Vps THEN worker[w].row.server ELSE None
  <2>1. PICK j \in Jobs :
            /\ job[j] = NoJob
            /\ job' = [job EXCEPT ![j] = [NoJob EXCEPT !.kind = "deprovision", !.a = worker[w].a,
                                             !.server = server, !.state = "waiting"]]
    BY <1>3 DEF QueueDeprovision, QueueJob
  <2>2. QED
    BY <1>1, <1>3, <2>1 DEF TypeOK, NoJob, Queued, QueueDeprovision, At
<1>4. QED
  BY <1>2, <1>3

LEMMA DoneForm ==
    ASSUME TypeOK, NEW j \in Jobs \cup {None}, Done(j), NEW i \in Jobs
    PROVE  job'[i] = job[i] \/ (i = j /\ Removed(i))
  BY DEF Done, TypeOK, Removed

LEMMA RetryForm ==
    ASSUME TypeOK, NEW j \in Jobs \cup {None}, Retry(j), NEW i \in Jobs,
           j # None => job[j] # NoJob
    PROVE  job'[i] = job[i] \/ (i = j /\ WentOn(i))
<1>1. CASE j = None
  BY <1>1 DEF Retry
<1>2. CASE j # None
  <2>1. PICK state \in {"waiting", "failed"} :
            job' = [job EXCEPT ![j].tries = @ + 1, ![j].state = state]
    BY <1>2 DEF Retry
  <2>2. CASE i = j
    BY <1>2, <2>1, <2>2, JobType DEF WentOn, TypeOK, JobRow
  <2>3. CASE i # j
    BY <2>1, <2>3 DEF TypeOK
  <2>4. QED
    BY <2>2, <2>3
<1>3. QED
  BY <1>1, <1>2

\* What a step of handler w can do to job i.
LEMMA JobForms ==
    ASSUME TypeOK, IInv, NEW w \in Workers, Acts(w), NEW i \in Jobs
    PROVE  \/ job'[i] = job[i]
           \/ Queued(w, i)
           \/ /\ i = worker[w].j \/ job[i].state = "waiting"
              /\ Removed(i) \/ WentOn(i)
<1> DEFINE Goal == \/ job'[i] = job[i]
                   \/ Queued(w, i)
                   \/ /\ i = worker[w].j \/ job[i].state = "waiting"
                      /\ Removed(i) \/ WentOn(i)
<1>1. /\ worker[w].j \in Jobs \cup {None}
      /\ worker[w].j # None => job[worker[w].j] # NoJob
  BY WorkerType DEF IInv, HandlerInv, NoJob
<1>2. ASSUME NEW a \in Accounts, Request(w, a) \/ QueueingRequest(w, a)
      PROVE  job' = job
  BY <1>2 DEF Request, RejectVps, SyncVps, UpgradeVps, ReinstallVps, QueueingRequest, ApproveVps,
     CreateWebsite, DeleteHosting, Read, ReadBlob, ReadRow
<1>3. ASSUME NEW j \in Jobs, StartJob(w, j)
      PROVE  Goal
  <2>1. job[j].state = "waiting"
    BY <1>3 DEF StartJob, StartProvision, StartDeprovision, Take
  <2>2. CASE Done(j)
    BY <2>1, <2>2, DoneForm
  <2>3. CASE job' = [job EXCEPT ![j].state = "active"]
    <3>1. CASE i = j
      BY <2>1, <2>3, <3>1, JobType DEF WentOn, TypeOK, JobRow, NoJob
    <3>2. CASE i # j
      BY <2>3, <3>2 DEF TypeOK
    <3>3. QED
      BY <3>1, <3>2
  <2>4. QED
    BY <1>3, <2>2, <2>3 DEF StartJob, StartProvision, StartDeprovision, Take
<1>4. CASE Proceed(w)
  <2>1. CASE QueueProvisioning(w) \/ QueueDeprovision(w)
    BY <2>1, QueueForm
  <2>2. CASE ActivateVps(w) \/ PanelNotReady(w) \/ ActivateWebsite(w) \/ MarkDeleted(w)
    BY <1>1, <2>2, DoneForm DEF ActivateVps, PanelNotReady, ActivateWebsite, MarkDeleted
  <2>3. CASE FailProvision(w) \/ CancelInstance(w)
    <3>1. job' = job \/ Retry(worker[w].j)
      BY <2>3 DEF FailProvision, CancelInstance
    <3>2. QED
      BY <1>1, <3>1, RetryForm
  <2>4. CASE ~\/ QueueProvisioning(w) \/ QueueDeprovision(w) \/ ActivateVps(w)
              \/ PanelNotReady(w) \/ ActivateWebsite(w) \/ MarkDeleted(w)
              \/ FailProvision(w) \/ CancelInstance(w)
    <3>1. job' = job
      BY <1>4, <2>4 DEF Proceed, ClaimApproval, ReleaseClaim, CommitReject, CancelAccount, CommitSync,
         CommitUpgrade, StartReinstall, EndReinstall, CreateInstance, CreateInstanceFails,
         BootInstance, SaveInstance, ReadPendingUpgrade, PanelReady
    <3>2. QED
      BY <3>1
  <2>5. QED
    BY <2>1, <2>2, <2>3, <2>4
<1>5. CASE TimeOut(w)
  BY <1>1, <1>5, RetryForm DEF TimeOut
<1>6. CASE Fail(w)
  <2>1. CASE job' = job
    BY <2>1
  <2>2. CASE job' # job
    <3>1. PICK state \in {"waiting", "failed"} :
            /\ worker[w].j # None
            /\ job' = [job EXCEPT ![worker[w].j].stalled = TRUE, ![worker[w].j].state = state]
      BY <1>6, <2>2 DEF Fail
    <3>2. CASE i = worker[w].j
      BY <1>1, <3>1, <3>2, JobType DEF WentOn, TypeOK, JobRow
    <3>3. CASE i # worker[w].j
      BY <3>1, <3>3 DEF TypeOK
    <3>4. QED
      BY <3>2, <3>3
  <2>3. QED
    BY <2>1, <2>2
<1>7. QED
  BY <1>2, <1>3, <1>4, <1>5, <1>6 DEF Acts

--------------------------------------------------------------------------------
\* What holds of jobs and handlers.

LEMMA JobStep ==
    ASSUME TypeOK, IInv, [Next]_vars, NEW i \in Jobs
    PROVE  JobInv(i)'
<1>0. /\ JobInv(i)
      /\ RowsKept
      /\ job[i].a \in Accounts \cup {None}
  BY RowsStep, JobType DEF IInv
<1>1. CASE job'[i] = job[i]
  BY <1>0, <1>1 DEF JobInv, RowsKept
<1>2. CASE Removed(i)
  BY <1>2, NoneIsNoRow DEF Removed, JobInv, NoJob
<1>3. CASE WentOn(i)
  <2>1. job'[i] # NoJob
    BY <1>3 DEF WentOn, NoJob
  <2>2. QED
    BY <1>0, <1>3, <2>1 DEF JobInv, WentOn, RowsKept
<1>4. ASSUME NEW w \in Workers, Queued(w, i)
      PROVE  JobInv(i)'
  <2>1. /\ worker[w].a \in Accounts
        /\ account[worker[w].a].status # "NONE"
        /\ worker[w].pc = "queue" /\ worker[w].a \in Vps => worker[w].a \in approved
    BY <1>4, HandlerFacts, BusyHandler DEF Queued, At, VpsHandlerInv
  <2>2. job'[i] # NoJob
    BY <1>4 DEF Queued, NoJob
  <2>3. QED
    BY <1>0, <1>4, <2>1, <2>2, NoneIsNoRow DEF JobInv, Queued, RowsKept
<1>5. QED
  BY <1>1, <1>2, <1>3, <1>4, StepCases, JobForms

\* A handler that does not move keeps what it holds.
LEMMA KeptHandler ==
    ASSUME TypeOK, IInv, RowsKept, NEW v \in Workers, worker'[v] = worker[v],
           worker[v].j # None => job'[worker[v].j] = job[worker[v].j]
    PROVE  HandlerInv(v)'
<1>1. HandlerInv(v)
  BY DEF IInv
<1>2. worker[v].a \in Vps => worker[v].a \in Accounts
  BY DEF Vps
<1>3. worker[v].a \in Vps => VpsHandlerInv(v)'
  <2> SUFFICES ASSUME worker[v].a \in Vps PROVE VpsHandlerInv(v)'
    OBVIOUS
  <2>1. VpsHandlerInv(v) /\ (worker[v].pc # "idle" => account[worker[v].a].status # "NONE")
    BY <1>1 DEF HandlerInv
  <2>2. QED
    BY <1>2, <2>1 DEF VpsHandlerInv, RowsKept
<1>4. QED
  BY <1>1, <1>3 DEF HandlerInv, RowsKept

LEMMA IdleHandler ==
    ASSUME NEW w \in Workers, worker'[w] = Idle
    PROVE  HandlerInv(w)'
<1>1. /\ worker'[w].pc = "idle"
      /\ worker'[w].a = None
      /\ worker'[w].j = None
  BY DEF Idle
<1>2. None \notin Vps
  BY NoneIsNoRow DEF Vps
<1>3. QED
  BY <1>1, <1>2 DEF HandlerInv, Provisioning, Deprovisioning

\* A request that has read the row of its account.
LEMMA ReadHandler ==
    ASSUME TypeOK, IInv, NEW w \in Workers, NEW a \in Accounts,
           Request(w, a) \/ ApproveVps(w, a) \/ DeleteHosting(w, a)
    PROVE  HandlerInv(w)'
<1>0. /\ a \in Vps => AccountInv(a)
      /\ account[a] \in AccountRow
      /\ None \notin Vps
  BY AccountType, NoneIsNoRow DEF IInv, Vps
<1>1. ASSUME NEW step \in {"reject", "upgrade", "reinstall", "deprovision", "claim", "sync"},
             NEW row \in AccountRow,
             ReadRow(w, a, step, row),
             step \in OnServer /\ a \in Vps => a \in approved,
             step = "sync" => row.status = account[a].status,
             step = "claim" => row.blob = account[a].blob
      PROVE  HandlerInv(w)'
  <2>1. /\ worker'[w] = [Idle EXCEPT !.pc = step, !.a = a, !.row = row]
        /\ account' = account
        /\ approved' = approved
        /\ account[a].status # "NONE"
    BY <1>1 DEF ReadRow, Become, TypeOK, history
  <2>2. /\ worker'[w].pc = step
        /\ worker'[w].a = a
        /\ worker'[w].row = row
        /\ worker'[w].j = None
    BY <2>1 DEF Idle
  <2>3. a \in Vps => VpsHandlerInv(w)'
    BY <1>0, <1>1, <2>1, <2>2 DEF VpsHandlerInv, AccountInv, Provisioning, OnServer
  <2>4. worker'[w] # Idle
    BY <2>2 DEF Idle
  <2>5. QED
    BY <1>1, <2>1, <2>2, <2>3, <2>4 DEF HandlerInv, Provisioning, Deprovisioning
<1>2. /\ NoAccount \in AccountRow
      /\ [NoAccount EXCEPT !.blob = account[a].blob] \in AccountRow
      /\ [NoAccount EXCEPT !.blob = account[a].blob].blob = account[a].blob
      /\ [NoAccount EXCEPT !.server = account[a].server] \in AccountRow
      /\ [account[a] EXCEPT !.server = None] \in AccountRow
      /\ [account[a] EXCEPT !.server = None].status = account[a].status
  BY <1>0, AccountType, NullTypes DEF AccountRow
<1>3. account[a].server # None /\ a \in Vps => a \in approved
  BY <1>0 DEF AccountInv
<1>4. CASE RejectVps(w, a) \/ DeleteHosting(w, a)
  BY <1>1, <1>2, <1>4 DEF RejectVps, DeleteHosting, Read, OnServer
<1>5. CASE SyncVps(w, a)
  BY <1>1, <1>2, <1>3, <1>5 DEF SyncVps
<1>6. CASE UpgradeVps(w, a) \/ ReinstallVps(w, a)
  BY <1>1, <1>2, <1>3, <1>6 DEF UpgradeVps, ReinstallVps, Read, ReadBlob
<1>7. CASE ApproveVps(w, a)
  BY <1>1, <1>2, <1>7 DEF ApproveVps, ReadBlob, OnServer
<1>8. QED
  BY <1>4, <1>5, <1>6, <1>7 DEF Request

\* A handler that goes on to its next step with the same job, or none.
LEMMA GoesOn ==
    ASSUME TypeOK, IInv, RowsKept, NEW w \in Workers, NEW step \in Steps \ {"idle", "sync", "claim"},
           ~At(w, "idle"),
           worker'[w].pc = step,
           worker'[w].a = worker[w].a,
           worker'[w].j = worker[w].j,
           job' = job,
           step \in {"boot", "save", "cancel"} => worker'[w].s \in Servers,
           step \in Provisioning <=> worker[w].pc \in Provisioning,
           step \in Deprovisioning <=> worker[w].pc \in Deprovisioning,
           worker[w].a \in Vps =>
               /\ step \notin {"release", "boot", "panel", "finish"}
               /\ step \in OnServer \cup {"queue"} => worker[w].a \in approved'
    PROVE  HandlerInv(w)'
<1>1. /\ HandlerInv(w)
      /\ worker[w].a \in Accounts
      /\ account[worker[w].a].status # "NONE"
      /\ worker[w].a \in Vps => VpsHandlerInv(w)
  BY HandlerFacts, BusyHandler
<1>2. worker[w].a \in Vps => VpsHandlerInv(w)'
  BY <1>1 DEF VpsHandlerInv
<1>3. worker'[w] # Idle
  BY DEF Idle
<1>4. account'[worker[w].a].status # "NONE"
  BY <1>1 DEF RowsKept
<1>5. QED
  BY <1>1, <1>2, <1>3, <1>4 DEF HandlerInv

LEMMA GotoFields ==
    ASSUME TypeOK, NEW w \in Workers, NEW step \in Steps, Goto(w, step) \/ GoOn(w, step)
    PROVE  /\ worker'[w].pc = step
           /\ worker'[w].a = worker[w].a
           /\ worker'[w].j = worker[w].j
           /\ worker'[w].s = worker[w].s
<1>1. \/ worker'[w] = [worker[w] EXCEPT !.pc = step]
      \/ worker'[w] = [worker[w] EXCEPT !.pc = step, !.row = NoAccount]
  BY DEF Goto, GoOn, Become, TypeOK
<1>2. QED
  BY <1>1, WorkerType DEF WorkerRow

LEMMA ReturnIdle ==
    ASSUME TypeOK, NEW w \in Workers, Return(w)
    PROVE  worker'[w] = Idle
  BY DEF Return, Become, TypeOK

LEMMA ProceedHandler ==
    ASSUME TypeOK, IInv, RowsKept, NEW w \in Workers, Proceed(w)
    PROVE  HandlerInv(w)'
<1> DEFINE a == worker[w].a
<1>0. /\ HandlerInv(w)
      /\ a \in Vps => VpsHandlerInv(w)
      /\ a \in Vps /\ worker[w].pc \in Provisioning => a \in approved
      /\ worker[w].pc \in Steps
  BY HandlerFacts, ProvisionerApproved, WorkerType
<1>1. CASE \/ ReleaseClaim(w) \/ QueueProvisioning(w) \/ CommitReject(w) \/ CancelAccount(w)
           \/ CommitUpgrade(w) \/ EndReinstall(w) \/ ActivateVps(w) \/ PanelNotReady(w)
           \/ ActivateWebsite(w) \/ FailProvision(w) \/ MarkDeleted(w)
           \/ \E running, applied \in BOOLEAN : CommitSync(w, running, applied)
  <2>1. Return(w)
    BY <1>1 DEF ReleaseClaim, QueueProvisioning, CommitReject, CancelAccount, CommitUpgrade,
       EndReinstall, ActivateVps, PanelNotReady, ActivateWebsite, FailProvision, MarkDeleted, CommitSync
  <2>2. QED
    BY <2>1, ReturnIdle, IdleHandler
<1>2. CASE ClaimApproval(w)
  <2>1. CASE Return(w)
    BY <2>1, ReturnIdle, IdleHandler
  <2>2. ASSUME ~Return(w)
        PROVE  /\ worker[w].pc = "claim"
               /\ account[a].status = "PENDING_SETUP"
               /\ job' = job
               /\ \/ /\ GoOn(w, "queue")
                     /\ approved' = approved \cup {a}
                  \/ /\ GoOn(w, "release")
                     /\ worker[w].row.blob.kind # "request"
    BY <1>2, <2>2 DEF ClaimApproval, At
  <2>3. CASE ~Return(w)
    <3>1. PICK step \in {"queue", "release"} :
              /\ GoOn(w, step)
              /\ step = "queue" => approved' = approved \cup {a}
              /\ step = "release" => worker[w].row.blob.kind # "request"
      BY <2>2, <2>3
    <3>2. a \in Vps => step # "release"
      BY <1>0, <2>2, <2>3, <3>1 DEF VpsHandlerInv
    <3>3. step \in Steps \ {"idle", "sync", "claim"} /\ step \notin Provisioning \cup Deprovisioning
      BY DEF Steps, Provisioning, Deprovisioning
    <3>4. worker[w].pc \notin Provisioning \cup Deprovisioning /\ ~At(w, "idle")
      BY <2>2, <2>3 DEF Provisioning, Deprovisioning, At
    <3>5. step \in OnServer \cup {"queue"} => a \in approved'
      BY <3>1 DEF OnServer
    <3>6. step \notin {"save", "poll", "activate", "cancel", "boot", "panel", "finish"}
      OBVIOUS
    <3>7. QED
      BY <2>2, <2>3, <3>1, <3>2, <3>3, <3>4, <3>5, <3>6, GoesOn, GotoFields
  <2>4. QED
    BY <2>1, <2>3
<1>3. CASE QueueDeprovision(w)
  <2>1. /\ worker[w].pc = "deprovision"
        /\ worker'[w].pc = "abandon"
        /\ worker'[w].a = a
        /\ worker'[w].j = worker[w].j
    BY <1>3, GotoFields DEF QueueDeprovision, At, Steps
  <2>2. a \in Accounts /\ account'[a].status # "NONE"
    BY <2>1, BusyHandler DEF At, RowsKept
  <2>3. worker[w].j = None
    BY <1>0, <2>1 DEF HandlerInv, Provisioning, Deprovisioning
  <2>4. worker'[w] # Idle
    BY <2>1 DEF Idle
  <2>5. a \in Vps => VpsHandlerInv(w)'
    BY <2>1 DEF VpsHandlerInv, Provisioning, OnServer
  <2>6. QED
    BY <2>1, <2>2, <2>3, <2>4, <2>5 DEF HandlerInv, Provisioning, Deprovisioning
<1>4. CASE StartReinstall(w)
  <2>1. /\ worker[w].pc = "reinstall"
        /\ worker'[w].pc = "reinstalled"
        /\ worker'[w].a = a
        /\ worker'[w].j = worker[w].j
        /\ job' = job
    BY <1>4, GotoFields DEF StartReinstall, At, Steps
  <2>2. a \in Vps => a \in approved'
    BY <1>0, <2>1 DEF VpsHandlerInv, OnServer, RowsKept
  <2>3. QED
    BY <2>1, <2>2, GoesOn DEF At, Steps, Provisioning, Deprovisioning
<1>5. CASE CreateInstance(w)
  <2>1. PICK s \in Servers :
            worker'[w] = [worker[w] EXCEPT !.pc = IF a \in Vps THEN "save" ELSE "boot", !.s = s]
    BY <1>5 DEF CreateInstance, Become, TypeOK
  <2>2. /\ worker'[w].pc = IF a \in Vps THEN "save" ELSE "boot"
        /\ worker'[w].a = a
        /\ worker'[w].j = worker[w].j
        /\ worker'[w].s = s
    BY <2>1, WorkerType DEF WorkerRow
  <2>3. worker[w].pc = "create" /\ job' = job
    BY <1>5 DEF CreateInstance, At
  <2>4. CASE a \in Vps
    BY <2>2, <2>3, <2>4, GoesOn DEF At, Steps, Provisioning, Deprovisioning, OnServer
  <2>5. CASE a \notin Vps
    BY <2>2, <2>3, <2>5, GoesOn DEF At, Steps, Provisioning, Deprovisioning
  <2>6. QED
    BY <2>4, <2>5
<1>6. CASE CreateInstanceFails(w)
  <2>1. /\ worker[w].pc = "create" /\ job' = job
        /\ Goto(w, "failed") \/ (a \in Vps /\ Goto(w, "poll"))
    BY <1>6 DEF CreateInstanceFails, At
  <2>2. CASE Goto(w, "failed")
    BY <2>1, <2>2, GotoFields, GoesOn DEF At, Steps, Provisioning, Deprovisioning, OnServer
  <2>3. CASE a \in Vps /\ Goto(w, "poll")
    BY <2>1, <2>3, GotoFields, GoesOn DEF At, Steps, Provisioning, Deprovisioning, OnServer
  <2>4. QED
    BY <2>1, <2>2, <2>3
<1>7. CASE BootInstance(w)
  <2>1. worker[w].pc = "boot" /\ job' = job /\ a \notin Vps
    BY <1>0, <1>7 DEF BootInstance, At, VpsHandlerInv
  <2>2. CASE Goto(w, "failed")
    BY <2>1, <2>2, GotoFields, GoesOn DEF At, Steps, Provisioning, Deprovisioning
  <2>3. CASE Goto(w, "save")
    BY <1>0, <2>1, <2>3, GotoFields, GoesOn DEF At, Steps, Provisioning, Deprovisioning, HandlerInv
  <2>4. QED
    BY <1>7, <2>2, <2>3 DEF BootInstance
<1>8. CASE SaveInstance(w)
  <2>1. worker[w].pc = "save" /\ job' = job /\ worker[w].s \in Servers
    BY <1>0, <1>8 DEF SaveInstance, At, HandlerInv
  <2>2. CASE a \in Vps
    <3>1. Goto(w, "poll")
      BY <1>8, <2>2 DEF SaveInstance
    <3>2. QED
      BY <2>1, <2>2, <3>1, GotoFields, GoesOn DEF At, Steps, Provisioning, Deprovisioning, OnServer
  <2>3. CASE a \notin Vps
    <3>1. Goto(w, "panel")
      BY <1>8, <2>3 DEF SaveInstance
    <3>2. QED
      BY <2>1, <2>3, <3>1, GotoFields, GoesOn DEF At, Steps, Provisioning, Deprovisioning
  <2>4. QED
    BY <2>2, <2>3
<1>9. CASE ReadPendingUpgrade(w)
  <2>1. /\ worker[w].pc = "poll"
        /\ job' = job
        /\ worker'[w] = [worker[w] EXCEPT !.pc = "activate", !.row.blob = account[a].blob]
    BY <1>0, <1>9 DEF ReadPendingUpgrade, At, HandlerInv, Become, TypeOK
  <2>2. /\ worker'[w].pc = "activate"
        /\ worker'[w].a = a
        /\ worker'[w].j = worker[w].j
        /\ worker'[w].s = worker[w].s
    BY <2>1, WorkerType DEF WorkerRow
  <2>3. QED
    BY <2>1, <2>2, GoesOn DEF At, Steps, Provisioning, Deprovisioning, OnServer
<1>10. CASE PanelReady(w)
  <2>1. worker[w].pc = "panel" /\ job' = job /\ a \notin Vps
    BY <1>0, <1>10 DEF PanelReady, At, VpsHandlerInv
  <2>2. PICK step \in {"finish", "failed"} : Goto(w, step)
    BY <1>10 DEF PanelReady
  <2>3. QED
    BY <2>1, <2>2, GotoFields, GoesOn DEF At, Steps, Provisioning, Deprovisioning
<1>11. CASE CancelInstance(w)
  <2>1. CASE Return(w)
    BY <2>1, ReturnIdle, IdleHandler
  <2>2. CASE Goto(w, "delete") /\ UNCHANGED job
    <3>1. worker[w].pc = "cancel"
      BY <1>11 DEF CancelInstance, At
    <3>2. QED
      BY <2>2, <3>1, GotoFields, GoesOn DEF At, Steps, Provisioning, Deprovisioning, OnServer
  <2>3. QED
    BY <1>11, <2>1, <2>2 DEF CancelInstance
<1>12. QED
  BY <1>1, <1>2, <1>3, <1>4, <1>5, <1>6, <1>7, <1>8, <1>9, <1>10, <1>11 DEF Proceed

\* A handler that takes a job of the queue.
LEMMA TakeHandler ==
    ASSUME TypeOK, IInv, RowsKept, NEW w \in Workers, NEW j \in Jobs, StartJob(w, j)
    PROVE  /\ HandlerInv(w)'
           /\ worker'[w].j \in {None, j}
           /\ worker[w].j = None
           /\ job[j].state = "waiting"
<1> DEFINE a == job[j].a
<1>1. /\ At(w, "idle")
      /\ job[j].state = "waiting"
  BY DEF StartJob, StartProvision, StartDeprovision, Take
<1>2. /\ worker[w] = Idle
      /\ worker[w].j = None
  BY <1>1 DEF IInv, HandlerInv, At, Idle
<1>3. /\ JobInv(j)
      /\ a \in Accounts
      /\ account'[a].status # "NONE"
      /\ j # None
  BY <1>1, JobType, NoneIsNoRow DEF IInv, JobInv, NoJob, RowsKept
<1>4. CASE UNCHANGED worker
  BY <1>1, <1>2, <1>4, IdleHandler
<1>5. ASSUME NEW next \in {[Idle EXCEPT !.pc = "create", !.a = a, !.j = j],
                          [Idle EXCEPT !.pc = "delete", !.a = a, !.j = j, !.s = None],
                          [Idle EXCEPT !.pc = "cancel", !.a = a, !.j = j, !.s = job[j].server]},
             Take(w, j, next),
             next.pc = "create" => job[j].kind = "provision",
             next.pc # "create" => job[j].kind = "deprovision",
             next.pc = "cancel" => job[j].server # None
      PROVE  HandlerInv(w)' /\ worker'[w].j = j
  <2>1. /\ worker'[w] = next
        /\ job' = [job EXCEPT ![j].state = "active"]
    BY <1>5 DEF Take, Become, TypeOK
  <2>2. /\ job'[j].state = "active"
        /\ job'[j].kind = job[j].kind
        /\ job'[j].a = a
    BY <2>1, JobType DEF TypeOK, JobRow
  <2>3. /\ next.a = a
        /\ next.j = j
        /\ next.pc \in {"create", "delete", "cancel"}
        /\ next.pc = "cancel" => next.s = job[j].server
    BY <1>5 DEF Idle
  <2>4. next.pc = "cancel" => next.s \in Servers
    BY <1>5, <2>3, JobType
  <2>5. next # Idle
    BY <2>3 DEF Idle
  <2>6. a \in Vps => VpsHandlerInv(w)'
    BY <1>3, <2>1, <2>3 DEF VpsHandlerInv, OnServer
  <2>7. /\ next.pc \in Provisioning \cup Deprovisioning
        /\ next.pc \in Provisioning <=> next.pc = "create"
        /\ next.pc \notin {"idle", "sync", "boot", "save", "poll", "activate"}
    BY <2>3 DEF Provisioning, Deprovisioning
  <2>8. job[j].kind = "provision" <=> next.pc \in Provisioning
    BY <1>5, <2>7
  <2>9. QED
    BY <1>3, <2>1, <2>2, <2>3, <2>4, <2>5, <2>6, <2>7, <2>8 DEF HandlerInv
<1>6. CASE StartProvision(w, j) /\ ~UNCHANGED worker
  <2>1. Take(w, j, [Idle EXCEPT !.pc = "create", !.a = a, !.j = j]) /\ job[j].kind = "provision"
    BY <1>6 DEF StartProvision
  <2>2. [Idle EXCEPT !.pc = "create", !.a = a, !.j = j].pc = "create"
    BY DEF Idle
  <2>3. QED
    BY <1>1, <1>2, <1>5, <2>1, <2>2
<1>7. CASE StartDeprovision(w, j)
  <2>1. CASE job[j].server = None
    <3>1. /\ Take(w, j, [Idle EXCEPT !.pc = "delete", !.a = a, !.j = j, !.s = None])
          /\ job[j].kind = "deprovision"
      BY <1>7, <2>1 DEF StartDeprovision
    <3>2. [Idle EXCEPT !.pc = "delete", !.a = a, !.j = j, !.s = None].pc = "delete"
      BY DEF Idle
    <3>3. QED
      BY <1>1, <1>2, <1>5, <3>1, <3>2
  <2>2. CASE job[j].server # None
    <3>1. /\ Take(w, j, [Idle EXCEPT !.pc = "cancel", !.a = a, !.j = j, !.s = job[j].server])
          /\ job[j].kind = "deprovision"
      BY <1>7, <2>2 DEF StartDeprovision
    <3>2. [Idle EXCEPT !.pc = "cancel", !.a = a, !.j = j, !.s = job[j].server].pc = "cancel"
      BY DEF Idle
    <3>3. QED
      BY <1>1, <1>2, <1>5, <2>2, <3>1, <3>2
  <2>3. QED
    BY <2>1, <2>2
<1>8. QED
  BY <1>1, <1>2, <1>4, <1>6, <1>7 DEF StartJob

LEMMA CreateWebsiteHandler ==
    ASSUME TypeOK, NEW w \in Workers, NEW a \in Accounts, CreateWebsite(w, a)
    PROVE  /\ HandlerInv(w)'
           /\ worker'[w].pc = "queue"
           /\ worker'[w].j = None
           /\ worker'[w].a \notin Vps
<1>1. /\ worker'[w] = [Idle EXCEPT !.pc = "queue", !.a = a]
      /\ account'[a] = [account[a] EXCEPT !.status = "PROVISIONING"]
      /\ a \notin Vps
  BY DEF CreateWebsite, Become, TypeOK, Vps
<1>2. account'[a].status = "PROVISIONING"
  BY <1>1, AccountType DEF AccountRow
<1>3. /\ worker'[w].pc = "queue"
      /\ worker'[w].a = a
      /\ worker'[w].j = None
  BY <1>1 DEF Idle
<1>4. worker'[w] # Idle
  BY <1>3 DEF Idle
<1>5. QED
  BY <1>1, <1>2, <1>3, <1>4 DEF HandlerInv, Provisioning, Deprovisioning

LEMMA FailureHandler ==
    ASSUME TypeOK, IInv, RowsKept, NEW w \in Workers, TimeOut(w) \/ Fail(w)
    PROVE  HandlerInv(w)'
<1>0. HandlerInv(w) /\ (worker[w].a \in Vps => VpsHandlerInv(w))
  BY HandlerFacts
<1>1. CASE TimeOut(w)
  <2>1. worker'[w] = [worker[w] EXCEPT !.j = None]
    BY <1>1 DEF TimeOut, Become, TypeOK
  <2>2. /\ worker'[w].pc = worker[w].pc
        /\ worker'[w].a = worker[w].a
        /\ worker'[w].s = worker[w].s
        /\ worker'[w].row = worker[w].row
        /\ worker'[w].j = None
    BY <2>1, WorkerType DEF WorkerRow
  <2>3. /\ worker[w].pc \in Provisioning
        /\ worker[w].a \notin Vps
    BY <1>0, <1>1 DEF TimeOut, HandlerInv, Vps
  <2>4. /\ worker[w].pc \notin Deprovisioning \cup {"idle", "sync"}
        /\ worker'[w] # Idle
    BY <2>2, <2>3 DEF Provisioning, Deprovisioning, Idle
  <2>5. worker[w].a \in Accounts /\ account'[worker[w].a].status # "NONE"
    BY <1>0, <2>4 DEF HandlerInv, RowsKept
  <2>6. QED
    BY <1>0, <2>2, <2>3, <2>4, <2>5 DEF HandlerInv
<1>2. CASE Fail(w)
  <2>1. CASE Return(w)
    BY <2>1, ReturnIdle, IdleHandler
  <2>2. CASE InTry(w) /\ Goto(w, "failed") /\ UNCHANGED job
    BY <2>2, GotoFields, GoesOn DEF InTry, At, Steps, Provisioning, Deprovisioning, OnServer
  <2>3. QED
    BY <1>2, <2>1, <2>2 DEF Fail
<1>3. QED
  BY <1>1, <1>2

LEMMA OwnHandler ==
    ASSUME TypeOK, IInv, RowsKept, NEW w \in Workers, Acts(w)
    PROVE  HandlerInv(w)'
<1>1. ASSUME NEW a \in Accounts, Request(w, a) \/ QueueingRequest(w, a)
      PROVE  HandlerInv(w)'
  <2>1. CASE CreateWebsite(w, a)
    BY <2>1, CreateWebsiteHandler
  <2>2. CASE Request(w, a) \/ ApproveVps(w, a) \/ DeleteHosting(w, a)
    BY <2>2, ReadHandler
  <2>3. QED
    BY <1>1, <2>1, <2>2 DEF QueueingRequest
<1>2. ASSUME NEW j \in Jobs, StartJob(w, j)
      PROVE  HandlerInv(w)'
  BY <1>2, TakeHandler
<1>3. CASE Proceed(w) \/ TimeOut(w) \/ Fail(w)
  BY <1>3, ProceedHandler, FailureHandler
<1>4. QED
  BY <1>1, <1>2, <1>3 DEF Acts

\* No step changes a job that another handler runs.
LEMMA HeldJobs ==
    ASSUME TypeOK, IInv, NEW w \in Workers, NEW v \in Workers \ {w}, Acts(w), worker[v].j # None
    PROVE  job'[worker[v].j] = job[worker[v].j]
<1>1. /\ worker[v].j \in Jobs
      /\ job[worker[v].j].state = "active"
      /\ worker[v].j # worker[w].j
  BY WorkerType DEF IInv, HandlerInv, OneHandlerEach
<1>2. QED
  BY <1>1, JobForms DEF Queued, NoJob

LEMMA HandlerStep ==
    ASSUME TypeOK, IInv, [Next]_vars, NEW v \in Workers
    PROVE  HandlerInv(v)'
<1>1. RowsKept
  BY RowsStep
<1>2. CASE UNCHANGED <<worker, job>>
  BY <1>1, <1>2, KeptHandler
<1>3. ASSUME NEW w \in Workers, Acts(w)
      PROVE  HandlerInv(v)'
  <2>1. CASE v = w
    BY <1>1, <1>3, <2>1, OwnHandler
  <2>2. CASE v # w
    BY <1>1, <1>3, <2>2, OtherHandlers, HeldJobs, KeptHandler
  <2>3. QED
    BY <2>1, <2>2
<1>4. QED
  BY <1>2, <1>3, StepCases

--------------------------------------------------------------------------------
\* One handler for each job, and one provisioner for each request.

\* The job a handler holds after its step, whether it is about to
\* queue one, and whether it is about to create a server.
LEMMA OwnJob ==
    ASSUME TypeOK, IInv, NEW w \in Workers, Acts(w)
    PROVE  /\ \/ worker'[w].j \in {None, worker[w].j}
              \/ worker'[w].j \in Jobs /\ job[worker'[w].j].state = "waiting"
           /\ \/ worker'[w].pc # "queue"
              \/ worker'[w].a \notin Vps
              \/ Claims(w, worker'[w].a)
           /\ worker'[w].pc = "create" /\ worker'[w].a \in Vps =>
                 \E j \in Jobs : StartProvision(w, j) /\ worker'[w].a = job[j].a
<1> DEFINE Goal == /\ \/ worker'[w].j \in {None, worker[w].j}
                      \/ worker'[w].j \in Jobs /\ job[worker'[w].j].state = "waiting"
                   /\ \/ worker'[w].pc # "queue"
                      \/ worker'[w].a \notin Vps
                      \/ Claims(w, worker'[w].a)
                   /\ worker'[w].pc = "create" /\ worker'[w].a \in Vps =>
                         \E j \in Jobs : StartProvision(w, j) /\ worker'[w].a = job[j].a
<1>1. ASSUME worker'[w] = Idle
      PROVE  Goal
  BY <1>1 DEF Idle
<1>2. ASSUME NEW step \in Steps \ {"queue", "create"}, Goto(w, step) \/ GoOn(w, step)
      PROVE  Goal
  BY <1>2, GotoFields
<1>3. ASSUME NEW a \in Accounts, Request(w, a) \/ QueueingRequest(w, a)
      PROVE  Goal
  <2>1. CASE CreateWebsite(w, a)
    BY <2>1, CreateWebsiteHandler
  <2>2. CASE Request(w, a) \/ ApproveVps(w, a) \/ DeleteHosting(w, a)
    <3>1. PICK step \in {"reject", "upgrade", "reinstall", "deprovision", "claim", "sync"} :
              \E row : worker'[w] = [Idle EXCEPT !.pc = step, !.a = a, !.row = row]
      BY <2>2 DEF Request, RejectVps, SyncVps, UpgradeVps, ReinstallVps, ApproveVps, DeleteHosting,
         Read, ReadBlob, ReadRow, Become, TypeOK
    <3>2. QED
      BY <3>1 DEF Idle
  <2>3. QED
    BY <1>3, <2>1, <2>2 DEF QueueingRequest
<1>4. ASSUME NEW j \in Jobs, StartJob(w, j)
      PROVE  Goal
  <2>1. worker'[w].j \in {None, j} /\ job[j].state = "waiting"
    <3>1. CASE StartProvision(w, j)
      <4>1. CASE UNCHANGED worker
        BY <3>1, <4>1 DEF StartProvision, Take, IInv, HandlerInv, At, Idle
      <4>2. CASE Take(w, j, [Idle EXCEPT !.pc = "create", !.a = job[j].a, !.j = j])
        BY <4>2 DEF Take, Become, TypeOK, Idle
      <4>3. QED
        BY <3>1, <4>1, <4>2 DEF StartProvision
    <3>2. CASE StartDeprovision(w, j)
      BY <3>2 DEF StartDeprovision, Take, Become, TypeOK, Idle
    <3>3. QED
      BY <1>4, <3>1, <3>2 DEF StartJob
  <2>2. worker'[w].pc # "queue"
    <3>1. At(w, "idle")
      BY <1>4 DEF StartJob, StartProvision, StartDeprovision, Take
    <3>2. CASE UNCHANGED worker
      BY <3>1, <3>2 DEF At
    <3>3. CASE ~UNCHANGED worker
      BY <1>4, <3>3 DEF StartJob, StartProvision, StartDeprovision, Take, Become, TypeOK, Idle
    <3>4. QED
      BY <3>2, <3>3
  <2>3. ASSUME worker'[w].pc = "create"
        PROVE  StartProvision(w, j) /\ worker'[w].a = job[j].a
    <3>1. At(w, "idle")
      BY <1>4 DEF StartJob, StartProvision, StartDeprovision, Take
    <3>2. ~UNCHANGED worker
      BY <2>3, <3>1 DEF At
    <3>3. StartProvision(w, j)
      BY <1>4, <2>3 DEF StartJob, StartDeprovision, Take, Become, TypeOK, Idle
    <3>4. worker'[w] = [Idle EXCEPT !.pc = "create", !.a = job[j].a, !.j = j]
      BY <3>2, <3>3 DEF StartProvision, Take, Become, TypeOK
    <3>5. QED
      BY <3>3, <3>4 DEF Idle
  <2>4. QED
    BY <2>1, <2>2, <2>3
<1>5. CASE Proceed(w)
  <2>1. CASE \/ ReleaseClaim(w) \/ QueueProvisioning(w) \/ CommitReject(w) \/ CancelAccount(w)
             \/ CommitUpgrade(w) \/ EndReinstall(w) \/ ActivateVps(w) \/ PanelNotReady(w)
             \/ ActivateWebsite(w) \/ FailProvision(w) \/ MarkDeleted(w)
             \/ \E running, applied \in BOOLEAN : CommitSync(w, running, applied)
    <3>1. Return(w)
      BY <2>1 DEF ReleaseClaim, QueueProvisioning, CommitReject, CancelAccount, CommitUpgrade,
         EndReinstall, ActivateVps, PanelNotReady, ActivateWebsite, FailProvision, MarkDeleted, CommitSync
    <3>2. QED
      BY <1>1, <3>1, ReturnIdle
  <2>2. CASE ClaimApproval(w)
    <3>1. CASE Return(w)
      BY <1>1, <3>1, ReturnIdle
    <3>2. CASE GoOn(w, "release")
      BY <1>2, <3>2 DEF Steps
    <3>3. CASE ~Return(w) /\ ~GoOn(w, "release")
      <4>1. Claims(w, worker[w].a) /\ GoOn(w, "queue")
        BY <2>2, <3>3 DEF ClaimApproval, Claims
      <4>2. /\ worker'[w].pc = "queue"
            /\ worker'[w].a = worker[w].a
            /\ worker'[w].j = worker[w].j
        BY <4>1, GotoFields DEF Steps
      <4>3. QED
        BY <4>1, <4>2
    <3>4. QED
      BY <3>1, <3>2, <3>3
  <2>3. CASE CreateInstance(w)
    <3>1. PICK step \in {"save", "boot"}, s \in Servers :
              worker'[w] = [worker[w] EXCEPT !.pc = step, !.s = s]
      BY <2>3 DEF CreateInstance, Become, TypeOK
    <3>2. QED
      BY <3>1, WorkerType DEF WorkerRow
  <2>4. CASE ReadPendingUpgrade(w)
    <3>1. worker'[w] = [worker[w] EXCEPT !.pc = "activate",
                                         !.row.blob = account[worker[w].a].blob]
      BY <2>4 DEF ReadPendingUpgrade, Become, TypeOK
    <3>2. QED
      BY <3>1, WorkerType DEF WorkerRow
  <2>5. CASE \/ QueueDeprovision(w) \/ StartReinstall(w) \/ CreateInstanceFails(w)
             \/ BootInstance(w) \/ SaveInstance(w) \/ PanelReady(w) \/ CancelInstance(w)
    <3>1. \/ Return(w)
          \/ \E step \in {"abandon", "reinstalled", "failed", "save", "poll", "panel", "finish",
                          "delete"} : Goto(w, step) \/ GoOn(w, step)
      BY <2>5 DEF QueueDeprovision, StartReinstall, CreateInstanceFails, BootInstance, SaveInstance,
         PanelReady, CancelInstance
    <3>2. QED
      BY <1>1, <1>2, <3>1, ReturnIdle DEF Steps
  <2>6. QED
    BY <1>5, <2>1, <2>2, <2>3, <2>4, <2>5 DEF Proceed
<1>6. CASE TimeOut(w)
  <2>1. worker'[w] = [worker[w] EXCEPT !.j = None]
    BY <1>6 DEF TimeOut, Become, TypeOK
  <2>2. /\ worker'[w].j = None
        /\ worker'[w].a = worker[w].a
        /\ worker[w].a \notin Vps
    BY <1>6, <2>1, WorkerType DEF WorkerRow, TimeOut, Vps
  <2>3. QED
    BY <2>2
<1>7. CASE Fail(w)
  BY <1>1, <1>2, <1>7, ReturnIdle DEF Fail, Steps
<1>8. QED
  BY <1>3, <1>4, <1>5, <1>6, <1>7 DEF Acts

LEMMA OneHandlerStep ==
    ASSUME TypeOK, IInv, [Next]_vars
    PROVE  OneHandlerEach'
<1>1. CASE UNCHANGED <<worker, job>>
  BY <1>1 DEF IInv, OneHandlerEach
<1>2. ASSUME NEW w \in Workers, Acts(w)
      PROVE  OneHandlerEach'
  <2>1. \A v \in Workers \ {w} : worker'[v] = worker[v]
    BY <1>2, OtherHandlers
  <2>2. ASSUME NEW v \in Workers \ {w}, worker[v].j # None
        PROVE  worker'[w].j # worker[v].j
    BY <1>2, <2>2, OwnJob DEF IInv, HandlerInv, OneHandlerEach
  <2>3. QED
    BY <2>1, <2>2 DEF IInv, OneHandlerEach
<1>3. QED
  BY <1>1, <1>2, StepCases

\* A request that is being approved has nobody to provision it yet.
LEMMA NoProvisionerYet ==
    ASSUME IInv, NEW a \in Vps, a \notin approved
    PROVE  /\ \A j \in Jobs : ~ProvisionJob(j, a)
           /\ \A w \in Workers : ~AboutToQueue(w, a)
<1>1. \A j \in Jobs : ~ProvisionJob(j, a)
  BY DEF IInv, JobInv, ProvisionJob
<1>2. \A w \in Workers : ~AboutToQueue(w, a)
  BY HandlerFacts DEF VpsHandlerInv, AboutToQueue
<1>3. QED
  BY <1>1, <1>2

LEMMA OneProvisionerStep ==
    ASSUME TypeOK, IInv, [Next]_vars
    PROVE  OneProvisioner'
<1>1. CASE UNCHANGED <<worker, job>>
  BY <1>1 DEF IInv, OneProvisioner, ProvisionJob, AboutToQueue
<1>2. ASSUME NEW w \in Workers, Acts(w)
      PROVE  OneProvisioner'
  <2> SUFFICES ASSUME NEW a \in Vps
               PROVE  /\ \A i, j \in Jobs : ProvisionJob(i, a)' /\ ProvisionJob(j, a)' => i = j
                      /\ \A u, v \in Workers :
                            AboutToQueue(u, a)' /\ AboutToQueue(v, a)' => u = v
                      /\ \A v \in Workers, j \in Jobs :
                            ~(AboutToQueue(v, a)' /\ ProvisionJob(j, a)')
    BY DEF OneProvisioner
  <2>1. ASSUME NEW v \in Workers, AboutToQueue(v, a)'
        PROVE  (v # w /\ AboutToQueue(v, a)) \/ (v = w /\ Claims(w, a))
    BY <1>2, <2>1, OtherHandlers, OwnJob DEF AboutToQueue
  <2>2. ASSUME NEW i \in Jobs, ProvisionJob(i, a)'
        PROVE  ProvisionJob(i, a) \/ (Queued(w, i) /\ AboutToQueue(w, a))
    <3>1. CASE job'[i] = job[i]
      BY <2>2, <3>1 DEF ProvisionJob
    <3>2. CASE Queued(w, i)
      BY <2>2, <3>2 DEF ProvisionJob, Queued, AboutToQueue
    <3>3. CASE Removed(i)
      BY <2>2, <3>3 DEF ProvisionJob, Removed, NoJob
    <3>4. CASE WentOn(i)
      BY <2>2, <3>4 DEF ProvisionJob, WentOn
    <3>5. QED
      BY <1>2, <3>1, <3>2, <3>3, <3>4, JobForms
  <2>3. CASE Claims(w, a)
    <3>1. a \notin approved
      BY <2>3 DEF Claims, IInv, AccountInv
    <3>2. /\ \A j \in Jobs : ~ProvisionJob(j, a)
          /\ \A v \in Workers : ~AboutToQueue(v, a)
      BY <3>1, NoProvisionerYet
    <3>3. QED
      BY <2>1, <2>2, <3>2
  <2>4. CASE ~Claims(w, a)
    <3>1. \A v \in Workers : AboutToQueue(v, a)' => v # w /\ AboutToQueue(v, a)
      BY <2>1, <2>4
    <3>2. /\ \A i, j \in Jobs : ProvisionJob(i, a) /\ ProvisionJob(j, a) => i = j
          /\ \A u, v \in Workers : AboutToQueue(u, a) /\ AboutToQueue(v, a) => u = v
          /\ \A v \in Workers, j \in Jobs : ~(AboutToQueue(v, a) /\ ProvisionJob(j, a))
      BY DEF IInv, OneProvisioner
    <3>3. CASE \E i \in Jobs : Queued(w, i) /\ AboutToQueue(w, a)
      <4>1. PICK i \in Jobs : Queued(w, i)
        BY <3>3
      <4>2. AboutToQueue(w, a)
        BY <3>3
      <4>3. \A k \in Jobs : ProvisionJob(k, a)' => k = i
        BY <4>1, <4>2, <3>2, <2>2 DEF Queued, ProvisionJob
      <4>4. QED
        BY <3>1, <3>2, <4>2, <4>3
    <3>4. CASE ~\E i \in Jobs : Queued(w, i) /\ AboutToQueue(w, a)
      BY <2>2, <3>1, <3>2, <3>4
    <3>5. QED
      BY <3>3, <3>4
  <2>5. QED
    BY <2>3, <2>4
<1>3. QED
  BY <1>1, <1>2, StepCases

LEMMA IInvStep == TypeOK /\ IInv /\ [Next]_vars => IInv'
<1> SUFFICES ASSUME TypeOK, IInv, [Next]_vars
             PROVE  IInv'
  OBVIOUS
<1>1. \A a \in Vps : AccountInv(a)'
  BY AccountStep
<1>2. \A j \in Jobs : JobInv(j)'
  BY JobStep
<1>3. \A w \in Workers : HandlerInv(w)'
  BY HandlerStep
<1>4. OneProvisioner' /\ OneHandlerEach'
  BY OneProvisionerStep, OneHandlerStep
<1>5. QED
  BY <1>1, <1>2, <1>3, <1>4 DEF IInv, Vps

\* Types are kept and handlers hold what they should, for any number of accounts,
\* servers, jobs, overlapping handlers and failures.
THEOREM Inductive == Spec => [](TypeOK /\ IInv)
<1>1. Init => TypeOK /\ IInv
  BY TypeInit, IInvInit
<1>2. TypeOK /\ IInv /\ [Next]_vars => (TypeOK /\ IInv)'
  BY TypeStep, IInvStep
<1>3. QED
  BY <1>1, <1>2, PTL DEF Spec

\* Every variable keeps its type.
THEOREM TypeCorrect == Spec => []TypeOK
  BY Inductive, PTL

\* No server is ever created for a request that has not been approved, even if
\* handlers break off at the worst moment.
THEOREM NoServerUnapprovedAlways == Spec => []NoServerUnapproved
<1>1. IInv => NoServerUnapproved
  BY DEF IInv, AccountInv, NoServerUnapproved
<1>2. QED
  BY <1>1, Inductive, PTL

\* An approved request never waits for approval again, however its job ends.
THEOREM ApprovedLeavesTheQueueAlways == Spec => []ApprovedLeavesTheQueue
<1>1. IInv => ApprovedLeavesTheQueue
  BY DEF IInv, AccountInv, ApprovedLeavesTheQueue
<1>2. QED
  BY <1>1, Inductive, PTL

--------------------------------------------------------------------------------
\* No approved request is paid for twice, when no server is lost.

LEMMA ServersKnownInit == Init => ServersKnown
  BY NoneIsNoRow DEF Init, ServersKnown, ServersOf, NoInstance, Idle, Vps

\* The id of a server stays on its row.
LEMMA ServerKept ==
    ASSUME TypeOK, IInv, [Next]_vars, NEW b \in Vps, account[b].server # None
    PROVE  account'[b].server # None
<1>0. b \in Accounts /\ b \in approved /\ account[b].status # "NONE"
  BY DEF IInv, AccountInv, Vps
<1>1. ASSUME NEW a \in Accounts, CreateVps(a) \/ SuspendHosting(a) \/ UnsuspendHosting(a)
      PROVE  account'[b].server = account[b].server
  <2>1. CASE b = a
    BY <1>0, <1>1, <2>1, AccountType DEF CreateVps, SuspendHosting, UnsuspendHosting, TypeOK, AccountRow
  <2>2. CASE b # a
    BY <1>0, <1>1, <2>2 DEF CreateVps, SuspendHosting, UnsuspendHosting, TypeOK
  <2>3. QED
    BY <2>1, <2>2
<1>2. ASSUME NEW w \in Workers, Proceed(w)
      PROVE  account'[b].server # None
  BY <1>0, <1>2, OwnBlob, OtherRows
<1>3. ASSUME NEW w \in Workers, NEW a \in Accounts, Request(w, a) \/ QueueingRequest(w, a)
      PROVE  account'[b] = account[b]
  BY <1>3 DEF Request, RejectVps, SyncVps, UpgradeVps, ReinstallVps, QueueingRequest, ApproveVps,
     CreateWebsite, DeleteHosting, Read, ReadBlob, ReadRow, TypeOK, Vps
<1>4. CASE \/ UNCHANGED vars
           \/ \E w \in Workers : TimeOut(w) \/ Fail(w) \/ \E j \in Jobs : StartJob(w, j)
  BY <1>4 DEF vars, TimeOut, Fail, StartJob, StartProvision, StartDeprovision, Take
<1>5. QED
  BY <1>1, <1>2, <1>3, <1>4 DEF Next

\* A handler about to save its server's id saves it, if it does anything.
LEMMA SaverSaves ==
    ASSUME TypeOK, IInv, ~LosesServers, NEW w \in Workers, Acts(w),
           worker[w].pc = "save", worker[w].a \in Vps
    PROVE  account'[worker[w].a].server # None
<1>1. SaveInstance(w)
  BY DEF Acts, Request, RejectVps, SyncVps, UpgradeVps, ReinstallVps, QueueingRequest, ApproveVps,
     CreateWebsite, DeleteHosting, Read, ReadBlob, ReadRow, StartJob, StartProvision,
     StartDeprovision, Take, TimeOut, Fail, Unsaved, Proceed, ClaimApproval, ReleaseClaim,
     QueueProvisioning, CommitReject, QueueDeprovision, CancelAccount, CommitSync, CommitUpgrade,
     StartReinstall, EndReinstall, CreateInstance, CreateInstanceFails, BootInstance,
     ReadPendingUpgrade, ActivateVps, PanelReady, PanelNotReady, ActivateWebsite, FailProvision,
     CancelInstance, MarkDeleted, At, Vps
<1>2. worker[w].s \in Servers /\ worker[w].a \in Accounts
  BY DEF IInv, HandlerInv, Vps
<1>3. account'[worker[w].a].server = worker[w].s
  BY <1>1, <1>2 DEF SaveInstance, TypeOK, AccountRow
<1>4. QED
  BY <1>2, <1>3, NoneIsNoRow

\* Two handlers never provision the same request.
LEMMA SameProvisioner ==
    ASSUME TypeOK, IInv, NEW v \in Workers, NEW w \in Workers,
           worker[v].pc \in Provisioning, worker[w].pc \in Provisioning,
           worker[v].a = worker[w].a, worker[w].a \in Vps
    PROVE  v = w
<1>1. /\ worker[v].j \in Jobs /\ ProvisionJob(worker[v].j, worker[w].a)
      /\ worker[w].j \in Jobs /\ ProvisionJob(worker[w].j, worker[w].a)
  BY WorkerType DEF IInv, HandlerInv, VpsHandlerInv, ProvisionJob
<1>2. worker[v].j = worker[w].j /\ worker[v].j # None
  BY <1>1, NoneIsNoRow DEF IInv, OneProvisioner
<1>3. QED
  BY <1>2 DEF IInv, OneHandlerEach

LEMMA ServersKnownStep ==
    ASSUME TypeOK, IInv, ServersKnown, ~LosesServers, [Next]_vars
    PROVE  ServersKnown'
<1>1. ASSUME NEW a \in Vps, ServersOf(a)' # {}
      PROVE  \/ account'[a].server # None
             \/ \E w \in Workers : worker'[w].pc = "save" /\ worker'[w].a = a
  <2>1. CASE ServersOf(a) # {}
    <3>1. CASE account[a].server # None
      BY <3>1, ServerKept
    <3>2. ASSUME NEW v \in Workers, worker[v].pc = "save", worker[v].a = a
          PROVE  account'[a].server # None \/ (worker'[v].pc = "save" /\ worker'[v].a = a)
      <4>1. CASE worker' = worker
        BY <3>2, <4>1
      <4>2. ASSUME NEW w \in Workers, Acts(w)
            PROVE  account'[a].server # None \/ worker'[v] = worker[v]
        BY <3>2, <4>2, SaverSaves, OtherHandlers
      <4>3. QED
        BY <3>2, <4>1, <4>2, StepCases
    <3>3. QED
      BY <2>1, <3>1, <3>2 DEF ServersKnown
  <2>2. CASE ServersOf(a) = {}
    <3>1. PICK w \in Workers, s \in Servers : Creates(w, s) /\ worker[w].a = a
      BY <1>1, <2>2, InstanceStep, CreatedFor DEF ServersOf
    <3>2. CreateInstance(w)
      BY <3>1 DEF Creates
    <3>3. PICK t \in Servers : worker'[w] = [worker[w] EXCEPT !.pc = "save", !.s = t]
      BY <3>1, <3>2 DEF CreateInstance, Become, TypeOK
    <3>4. worker'[w].pc = "save" /\ worker'[w].a = a
      BY <3>1, <3>3, WorkerType DEF WorkerRow
    <3>5. QED
      BY <3>4
  <2>3. QED
    BY <2>1, <2>2
<1>2. ASSUME NEW v \in Workers, NEW a \in Vps, worker'[v].pc = "create", worker'[v].a = a
      PROVE  ServersOf(a)' = {}
  <2>1. CASE worker'[v] = worker[v]
    <3>1. ServersOf(a) = {}
      BY <1>2, <2>1 DEF ServersKnown
    <3>2. CASE \A s \in Servers : instance'[s].a = instance[s].a
      BY <3>1, <3>2 DEF ServersOf
    <3>3. ASSUME NEW w \in Workers, NEW s \in Servers, Creates(w, s)
          PROVE  ServersOf(a)' = {}
      <4>1. CASE worker[w].a # a
        BY <1>2, <3>1, <3>3, <4>1, CreatedFor
      <4>2. CASE worker[w].a = a
        <5>1. v = w
          BY <1>2, <2>1, <3>3, <4>2, SameProvisioner DEF Creates, Provisioning
        <5>2. worker'[w].pc # "create"
          <6>1. CreateInstance(w)
            BY <3>3 DEF Creates
          <6>2. PICK t \in Servers : worker'[w] = [worker[w] EXCEPT !.pc = "save", !.s = t]
            BY <1>2, <4>2, <6>1 DEF CreateInstance, Become, TypeOK
          <6>3. QED
            BY <6>2, WorkerType DEF WorkerRow
        <5>3. QED
          BY <1>2, <5>1, <5>2
      <4>3. QED
        BY <4>1, <4>2
    <3>4. QED
      BY <3>2, <3>3, InstanceStep
  <2>2. CASE worker'[v] # worker[v]
    <3>1. Acts(v)
      BY <2>2, StepCases, OtherHandlers
    <3>2. PICK j \in Jobs : StartProvision(v, j) /\ a = job[j].a
      BY <1>2, <3>1, OwnJob
    <3>3. /\ Take(v, j, [Idle EXCEPT !.pc = "create", !.a = a, !.j = j])
          /\ job[j].kind = "provision"
          /\ account[a].server = None
      BY <1>2, <2>2, <3>2 DEF StartProvision
    <3>4. /\ instance' = instance
          /\ job[j].state = "waiting"
      BY <3>3 DEF Take
    <3>5. ASSUME NEW w \in Workers, worker[w].pc = "save", worker[w].a = a
          PROVE  FALSE
      <4>1. worker[w].j \in Jobs /\ ProvisionJob(worker[w].j, a) /\ job[worker[w].j].state = "active"
        BY <1>2, <3>5, WorkerType DEF IInv, HandlerInv, VpsHandlerInv, ProvisionJob, Provisioning
      <4>2. worker[w].j = j
        BY <1>2, <3>2, <3>3, <4>1 DEF IInv, OneProvisioner, ProvisionJob
      <4>3. QED
        BY <3>4, <4>1, <4>2
    <3>6. ServersOf(a) = {}
      BY <1>2, <3>3, <3>5 DEF ServersKnown
    <3>7. QED
      BY <3>4, <3>6 DEF ServersOf
  <2>3. QED
    BY <2>1, <2>2
<1>3. QED
  BY <1>1, <1>2 DEF ServersKnown, ServersOf, Vps

--------------------------------------------------------------------------------
\* The refinement of PaidServers.

LEMMA PromiseInit == Init => Promise!Init
<1> SUFFICES ASSUME Init PROVE Promise!Init
  OBVIOUS
<1>1. Stage = [a \in Vps |-> "none"]
  BY DEF Init, Stage, NoAccount, Vps
<1>2. Bought = [a \in Vps |-> {}]
  BY NoneIsNoRow DEF Init, Bought, ServersOf, NoInstance, Vps
<1>3. QED
  BY <1>1, <1>2 DEF Promise!Init

\* How far a request has got changes only when it is made and when it is approved.
LEMMA StageStep ==
    ASSUME TypeOK, IInv, [Next]_vars, NEW b \in Vps, ~CreateVps(b)
    PROVE  account'[b].status = "NONE" <=> account[b].status = "NONE"
<1>1. b \in Accounts
  BY DEF Vps
<1>2. account[b].status # "NONE" => account'[b].status # "NONE"
  BY <1>1, RowsStep DEF RowsKept
<1>3. ASSUME account[b].status = "NONE"
      PROVE  account'[b] = account[b]
  <2>1. ASSUME NEW a \in Accounts, CreateVps(a) \/ SuspendHosting(a) \/ UnsuspendHosting(a)
        PROVE  account'[b] = account[b]
    BY <1>1, <1>3, <2>1 DEF CreateVps, SuspendHosting, UnsuspendHosting, TypeOK
  <2>2. ASSUME NEW w \in Workers, Proceed(w)
        PROVE  account'[b] = account[b]
    BY <1>1, <1>3, <2>2, OwnStatus, OtherRows
  <2>3. ASSUME NEW w \in Workers, NEW a \in Accounts, Request(w, a) \/ QueueingRequest(w, a)
        PROVE  account'[b] = account[b]
    BY <2>3 DEF Request, RejectVps, SyncVps, UpgradeVps, ReinstallVps, QueueingRequest, ApproveVps,
       CreateWebsite, DeleteHosting, Read, ReadBlob, ReadRow, TypeOK, Vps
  <2>4. CASE \/ UNCHANGED vars
             \/ \E w \in Workers : TimeOut(w) \/ Fail(w) \/ \E j \in Jobs : StartJob(w, j)
    BY <2>4 DEF vars, TimeOut, Fail, StartJob, StartProvision, StartDeprovision, Take
  <2>5. QED
    BY <2>1, <2>2, <2>3, <2>4 DEF Next
<1>4. QED
  BY <1>2, <1>3

\* Every step is a request, an approval or a purchase, or changes nothing of these.
LEMMA PromiseStep ==
    ASSUME TypeOK, IInv, ServersKnown, ~LosesServers, [Next]_vars
    PROVE  [Promise!Next]_Promise!vars
<1>0. /\ \A a \in Vps : AccountInv(a)
      /\ Vps \subseteq Accounts
      /\ None \notin Vps
  BY NoneIsNoRow DEF IInv, Vps
<1>1. ASSUME NEW a \in Accounts, CreateVps(a)
      PROVE  Promise!Request(a) /\ a \in Vps
  <2>1. /\ a \in Vps
        /\ account[a].status = "NONE"
        /\ account'[a].status = "PENDING_SETUP"
        /\ \A b \in Vps \ {a} : account'[b] = account[b]
        /\ approved' = approved
        /\ instance' = instance
    BY <1>1 DEF CreateVps, TypeOK, history, Vps, NoAccount
  <2>2. a \notin approved
    BY <1>0, <2>1 DEF AccountInv
  <2>3. Stage[a] = "none"
    BY <2>1 DEF Stage
  <2>4. Stage' = [Stage EXCEPT ![a] = "requested"]
    BY <2>1, <2>2 DEF Stage
  <2>5. UNCHANGED Bought
    BY <2>1 DEF Bought, ServersOf
  <2>6. QED
    BY <2>1, <2>3, <2>4, <2>5 DEF Promise!Request
<1>2. ASSUME NEW w \in Workers, NEW a, Claims(w, a)
      PROVE  \/ a \in Vps /\ Promise!Approve(a)
             \/ UNCHANGED <<Stage, Bought>>
  <2>1. /\ approved' = approved \cup {a}
        /\ instance' = instance
        /\ Proceed(w)
    BY <1>2 DEF Claims, ClaimApproval, Proceed
  <2>2. \A b \in Vps : account'[b].status = "NONE" <=> account[b].status = "NONE"
    BY <1>0, <2>1, OtherRows, OwnStatus
  <2>3. UNCHANGED Bought
    BY <2>1 DEF Bought, ServersOf
  <2>4. CASE a \in Vps
    <3>1. account[a].status = "PENDING_SETUP" /\ a \notin approved
      BY <1>0, <1>2, <2>4 DEF Claims, AccountInv
    <3>2. Stage[a] = "requested"
      BY <2>4, <3>1 DEF Stage
    <3>3. Stage' = [Stage EXCEPT ![a] = "approved"]
      BY <2>1, <2>2, <2>4, <3>1 DEF Stage
    <3>4. QED
      BY <2>3, <2>4, <3>2, <3>3 DEF Promise!Approve
  <2>5. CASE a \notin Vps
    <3>1. UNCHANGED Stage
      BY <2>1, <2>2, <2>5 DEF Stage
    <3>2. QED
      BY <2>3, <3>1
  <2>6. QED
    BY <2>4, <2>5
<1>3. ASSUME NEW w \in Workers, NEW s \in Servers, NEW a, Creates(w, s), worker[w].a = a
      PROVE  \/ a \in Vps /\ Promise!Buy(a, s)
             \/ UNCHANGED <<Stage, Bought>>
  <2>1. /\ account' = account
        /\ approved' = approved
        /\ worker[w].pc = "create"
    BY <1>3 DEF Creates, CreateInstance, CreateInstanceFails, history
  <2>2. UNCHANGED Stage
    BY <2>1 DEF Stage
  <2>3. CASE a \in Vps
    <3>1. /\ a \in approved
          /\ ServersOf(a)' = ServersOf(a) \cup {s}
      BY <1>3, <2>3, CreatedFor
    <3>2. ServersOf(a) = {}
      BY <1>3, <2>1, <2>3 DEF ServersKnown
    <3>3. \A b \in Vps \ {a} : ServersOf(b)' = ServersOf(b)
      BY <1>3, CreatedFor
    <3>4. Bought' = [Bought EXCEPT ![a] = {s}] /\ Bought[a] = {}
      BY <2>3, <3>1, <3>2, <3>3 DEF Bought
    <3>5. Stage[a] = "approved"
      BY <1>0, <2>3, <3>1 DEF Stage, AccountInv
    <3>6. \A b \in Vps : s \notin Bought[b]
      BY <1>0, <1>3 DEF Creates, NoInstance, Bought, ServersOf
    <3>7. QED
      BY <2>2, <2>3, <3>4, <3>5, <3>6 DEF Promise!Buy
  <2>4. CASE a \notin Vps
    <3>1. \A b \in Vps : ServersOf(b)' = ServersOf(b)
      BY <1>3, <2>4, CreatedFor
    <3>2. UNCHANGED Bought
      BY <3>1 DEF Bought
    <3>3. QED
      BY <2>2, <3>2
  <2>5. QED
    BY <2>3, <2>4
<1>4. ASSUME approved' = approved, \A s \in Servers : instance'[s].a = instance[s].a,
             \A a \in Accounts : ~CreateVps(a)
      PROVE  UNCHANGED <<Stage, Bought>>
  <2>1. \A b \in Vps : account'[b].status = "NONE" <=> account[b].status = "NONE"
    BY <1>0, <1>4, StageStep
  <2>2. UNCHANGED Stage
    BY <1>4, <2>1 DEF Stage
  <2>3. UNCHANGED Bought
    BY <1>4 DEF Bought, ServersOf
  <2>4. QED
    BY <2>2, <2>3
<1>5. CASE \E a \in Accounts : CreateVps(a)
  BY <1>1, <1>5 DEF Promise!Next
<1>6. CASE \E w \in Workers : Claims(w, worker[w].a)
  BY <1>2, <1>6 DEF Promise!Next, Promise!vars
<1>7. CASE \E w \in Workers, s \in Servers : Creates(w, s)
  BY <1>3, <1>7 DEF Promise!Next, Promise!vars
<1>8. CASE /\ approved' = approved
           /\ \A s \in Servers : instance'[s].a = instance[s].a
           /\ \A a \in Accounts : ~CreateVps(a)
  BY <1>4, <1>8 DEF Promise!vars
<1>9. QED
  BY <1>5, <1>6, <1>7, <1>8, ApprovedStep, InstanceStep

\* Whatever requests, failures and retries overlap, an approved request is paid
\* for at most once and only after its approval, as long as no handler breaks off
\* between the creation of a server and the saving of its id.
THEOREM PaidOnce ==
    ASSUME ~LosesServers
    PROVE  Spec => ImplementsPaidServers
<1>1. Init => ServersKnown /\ Promise!Init
  BY ServersKnownInit, PromiseInit
<1>2. TypeOK /\ IInv /\ ServersKnown /\ [Next]_vars
      => ServersKnown' /\ [Promise!Next]_Promise!vars
  BY ServersKnownStep, PromiseStep
<1>3. QED
  BY <1>1, <1>2, Inductive, PTL DEF Spec, ImplementsPaidServers, Promise!Spec

--------------------------------------------------------------------------------
\* While handlers take turns: what was rejected stays unapproved.

LEMMA RejectedGrows ==
    ASSUME [Next]_vars
    PROVE  \/ rejected' = rejected
           \/ \E w \in Workers : /\ CommitReject(w)
                                 /\ rejected' = rejected \cup {worker[w].a}
<1>1. ASSUME NEW w \in Workers, Proceed(w)
      PROVE  \/ rejected' = rejected
             \/ CommitReject(w) /\ rejected' = rejected \cup {worker[w].a}
  <2>1. CASE CommitReject(w)
    BY <2>1 DEF CommitReject
  <2>2. CASE ~CommitReject(w)
    BY <1>1, <2>2 DEF Proceed, ClaimApproval, ReleaseClaim, QueueProvisioning, QueueDeprovision,
       CancelAccount, CommitSync, CommitUpgrade, StartReinstall, EndReinstall, CreateInstance,
       CreateInstanceFails, BootInstance, SaveInstance, ReadPendingUpgrade, ActivateVps, PanelReady,
       PanelNotReady, ActivateWebsite, FailProvision, CancelInstance, MarkDeleted, history
  <2>3. QED
    BY <2>1, <2>2
<1>2. QED
  BY <1>1 DEF Next, CreateVps, SuspendHosting, UnsuspendHosting, Request, QueueingRequest,
     RejectVps, SyncVps, UpgradeVps, ReinstallVps, ApproveVps, CreateWebsite, DeleteHosting, Read,
     ReadBlob, ReadRow, StartJob, StartProvision, StartDeprovision, Take, TimeOut, Fail, history, vars

\* A step that leaves its handler at a step of reading has started the request.
LEMMA StartsReading ==
    ASSUME TypeOK, IInv, [Next]_vars, NEW w \in Workers, worker'[w] # worker[w],
           worker'[w].pc \in {"reject", "sync", "upgrade"}
    PROVE  \E a \in Accounts :
              /\ At(w, "idle")
              /\ worker'[w].a = a
              /\ UNCHANGED <<account, approved>>
              /\ worker'[w].pc = "reject" => account[a].status = "PENDING_SETUP"
              /\ worker'[w].pc \in {"sync", "upgrade"} =>
                    account[a].server # None /\ worker'[w].row.blob = account[a].blob
<1>1. Acts(w)
  BY StepCases, OtherHandlers
<1>2. ASSUME NEW a \in Accounts, NEW step \in {"reject", "sync", "upgrade"}, NEW row,
             ReadRow(w, a, step, row),
             step = "reject" => account[a].status = "PENDING_SETUP",
             step # "reject" => account[a].server # None /\ row.blob = account[a].blob
      PROVE  /\ At(w, "idle")
             /\ worker'[w].a = a
             /\ UNCHANGED <<account, approved>>
             /\ worker'[w].pc = "reject" => account[a].status = "PENDING_SETUP"
             /\ worker'[w].pc \in {"sync", "upgrade"} =>
                   account[a].server # None /\ worker'[w].row.blob = account[a].blob
  <2>1. worker'[w] = [Idle EXCEPT !.pc = step, !.a = a, !.row = row]
    BY <1>2 DEF ReadRow, Become, TypeOK
  <2>2. worker'[w].pc = step /\ worker'[w].a = a /\ worker'[w].row = row
    BY <2>1 DEF Idle
  <2>3. QED
    BY <1>2, <2>2 DEF ReadRow, history
<1>3. ASSUME NEW a \in Accounts, ReinstallVps(w, a) \/ QueueingRequest(w, a)
      PROVE  FALSE
  BY <1>3 DEF ReinstallVps, QueueingRequest, ApproveVps, CreateWebsite, DeleteHosting, Read,
     ReadBlob, ReadRow, Become, Idle, TypeOK
<1>4. ASSUME NEW j \in Jobs, StartJob(w, j) PROVE FALSE
  BY <1>4 DEF StartJob, StartProvision, StartDeprovision, Take, Become, Idle, TypeOK
<1>5. ASSUME NEW step \in Steps \ {"reject", "sync", "upgrade"},
             Return(w) \/ Goto(w, step) \/ GoOn(w, step)
      PROVE  FALSE
  BY <1>5, GotoFields, ReturnIdle DEF Idle
<1>6. CASE Proceed(w)
  <2> USE <1>5 DEF Steps
  <2>1. CASE ClaimApproval(w)
    BY <2>1 DEF ClaimApproval
  <2>2. CASE \/ ReleaseClaim(w) \/ QueueProvisioning(w) \/ CommitReject(w) \/ CancelAccount(w)
             \/ \E running, applied \in BOOLEAN : CommitSync(w, running, applied)
    <3>1. Return(w)
      BY <2>2 DEF ReleaseClaim, QueueProvisioning, CommitReject, CancelAccount, CommitSync
    <3>2. QED
      BY <3>1
  <2>3. CASE \/ CommitUpgrade(w) \/ StartReinstall(w) \/ EndReinstall(w)
             \/ CreateInstanceFails(w) \/ BootInstance(w) \/ SaveInstance(w)
    BY <2>3 DEF CommitUpgrade, StartReinstall, EndReinstall, CreateInstanceFails,
       BootInstance, SaveInstance
  <2>4. CASE CreateInstance(w) \/ ReadPendingUpgrade(w) \/ QueueDeprovision(w)
    <3>1. worker'[w].pc \in {"save", "boot", "activate", "abandon"}
      <4>1. CASE CreateInstance(w)
        BY <4>1, WorkerType DEF CreateInstance, Become, TypeOK, WorkerRow
      <4>2. CASE ReadPendingUpgrade(w)
        BY <4>2, WorkerType DEF ReadPendingUpgrade, Become, TypeOK, WorkerRow
      <4>3. CASE QueueDeprovision(w)
        <5>1. GoOn(w, "abandon")
          BY <4>3 DEF QueueDeprovision
        <5>2. QED
          BY <5>1, GotoFields
      <4>4. QED
        BY <2>4, <4>1, <4>2, <4>3
    <3>2. QED
      BY <3>1
  <2>5. CASE \/ ActivateVps(w) \/ PanelReady(w) \/ PanelNotReady(w) \/ ActivateWebsite(w)
             \/ FailProvision(w) \/ CancelInstance(w) \/ MarkDeleted(w)
    BY <2>5 DEF ActivateVps, PanelReady, PanelNotReady, ActivateWebsite, FailProvision,
       CancelInstance, MarkDeleted
  <2>6. QED
    BY <1>6, <2>1, <2>2, <2>3, <2>4, <2>5 DEF Proceed
<1>7. CASE Fail(w)
  BY <1>5, <1>7 DEF Fail, Steps
<1>8. CASE TimeOut(w)
  <2>1. worker'[w].pc = worker[w].pc
    BY <1>8, WorkerType DEF TimeOut, Become, TypeOK, WorkerRow
  <2>2. QED
    BY <1>8, <2>1, HandlerFacts DEF TimeOut, HandlerInv, Provisioning, Deprovisioning
<1>9. ASSUME NEW a \in Accounts, RejectVps(w, a) \/ SyncVps(w, a) \/ UpgradeVps(w, a)
      PROVE  \E step \in {"reject", "sync", "upgrade"} : \E row :
                /\ ReadRow(w, a, step, row)
                /\ step = "reject" => account[a].status = "PENDING_SETUP"
                /\ step # "reject" => account[a].server # None /\ row.blob = account[a].blob
  <2>1. CASE RejectVps(w, a)
    BY <2>1 DEF RejectVps, Read
  <2>2. CASE SyncVps(w, a)
    <3>1. [account[a] EXCEPT !.server = None].blob = account[a].blob
      BY AccountType DEF AccountRow
    <3>2. QED
      BY <2>2, <3>1 DEF SyncVps
  <2>3. CASE UpgradeVps(w, a)
    <3>1. [NoAccount EXCEPT !.blob = account[a].blob].blob = account[a].blob
      BY DEF NoAccount
    <3>2. QED
      BY <2>3, <3>1 DEF UpgradeVps, ReadBlob
  <2>4. QED
    BY <1>9, <2>1, <2>2, <2>3
<1>10. QED
  BY <1>1, <1>2, <1>3, <1>4, <1>6, <1>7, <1>8, <1>9 DEF Acts, Request

LEMMA RejectedStep ==
    ASSUME TypeOK, IInv, RejectedInv, TakingTurns, [Next]_vars
    PROVE  RejectedInv'
<1>1. ASSUME NEW a \in rejected' \cap Vps
      PROVE  a \notin approved' /\ account'[a].status \notin {"NONE", "PENDING_SETUP"}
  <2>1. CASE a \in rejected
    BY <2>1, ApprovedStep, RowsStep DEF RejectedInv, RowsKept, Claims, Vps
  <2>2. CASE a \notin rejected
    <3>1. PICK w \in Workers : CommitReject(w) /\ worker[w].a = a
      BY <2>2, RejectedGrows
    <3>2. a \notin approved /\ approved' = approved
      BY <3>1 DEF RejectedInv, CommitReject, At
    <3>3. account'[a].status = "CANCELLED"
      BY <3>1, AccountType DEF CommitReject, TypeOK, AccountRow, Vps
    <3>4. QED
      BY <3>2, <3>3
  <2>3. QED
    BY <2>1, <2>2
<1>2. ASSUME NEW w \in Workers, worker'[w].pc = "reject", worker'[w].a \in Vps
      PROVE  worker'[w].a \notin approved'
  <2>1. CASE worker'[w] = worker[w]
    <3>1. worker[w].a \notin approved
      BY <1>2, <2>1 DEF RejectedInv
    <3>2. \A v \in Workers : ~Claims(v, worker[w].a)
      BY <1>2, <2>1 DEF Claims, ClaimApproval, TakingTurns, At
    <3>3. QED
      BY <2>1, <3>1, <3>2, ApprovedStep DEF Claims
  <2>2. CASE worker'[w] # worker[w]
    BY <1>2, <2>2, StartsReading DEF IInv, AccountInv
  <2>3. QED
    BY <2>1, <2>2
<1>3. QED
  BY <1>1, <1>2 DEF RejectedInv

LEMMA RejectedInit == Init => RejectedInv
  BY DEF Init, RejectedInv, Idle

\* While handlers take turns, a request that was rejected never gets a server, even
\* if handlers break off: no approval comes between rejectVps' check and its update.
THEOREM RejectedGetsNothingInTurns == Spec /\ []TakingTurns => []RejectedGetsNothing
<1>1. TypeOK /\ IInv /\ RejectedInv /\ TakingTurns /\ [Next]_vars => RejectedInv'
  BY RejectedStep
<1>2. IInv /\ RejectedInv => RejectedGetsNothing
  BY DEF IInv, AccountInv, RejectedInv, RejectedGetsNothing
<1>3. QED
  BY <1>1, <1>2, RejectedInit, Inductive, PTL DEF Spec

--------------------------------------------------------------------------------
\* While handlers take turns and none breaks off: the credentials are purged.

\* What the handler in progress leaves of a request once its server's id is saved.
LEMMA OwnRequest ==
    ASSUME TypeOK, IInv, NEW w \in Workers, Proceed(w), NEW a \in Vps, a = worker[w].a,
           account[a].server # None /\ account[a].blob.kind = "request"
              => worker[w].pc \in {"poll", "activate", "failed"},
           worker[w].pc \in {"sync", "upgrade"} => worker[w].row.blob.kind # "request",
           account'[a].server # None, account'[a].blob.kind = "request"
    PROVE  worker'[w].a = a /\ worker'[w].pc \in {"poll", "activate", "failed"}
<1>0. /\ a \in Accounts /\ account[a] \in AccountRow /\ worker[w] \in WorkerRow
      /\ VpsHandlerInv(w)
  BY HandlerFacts DEF Vps, TypeOK
<1>1. CASE ClaimApproval(w)
  BY <1>0, <1>1 DEF ClaimApproval, Write, At, TypeOK, AccountRow, Blob
<1>2. CASE QueueProvisioning(w) \/ QueueDeprovision(w) \/ CreateInstance(w) \/ CancelInstance(w)
  BY <1>0, <1>2 DEF QueueProvisioning, QueueDeprovision, CreateInstance, CancelInstance, At
<1>3. CASE CancelAccount(w) \/ StartReinstall(w) \/ EndReinstall(w) \/ MarkDeleted(w)
  BY <1>0, <1>3 DEF CancelAccount, StartReinstall, EndReinstall, MarkDeleted, Write, At, TypeOK,
     AccountRow, Blob
<1>4. CASE CommitReject(w) \/ FailProvision(w)
  BY <1>0, <1>4 DEF CommitReject, FailProvision, NoBlob, TypeOK, AccountRow
<1>5. ASSUME NEW running \in BOOLEAN, NEW applied \in BOOLEAN, CommitSync(w, running, applied)
      PROVE  FALSE
  BY <1>0, <1>5, WorkerType DEF CommitSync, At, TypeOK, AccountRow, Blob
<1>6. CASE CommitUpgrade(w)
  BY <1>0, <1>6, WorkerType DEF CommitUpgrade, At, TypeOK, AccountRow, Blob
<1>7. CASE CreateInstanceFails(w)
  BY <1>0, <1>7 DEF CreateInstanceFails, Goto, Become, TypeOK, WorkerRow
<1>8. CASE SaveInstance(w)
  BY <1>0, <1>8 DEF SaveInstance, Goto, Become, TypeOK, WorkerRow
<1>9. CASE ReadPendingUpgrade(w)
  BY <1>0, <1>9 DEF ReadPendingUpgrade, Become, TypeOK, WorkerRow
<1>10. CASE ActivateVps(w)
  BY <1>0, <1>10 DEF ActivateVps, TypeOK, AccountRow
<1>11. CASE \/ ReleaseClaim(w) \/ BootInstance(w) \/ PanelReady(w)
            \/ PanelNotReady(w) \/ ActivateWebsite(w)
  BY <1>0, <1>11 DEF ReleaseClaim, BootInstance, PanelReady, PanelNotReady, ActivateWebsite,
     VpsHandlerInv, At
<1>12. QED
  BY <1>1, <1>2, <1>3, <1>4, <1>5, <1>6, <1>7, <1>8, <1>9, <1>10, <1>11 DEF Proceed

LEMMA PurgeStep ==
    ASSUME TypeOK, IInv, PurgeInv, TakingTurns, TakingTurns', [Next]_vars,
           \A w \in Workers : ~Fail(w)
    PROVE  PurgeInv'
<1> DEFINE Seen(v, a) == worker[v].a = a /\ worker[v].pc \in {"poll", "activate", "failed"}
           Held(a) == account[a].server # None /\ account[a].blob.kind = "request"
<1>1. ASSUME NEW a \in Vps, Held(a)' PROVE \E v \in Workers : Seen(v, a)'
  <2>0. a \in Accounts
    BY DEF Vps
  <2>1. ASSUME Held(a), NEW w \in Workers, Acts(w), \A v \in Workers : Seen(v, a) => v # w
        PROVE  \E v \in Workers : Seen(v, a)'
    <3>1. PICK v \in Workers : Seen(v, a)
      BY <2>1 DEF PurgeInv
    <3>2. worker'[v] = worker[v]
      BY <2>1, <3>1, OtherHandlers
    <3>3. QED
      BY <3>1, <3>2
  <2>2. ASSUME NEW b \in Accounts, CreateVps(b) \/ SuspendHosting(b) \/ UnsuspendHosting(b)
        PROVE  Held(a) /\ worker' = worker
    <3>1. CASE b = a
      <4>1. ~CreateVps(b)
        BY <1>1, <2>0, <3>1 DEF CreateVps, NoAccount, TypeOK
      <4>2. QED
        BY <1>1, <2>0, <2>2, <3>1, <4>1, AccountType
           DEF SuspendHosting, UnsuspendHosting, TypeOK, AccountRow
    <3>2. CASE b # a
      BY <1>1, <2>0, <2>2, <3>2 DEF CreateVps, SuspendHosting, UnsuspendHosting, TypeOK
    <3>3. QED
      BY <3>1, <3>2
  <2>3. ASSUME NEW w \in Workers, NEW b \in Accounts, Request(w, b) \/ QueueingRequest(w, b)
        PROVE  Held(a) /\ At(w, "idle")
    BY <1>1, <2>3 DEF Request, RejectVps, SyncVps, UpgradeVps, ReinstallVps, QueueingRequest,
       ApproveVps, CreateWebsite, DeleteHosting, Read, ReadBlob, ReadRow, TypeOK, Vps
  <2>4. ASSUME NEW w \in Workers, NEW j \in Jobs, StartJob(w, j)
        PROVE  Held(a) /\ At(w, "idle")
    BY <1>1, <2>4 DEF StartJob, StartProvision, StartDeprovision, Take
  <2>5. ASSUME NEW w \in Workers, Proceed(w)
        PROVE  \E v \in Workers : Seen(v, a)'
    <3>1. ~At(w, "idle")
      BY <2>5 DEF Proceed, ClaimApproval, ReleaseClaim, QueueProvisioning, CommitReject,
         QueueDeprovision, CancelAccount, CommitSync, CommitUpgrade, StartReinstall, EndReinstall,
         CreateInstance, CreateInstanceFails, BootInstance, SaveInstance, ReadPendingUpgrade,
         ActivateVps, PanelReady, PanelNotReady, ActivateWebsite, FailProvision, CancelInstance,
         MarkDeleted, At
    <3>2. Held(a) => Seen(w, a)
      BY <3>1 DEF PurgeInv, TakingTurns, At
    <3>3. CASE worker[w].a = a
      <4>1. worker[w].pc \in {"sync", "upgrade"} => worker[w].row.blob.kind # "request"
        BY <3>3 DEF PurgeInv
      <4>2. QED
        BY <1>1, <2>5, <3>2, <3>3, <4>1, OwnRequest
    <3>4. CASE worker[w].a # a
      <4>1. account'[a] = account[a]
        BY <2>0, <2>5, <3>4, OtherRows
      <4>2. QED
        BY <1>1, <3>2, <3>4, <4>1
    <3>5. QED
      BY <3>3, <3>4
  <2>6. ASSUME NEW w \in Workers, TimeOut(w)
        PROVE  \E v \in Workers : Seen(v, a)'
    <3>1. Held(a) /\ worker[w].a # a
      BY <1>1, <2>6 DEF TimeOut, Vps
    <3>2. QED
      BY <2>1, <2>6, <3>1 DEF Acts
  <2>7. ASSUME UNCHANGED vars PROVE \E v \in Workers : Seen(v, a)'
    BY <1>1, <2>7 DEF vars, PurgeInv
  <2>8. ASSUME NEW w \in Workers, At(w, "idle") PROVE \A v \in Workers : Seen(v, a) => v # w
    BY <2>8 DEF At
  <2>9. ASSUME NEW w \in Workers, \/ \E b \in Accounts : Request(w, b) \/ QueueingRequest(w, b)
                                  \/ \E j \in Jobs : StartJob(w, j)
        PROVE  \E v \in Workers : Seen(v, a)'
    BY <2>1, <2>3, <2>4, <2>8, <2>9 DEF Acts
  <2>10. ASSUME NEW b \in Accounts, CreateVps(b) \/ SuspendHosting(b) \/ UnsuspendHosting(b)
         PROVE  \E v \in Workers : Seen(v, a)'
    BY <2>2, <2>10 DEF PurgeInv
  <2>11. QED
    BY <2>5, <2>6, <2>7, <2>9, <2>10 DEF Next
<1>2. ASSUME NEW w \in Workers, worker'[w].pc \in {"sync", "upgrade"}, worker'[w].a \in Vps
      PROVE  worker'[w].row.blob.kind # "request"
  <2>1. CASE worker'[w] = worker[w]
    BY <1>2, <2>1 DEF PurgeInv
  <2>2. CASE worker'[w] # worker[w]
    <3>1. PICK a \in Accounts :
             /\ At(w, "idle") /\ worker'[w].a = a /\ account[a].server # None
             /\ worker'[w].row.blob = account[a].blob
      BY <1>2, <2>2, StartsReading
    <3>2. ASSUME NEW v \in Workers, Seen(v, a) PROVE FALSE
      <4>1. v # w
        BY <3>1, <3>2 DEF At
      <4>2. worker'[v] = worker[v]
        BY <2>2, <4>1, StepCases, OtherHandlers
      <4>3. QED
        BY <1>2, <3>2, <4>1, <4>2 DEF TakingTurns, At
    <3>3. QED
      BY <1>2, <3>1, <3>2 DEF PurgeInv
  <2>3. QED
    BY <2>1, <2>2
<1>3. QED
  BY <1>1, <1>2 DEF PurgeInv

LEMMA PurgeInit == Init => PurgeInv
  BY DEF Init, PurgeInv, Idle, NoAccount, Vps

\* While handlers take turns and none has broken off, a request's credentials do not
\* outlive its provisioning: ActivateVps' metadata or the catch's purge replaces them.
THEOREM CredentialsPurgedInTurns ==
    Spec /\ []TakingTurns /\ []NoneBreaksOff => []CredentialsPurged
<1>1. TypeOK /\ IInv /\ PurgeInv /\ TakingTurns /\ TakingTurns' /\ NoneBreaksOff
      /\ NoneBreaksOff' /\ [Next]_vars => PurgeInv'
  <2> SUFFICES ASSUME TypeOK, IInv, PurgeInv, TakingTurns, TakingTurns', NoneBreaksOff,
                      NoneBreaksOff', [Next]_vars
               PROVE  PurgeInv'
    OBVIOUS
  <2>1. \A w \in Workers : ~Fail(w)
    BY DEF NoneBreaksOff, Fail
  <2>2. QED
    BY <2>1, PurgeStep
<1>2. PurgeInv => CredentialsPurged
  BY DEF PurgeInv, CredentialsPurged
<1>3. QED
  BY <1>1, <1>2, PurgeInit, Inductive, PTL DEF Spec

================================================================================
