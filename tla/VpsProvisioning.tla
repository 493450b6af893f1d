---------------------------- MODULE VpsProvisioning ----------------------------
(****************************************************************************)
(* Accounts that run on a Contabo server: the request for a virtual server  *)
(* and its approval, WordPress sites on a server of their own, the jobs of  *)
(* the queue that creates and cancels servers, and the requests that write  *)
(* the same row meanwhile.                                                  *)
(*                                                                          *)
(* A worker runs a request handler or a queue job.  Every database          *)
(* statement and every call to Contabo is a step of its own.                *)
(****************************************************************************)
EXTENDS Integers, FiniteSets

CONSTANTS
    Accounts,       \* the rows the hosting account table can hold
    Wordpress,      \* those that are WordPress sites, the others virtual servers
    Servers,        \* the instances Contabo can create
    Jobs,           \* the jobs the queue can hold
    Workers,        \* handlers and jobs that can be in progress at once
    None,           \* null
    Attempts,       \* how often Bull runs a job for each account
    MaxFails,       \* bound on handlers that break off halfway
    LosesServers    \* may one break off before it has saved its server's id?

ASSUME SetsAssumption ==
    /\ Wordpress \subseteq Accounts
    /\ None \notin Accounts \cup Servers \cup Jobs
    /\ LosesServers \in BOOLEAN

ASSUME NumbersAssumption == Attempts \in [Accounts -> Nat \ {0}] /\ MaxFails \in Nat

VARIABLES
    account,    \* the hosting account table
    instance,   \* Contabo's instances
    job,        \* the jobs of the queue provisioning
    approved,   \* history: requests whose approval has claimed the row
    rejected,   \* history: requests whose rejection has been committed
    worker,     \* the handlers in progress
    fails       \* history: handlers that broke off

vars == <<account, instance, job, approved, rejected, worker, fails>>

--------------------------------------------------------------------------------

Vps == Accounts \ Wordpress

Status == {"NONE", "PENDING_SETUP", "PROVISIONING", "ACTIVE", "SUSPENDED",
           "CANCELLED", "DELETED"}

\* The column cpanelPasswordEncrypted: the request with its credentials, the
\* instance's metadata or neither, and whether an upgrade is pending in it.
Blob == [kind : {"none", "request", "contabo"}, upgrade : BOOLEAN]

AccountRow == [status : Status, server : Servers \cup {None}, blob : Blob]

InstanceRow == [state : {"none", "running", "cancelled"}, a : Accounts \cup {None}]

\* A job of one of three names; server is the vmId it was queued with.
JobRow == [kind : {"none", "provision", "deprovision"}, a : Accounts \cup {None},
           server : Servers \cup {None}, tries : Nat, stalled : BOOLEAN,
           state : {"none", "waiting", "active", "failed"}]

Steps == {"idle", "claim", "release", "queue", "reject",
          "deprovision", "abandon", "sync", "upgrade", "reinstall", "reinstalled",
          "create", "boot", "save", "poll", "activate", "panel", "finish", "failed",
          "cancel", "delete"}

\* pc is the next step, a the account it is about, row that account as the
\* handler read it, j the job a Bull worker runs, s the server it has created.
WorkerRow == [pc : Steps, a : Accounts \cup {None}, row : AccountRow,
              j : Jobs \cup {None}, s : Servers \cup {None}]

NoBlob == [kind |-> "none", upgrade |-> FALSE]
NoAccount == [status |-> "NONE", server |-> None, blob |-> NoBlob]
NoInstance == [state |-> "none", a |-> None]
NoJob == [kind |-> "none", a |-> None, server |-> None, tries |-> 0,
          stalled |-> FALSE, state |-> "none"]
Idle == [pc |-> "idle", a |-> None, row |-> NoAccount, j |-> None, s |-> None]

Init ==
    /\ account = [a \in Accounts |-> NoAccount]
    /\ instance = [s \in Servers |-> NoInstance]
    /\ job = [j \in Jobs |-> NoJob]
    /\ approved = {}
    /\ rejected = {}
    /\ worker = [w \in Workers |-> Idle]
    /\ fails = 0

--------------------------------------------------------------------------------

At(w, step) == worker[w].pc = step
Become(w, next) == worker' = [worker EXCEPT ![w] = next]
Goto(w, step) == Become(w, [worker[w] EXCEPT !.pc = step])
Return(w) == Become(w, Idle)

\* It has no more use for what it has read.
GoOn(w, step) == Become(w, [worker[w] EXCEPT !.pc = step, !.row = NoAccount])

history == <<approved, rejected, fails>>

\* A handler that reads account a first, and what it keeps of it.
ReadRow(w, a, step, row) ==
    /\ At(w, "idle")
    /\ account[a].status # "NONE"
    /\ Become(w, [Idle EXCEPT !.pc = step, !.a = a, !.row = row])
    /\ UNCHANGED <<account, instance, job, history>>

Read(w, a, step) == ReadRow(w, a, step, NoAccount)
ReadBlob(w, a, step) == ReadRow(w, a, step, [NoAccount EXCEPT !.blob = account[a].blob])

\* Its last statement writes the status of its account.
Write(w, status) ==
    account' = [account EXCEPT ![worker[w].a].status = status]

\* Bound: a request that queues a job is accepted only while every handler in
\* progress, and this one, can still queue one.
RoomForJob ==
    Cardinality({j \in Jobs : job[j] = NoJob})
        > Cardinality({w \in Workers : ~At(w, "idle")})

QueueJob(kind, a, server) ==
    \E j \in Jobs :
        /\ job[j] = NoJob
        /\ job' = [job EXCEPT ![j] = [NoJob EXCEPT !.kind = kind, !.a = a,
                                         !.server = server, !.state = "waiting"]]

--------------------------------------------------------------------------------
\* createVps, approveVps, rejectVps.

\* The request is stored for approval, with the customer's credentials.
CreateVps(a) ==
    /\ a \in Vps
    /\ account[a].status = "NONE"
    /\ account' = [account EXCEPT ![a] = [NoAccount EXCEPT
                      !.status = "PENDING_SETUP", !.blob.kind = "request"]]
    /\ UNCHANGED <<instance, job, history, worker>>

ApproveVps(w, a) == ReadBlob(w, a, "claim")

\* Mutant: the outcome of the compare-and-swap is not looked at.
ClaimApproval_Unchecked(w) ==
    LET a == worker[w].a
        request == worker[w].row.blob.kind = "request"
    IN  /\ At(w, "claim")
        /\ IF account[a].status = "PENDING_SETUP"
           THEN /\ Write(w, "PROVISIONING")
                /\ approved' = IF request THEN approved \cup {a} ELSE approved
           ELSE UNCHANGED <<account, approved>>
        /\ GoOn(w, IF request THEN "queue" ELSE "release")
        /\ UNCHANGED <<instance, job, rejected, fails>>

\* The compare-and-swap; what is approved is the request read before it.
ClaimApproval(w) ==
    LET a == worker[w].a
        request == worker[w].row.blob.kind = "request"
    IN  /\ At(w, "claim")
        /\ IF account[a].status = "PENDING_SETUP"
           THEN /\ Write(w, "PROVISIONING")
                /\ GoOn(w, IF request THEN "queue" ELSE "release")
                /\ approved' = IF request THEN approved \cup {a} ELSE approved
           ELSE Return(w) /\ UNCHANGED <<account, approved>>
        /\ UNCHANGED <<instance, job, rejected, fails>>

\* There was no request to approve: the claim is undone.
ReleaseClaim(w) ==
    /\ At(w, "release")
    /\ Write(w, "PENDING_SETUP")
    /\ Return(w)
    /\ UNCHANGED <<instance, job, history>>

\* createVps and createWebsite go on to the queue in the same way.
QueueProvisioning(w) ==
    /\ At(w, "queue")
    /\ QueueJob("provision", worker[w].a, None)
    /\ Return(w)
    /\ UNCHANGED <<account, instance, history>>

\* Mutant: any request can be rejected.
RejectVps_AnyStatus(w, a) == Read(w, a, "reject")

RejectVps(w, a) ==
    /\ account[a].status = "PENDING_SETUP"
    /\ Read(w, a, "reject")

\* The update is by id, whatever the status is now; the credentials are purged.
CommitReject(w) ==
    LET a == worker[w].a
    IN  /\ At(w, "reject")
        /\ account' = [account EXCEPT ![a].status = "CANCELLED", ![a].blob = NoBlob]
        /\ rejected' = rejected \cup {a}
        /\ Return(w)
        /\ UNCHANGED <<instance, job, approved, fails>>

\* createWebsite: a WordPress site on a server of its own needs no approval.
CreateWebsite(w, a) ==
    /\ At(w, "idle")
    /\ a \in Wordpress
    /\ account[a].status = "NONE"
    /\ account' = [account EXCEPT ![a].status = "PROVISIONING"]
    /\ Become(w, [Idle EXCEPT !.pc = "queue", !.a = a])
    /\ UNCHANGED <<instance, job, history>>

--------------------------------------------------------------------------------
\* suspendHosting, unsuspendHosting, deleteHosting.

\* Both write the status whatever it is; suspendHosting has read that it is not
\* suspended, and writing SUSPENDED over it would change nothing.
SuspendHosting(a) ==
    /\ account[a].status \notin {"NONE", "SUSPENDED"}
    /\ account' = [account EXCEPT ![a].status = "SUSPENDED"]
    /\ UNCHANGED <<instance, job, history, worker>>

UnsuspendHosting(a) ==
    /\ account[a].status # "NONE"
    /\ account' = [account EXCEPT ![a].status = "ACTIVE"]
    /\ UNCHANGED <<instance, job, history, worker>>

DeleteHosting(w, a) ==
    ReadRow(w, a, "deprovision", [NoAccount EXCEPT !.server = account[a].server])

\* The job names the virtual server as it was read; a WordPress job names the
\* site's user and not its server.
QueueDeprovision(w) ==
    LET a == worker[w].a
    IN  /\ At(w, "deprovision")
        /\ QueueJob("deprovision", a, IF a \in Vps THEN worker[w].row.server ELSE None)
        /\ GoOn(w, "abandon")
        /\ UNCHANGED <<account, instance, history>>

CancelAccount(w) ==
    /\ At(w, "abandon")
    /\ Write(w, "CANCELLED")
    /\ Return(w)
    /\ UNCHANGED <<instance, job, history>>

--------------------------------------------------------------------------------
\* syncVpsFromContabo, upgradeVps, reinstallVps: for a Contabo server only.

IsContaboInstance(a) ==
    \/ account[a].blob.kind = "contabo"
    \/ a \in Vps /\ account[a].server # None

SyncVps(w, a) ==
    /\ IsContaboInstance(a)
    /\ account[a].server # None
    /\ ReadRow(w, a, "sync", [account[a] EXCEPT !.server = None])

\* What Contabo says of the instance decides the status, or the status read
\* stays; the metadata read is written back, without an upgrade it shows applied.
CommitSync(w, running, applied) ==
    LET a == worker[w].a
        row == worker[w].row
    IN  /\ At(w, "sync")
        /\ applied => row.blob.upgrade
        /\ account' = [account EXCEPT
               ![a].status = IF running THEN "ACTIVE" ELSE row.status,
               ![a].blob = [row.blob EXCEPT !.upgrade = @ /\ ~applied]]
        /\ Return(w)
        /\ UNCHANGED <<instance, job, history>>

UpgradeVps(w, a) ==
    /\ IsContaboInstance(a)
    /\ account[a].server # None
    /\ ReadBlob(w, a, "upgrade")

\* The whole column is written back with the pending upgrade in it.
CommitUpgrade(w) ==
    /\ At(w, "upgrade")
    /\ account' = [account EXCEPT
          ![worker[w].a].blob = [worker[w].row.blob EXCEPT !.upgrade = TRUE]]
    /\ Return(w)
    /\ UNCHANGED <<instance, job, history>>

ReinstallVps(w, a) ==
    /\ IsContaboInstance(a)
    /\ account[a].server # None
    /\ Read(w, a, "reinstall")

StartReinstall(w) ==
    /\ At(w, "reinstall")
    /\ Write(w, "PROVISIONING")
    /\ Goto(w, "reinstalled")
    /\ UNCHANGED <<instance, job, history>>

\* The account is active again, whether Contabo reinstalls it or refuses.
EndReinstall(w) ==
    /\ At(w, "reinstalled")
    /\ Write(w, "ACTIVE")
    /\ Return(w)
    /\ UNCHANGED <<instance, job, history>>

--------------------------------------------------------------------------------
\* The jobs of the provisioning processor.

\* Bull hands a waiting job to a worker, which reads what it needs of the row.
Take(w, j, next) ==
    /\ At(w, "idle")
    /\ job[j].state = "waiting"
    /\ job' = [job EXCEPT ![j].state = "active"]
    /\ Become(w, next)
    /\ UNCHANGED <<account, instance, history>>

\* Mutant: a job that has succeeded stays on the queue.
Done_KeepsJob(j) ==
    job' = IF j = None THEN job ELSE [job EXCEPT ![j].state = "completed"]

\* The handler of job j is done: the job is removed.
Done(j) == job' = IF j = None THEN job ELSE [job EXCEPT ![j] = NoJob]

\* It has thrown: the job is tried again, up to its number of attempts.
Retry(j) ==
    job' = IF j = None THEN job
           ELSE [job EXCEPT ![j].tries = @ + 1,
                            ![j].state = IF job[j].tries + 1 < Attempts[job[j].a]
                                         THEN "waiting" ELSE "failed"]

\* Mutant: an account that is being provisioned counts as provisioned.
StartProvision_EvenBefore(w, j) ==
    LET a == job[j].a
        provisioned == \/ account[a].server # None
                       \/ account[a].status \in {"ACTIVE", "PROVISIONING"}
    IN  /\ job[j].kind = "provision"
        /\ IF a \in Vps /\ provisioned
           THEN /\ At(w, "idle")
                /\ job[j].state = "waiting"
                /\ Done(j)
                /\ UNCHANGED <<account, instance, history, worker>>
           ELSE Take(w, j, [Idle EXCEPT !.pc = "create", !.a = a, !.j = j])

\* The guard: a server's id on the row, or an active account, means that an
\* earlier attempt got that far.  The job for a WordPress site has no guard.
StartProvision(w, j) ==
    LET a == job[j].a
        provisioned == account[a].server # None \/ account[a].status = "ACTIVE"
    IN  /\ job[j].kind = "provision"
        /\ IF a \in Vps /\ provisioned
           THEN /\ At(w, "idle")
                /\ job[j].state = "waiting"
                /\ Done(j)
                /\ UNCHANGED <<account, instance, history, worker>>
           ELSE Take(w, j, [Idle EXCEPT !.pc = "create", !.a = a, !.j = j])

\* Contabo creates the instance, which is billed from now on.
CreateInstance(w) ==
    LET a == worker[w].a
    IN  /\ At(w, "create")
        /\ \E s \in Servers :
              /\ instance[s] = NoInstance
              /\ instance' = [instance EXCEPT ![s] = [state |-> "running", a |-> a]]
              /\ Become(w, [worker[w] EXCEPT !.pc = IF a \in Vps THEN "save" ELSE "boot",
                                             !.s = s])
        /\ UNCHANGED <<account, job, history>>

\* Contabo refuses, or answers too late and has created it all the same.  With an answer
\* that names no instance a virtual server's job goes on: there is no id to save.
CreateInstanceFails(w) ==
    /\ At(w, "create")
    /\ \/ Goto(w, "failed") /\ UNCHANGED instance
       \/ /\ LosesServers
          /\ \E s \in Servers :
                /\ instance[s] = NoInstance
                /\ instance' = [instance EXCEPT ![s] = [state |-> "running",
                                                        a |-> worker[w].a]]
          /\ Goto(w, "failed") \/ (worker[w].a \in Vps /\ Goto(w, "poll"))
    /\ UNCHANGED <<account, job, history>>

\* A WordPress site waits for its server to run before it saves its id.
BootInstance(w) ==
    /\ At(w, "boot")
    /\ Goto(w, "save") \/ (LosesServers /\ Goto(w, "failed"))
    /\ UNCHANGED <<account, instance, job, history>>

\* Mutant: the id is saved only once the server is ready, with the metadata.
SaveInstance_Later(w) ==
    /\ At(w, "save")
    /\ Goto(w, IF worker[w].a \in Vps THEN "poll" ELSE "panel")
    /\ UNCHANGED <<account, instance, job, history>>

\* The instance's id is saved at once; a WordPress site's metadata with it.
SaveInstance(w) ==
    LET a == worker[w].a
    IN  /\ At(w, "save")
        /\ account' = [account EXCEPT
               ![a].status = "PROVISIONING",
               ![a].server = worker[w].s,
               ![a].blob = IF a \in Vps THEN @
                           ELSE [kind |-> "contabo", upgrade |-> FALSE]]
        /\ Goto(w, IF a \in Vps THEN "poll" ELSE "panel")
        /\ UNCHANGED <<instance, job, history>>

\* The server is ready, or is not in time (only logged); the row is read again.
ReadPendingUpgrade(w) ==
    /\ At(w, "poll")
    /\ Become(w, [worker[w] EXCEPT !.pc = "activate",
                                   !.row.blob = account[worker[w].a].blob])
    /\ UNCHANGED <<account, instance, job, history>>

\* Mutant: the metadata is added to the request instead of replacing it.
ActivateVps_KeepsRequest(w) ==
    LET a == worker[w].a
    IN  /\ At(w, "activate")
        /\ account' = [account EXCEPT
               ![a].status = "ACTIVE",
               ![a].server = IF worker[w].s = None THEN @ ELSE worker[w].s,
               ![a].blob = worker[w].row.blob]
        /\ Done(worker[w].j)
        /\ Return(w)
        /\ UNCHANGED <<instance, history>>

\* The metadata replaces the request; an upgrade pending at the read is kept.  Without
\* an instance's id the row keeps what it has.
ActivateVps(w) ==
    LET a == worker[w].a
    IN  /\ At(w, "activate")
        /\ account' = [account EXCEPT
               ![a].status = "ACTIVE",
               ![a].server = IF worker[w].s = None THEN @ ELSE worker[w].s,
               ![a].blob = [kind |-> "contabo", upgrade |-> worker[w].row.blob.upgrade]]
        /\ Done(worker[w].j)
        /\ Return(w)
        /\ UNCHANGED <<instance, history>>

\* The control panel comes up in time and the site is installed, or the account
\* is left for manual setup, or the installation throws.
PanelReady(w) ==
    /\ At(w, "panel")
    /\ Goto(w, "finish") \/ Goto(w, "failed")
    /\ UNCHANGED <<account, instance, job, history>>

PanelNotReady(w) ==
    /\ At(w, "panel")
    /\ Write(w, "PENDING_SETUP")
    /\ Done(worker[w].j)
    /\ Return(w)
    /\ UNCHANGED <<instance, history>>

ActivateWebsite(w) ==
    /\ At(w, "finish")
    /\ Write(w, "ACTIVE")
    /\ Done(worker[w].j)
    /\ Return(w)
    /\ UNCHANGED <<instance, history>>

\* Mutant: a failed request goes back to where requests wait for approval.
FailProvision_BackToSetup(w) ==
    LET a == worker[w].a
    IN  /\ At(w, "failed")
        /\ Write(w, "PENDING_SETUP")
        /\ Retry(worker[w].j)
        /\ Return(w)
        /\ UNCHANGED <<instance, history>>

\* The catch clauses: a virtual server is suspended and its request purged, a WordPress
\* site is set up again; the job is thrown back at Bull.
FailProvision(w) ==
    LET a == worker[w].a
    IN  /\ At(w, "failed")
        /\ IF a \in Vps
           THEN account' = [account EXCEPT ![a].status = "SUSPENDED", ![a].blob = NoBlob]
           ELSE Write(w, "PENDING_SETUP")
        /\ Retry(worker[w].j)
        /\ Return(w)
        /\ UNCHANGED <<instance, history>>

StartDeprovision(w, j) ==
    /\ job[j].kind = "deprovision"
    /\ Take(w, j, [Idle EXCEPT !.pc = IF job[j].server = None THEN "delete" ELSE "cancel",
                               !.a = job[j].a, !.j = j, !.s = job[j].server])

\* Contabo cancels the instance, or refuses and the job is tried again.
CancelInstance(w) ==
    /\ At(w, "cancel")
    /\ \/ /\ instance' = [instance EXCEPT ![worker[w].s].state = "cancelled"]
          /\ Goto(w, "delete")
          /\ UNCHANGED job
       \/ /\ Retry(worker[w].j)
          /\ Return(w)
          /\ UNCHANGED instance
    /\ UNCHANGED <<account, history>>

MarkDeleted(w) ==
    /\ At(w, "delete")
    /\ Write(w, "DELETED")
    /\ Done(worker[w].j)
    /\ Return(w)
    /\ UNCHANGED <<instance, history>>

--------------------------------------------------------------------------------
\* Failures.

\* A WordPress job may run for twenty minutes; then Bull counts it as failed and
\* tries it again, while its handler goes on.
TimeOut(w) ==
    /\ worker[w].j # None
    /\ worker[w].a \in Wordpress
    /\ job[worker[w].j].kind = "provision"
    /\ Retry(worker[w].j)
    /\ Become(w, [worker[w] EXCEPT !.j = None])
    /\ UNCHANGED <<account, instance, history>>

Unsaved(w) == At(w, "save") \/ At(w, "boot")
InTry(w) == worker[w].pc \in {"save", "poll", "activate", "panel", "finish"}

\* A handler breaks off: a query throws where a provisioning job would catch it,
\* or the process dies, and Bull finds a stalled job and runs it again, once.
Fail(w) ==
    /\ ~At(w, "idle")
    /\ LosesServers \/ ~Unsaved(w)
    /\ fails < MaxFails
    /\ fails' = fails + 1
    /\ \/ InTry(w) /\ Goto(w, "failed") /\ UNCHANGED job
       \/ /\ Return(w)
          /\ LET j == worker[w].j
             IN  job' = IF j = None THEN job
                        ELSE [job EXCEPT ![j].stalled = TRUE,
                                         ![j].state = IF job[j].stalled THEN "failed"
                                                      ELSE "waiting"]
    /\ UNCHANGED <<account, instance, approved, rejected>>

--------------------------------------------------------------------------------

Request(w, a) ==
    \/ RejectVps(w, a) \/ SyncVps(w, a)
    \/ UpgradeVps(w, a) \/ ReinstallVps(w, a)

\* Requests that queue a job.
QueueingRequest(w, a) ==
    RoomForJob /\ (ApproveVps(w, a) \/ CreateWebsite(w, a) \/ DeleteHosting(w, a))

StartJob(w, j) == StartProvision(w, j) \/ StartDeprovision(w, j)

\* The steps of a handler that has been started.
Proceed(w) ==
    \/ ClaimApproval(w) \/ ReleaseClaim(w) \/ QueueProvisioning(w) \/ CommitReject(w)
    \/ QueueDeprovision(w) \/ CancelAccount(w)
    \/ \E running, applied \in BOOLEAN : CommitSync(w, running, applied)
    \/ CommitUpgrade(w) \/ StartReinstall(w) \/ EndReinstall(w)
    \/ CreateInstance(w) \/ CreateInstanceFails(w) \/ BootInstance(w) \/ SaveInstance(w)
    \/ ReadPendingUpgrade(w) \/ ActivateVps(w) \/ PanelReady(w) \/ PanelNotReady(w)
    \/ ActivateWebsite(w) \/ FailProvision(w) \/ CancelInstance(w) \/ MarkDeleted(w)

Next ==
    \/ \E a \in Accounts : CreateVps(a) \/ SuspendHosting(a) \/ UnsuspendHosting(a)
    \/ \E w \in Workers, a \in Accounts : Request(w, a) \/ QueueingRequest(w, a)
    \/ \E w \in Workers, j \in Jobs : StartJob(w, j)
    \/ \E w \in Workers : Proceed(w) \/ TimeOut(w) \/ Fail(w)

Spec == Init /\ [][Next]_vars

\* A handler in progress goes on (queries and calls time out at the latest), and
\* Bull runs every job that waits.
Fairness ==
    /\ \A w \in Workers : WF_vars(Proceed(w))
    /\ \A j \in Jobs : SF_vars(\E w \in Workers : StartJob(w, j))

FairSpec == Spec /\ Fairness

================================================================================
