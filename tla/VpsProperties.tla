----------------------------- MODULE VpsProperties -----------------------------
(****************************************************************************)
(* What provisioning keeps true of accounts, servers and approvals.         *)
(****************************************************************************)
EXTENDS VpsProvisioning

TypeOK ==
    /\ account \in [Accounts -> AccountRow]
    /\ instance \in [Servers -> InstanceRow]
    /\ job \in [Jobs -> JobRow]
    /\ approved \subseteq Accounts
    /\ rejected \subseteq Accounts
    /\ worker \in [Workers -> WorkerRow]
    /\ fails \in Nat

--------------------------------------------------------------------------------
\* Whatever overlaps and wherever it breaks off.

ServersOf(a) == {s \in Servers : instance[s].a = a}

\* No virtual server is paid for before an administrator's approval has claimed
\* its request (approveVps queues the job only after its compare-and-swap).
NoServerUnapproved == \A a \in Vps : ServersOf(a) # {} => a \in approved

\* Once claimed, a request never waits for approval again, however its job fails
\* (the catch of the provisioning job), so that it cannot be approved twice.
ApprovedLeavesTheQueue ==
    \A a \in Vps : a \in approved => account[a].status # "PENDING_SETUP"

--------------------------------------------------------------------------------
\* As long as no handler breaks off between creating a server and saving its id.

Stage == [a \in Vps |-> IF account[a].status = "NONE" THEN "none"
                        ELSE IF a \in approved THEN "approved" ELSE "requested"]
Bought == [a \in Vps |-> ServersOf(a)]

Promise == INSTANCE PaidServers WITH Accounts <- Vps, stage <- Stage, bought <- Bought

\* An approved request is paid for at most once, whatever requests, failures and
\* retries of its job overlap: the guard of the provisioning job and the early
\* saving of the server's id see to it.
ImplementsPaidServers == Promise!Spec

--------------------------------------------------------------------------------
\* Why these are preserved.  A request that has been approved is provisioned by
\* one job, which a handler holds while it runs it, and a server that is not on
\* its account's row yet is in the hands of that handler.

Provisioning == {"create", "boot", "save", "poll", "activate", "panel", "finish", "failed"}
Deprovisioning == {"cancel", "delete"}
OnServer == {"sync", "upgrade", "reinstall", "reinstalled"}

AccountInv(a) ==
    /\ a \in approved => account[a].status \notin {"NONE", "PENDING_SETUP"}
    /\ account[a].status = "PENDING_SETUP" => account[a].blob.kind = "request"
    /\ account[a].server # None => a \in approved
    /\ ServersOf(a) # {} => a \in approved

JobInv(j) ==
    /\ job[j].state = "none" <=> job[j] = NoJob
    /\ job[j].kind = "none" <=> job[j] = NoJob
    /\ job[j].a \in Accounts => account[job[j].a].status # "NONE"
    /\ job[j].a = None => job[j] = NoJob
    /\ job[j].kind = "provision" /\ job[j].a \in Vps => job[j].a \in approved

\* A handler of a virtual server's request.
VpsHandlerInv(w) ==
    /\ worker[w].pc \in Provisioning => worker[w].j # None
    /\ worker[w].pc \notin {"release", "boot", "panel", "finish"}
    /\ worker[w].pc \in OnServer \cup {"queue"} => worker[w].a \in approved
    /\ worker[w].pc = "sync" => worker[w].row.status # "PENDING_SETUP"
    /\ worker[w].pc = "claim" /\ worker[w].row.blob.kind # "request"
          => account[worker[w].a].status # "PENDING_SETUP"

HandlerInv(w) ==
    /\ worker[w].pc = "idle" <=> worker[w] = Idle
    /\ worker[w].pc # "idle" =>
          worker[w].a \in Accounts /\ account[worker[w].a].status # "NONE"
    /\ worker[w].pc = "sync" => worker[w].row.status # "NONE"
    /\ worker[w].pc \in {"boot", "save", "cancel"} => worker[w].s \in Servers
    /\ worker[w].pc \notin Provisioning \cup Deprovisioning => worker[w].j = None
    /\ worker[w].pc \in Deprovisioning => worker[w].j # None
    /\ worker[w].j # None =>
          /\ job[worker[w].j].state = "active"
          /\ job[worker[w].j].a = worker[w].a
          /\ job[worker[w].j].kind = "provision" <=> worker[w].pc \in Provisioning
    /\ worker[w].a \in Vps => VpsHandlerInv(w)

\* One job, or one handler about to queue it, for an approved request.
ProvisionJob(j, a) == job[j].kind = "provision" /\ job[j].a = a
AboutToQueue(w, a) == worker[w].pc = "queue" /\ worker[w].a = a

OneProvisioner ==
    \A a \in Vps :
        /\ \A i, j \in Jobs : ProvisionJob(i, a) /\ ProvisionJob(j, a) => i = j
        /\ \A v, w \in Workers : AboutToQueue(v, a) /\ AboutToQueue(w, a) => v = w
        /\ \A w \in Workers, j \in Jobs : ~(AboutToQueue(w, a) /\ ProvisionJob(j, a))

OneHandlerEach ==
    \A v, w \in Workers : worker[v].j # None /\ worker[v].j = worker[w].j => v = w

IInv ==
    /\ \A a \in Vps : AccountInv(a)
    /\ \A j \in Jobs : JobInv(j)
    /\ \A w \in Workers : HandlerInv(w)
    /\ OneProvisioner
    /\ OneHandlerEach

\* Only when no server is lost.
ServersKnown ==
    /\ \A a \in Vps :
          ServersOf(a) # {} =>
              \/ account[a].server # None
              \/ \E w \in Workers : worker[w].pc = "save" /\ worker[w].a = a
    /\ \A w \in Workers :
          worker[w].pc = "create" /\ worker[w].a \in Vps => ServersOf(worker[w].a) = {}

--------------------------------------------------------------------------------
\* While handlers take turns and none breaks off.

\* At most one handler is in progress.
TakingTurns == \A v, w \in Workers : At(v, "idle") \/ At(w, "idle") \/ v = w

\* No handler has broken off.
NoneBreaksOff == fails = 0

\* A request that was rejected is never served.
RejectedGetsNothing == \A a \in rejected \cap Vps : ServersOf(a) = {}

\* The credentials in a request do not outlive its provisioning (the metadata
\* replaces them, or the failed job purges them).
CredentialsPurged ==
    \A a \in Vps :
        account[a].server # None /\ (\A w \in Workers : worker[w].a # a)
            => account[a].blob.kind # "request"

\* Every account that is being provisioned, or reinstalled, gets out of it.
ProvisioningEnds ==
    \A a \in Accounts :
        account[a].status = "PROVISIONING" ~> account[a].status # "PROVISIONING"

--------------------------------------------------------------------------------
\* Why these are preserved.  What is rejected was waiting for approval when it was
\* read, and nobody has approved it since; and only the handler that provisions a
\* server sees its id on a row that still holds the request.

RejectedInv ==
    /\ \A a \in rejected \cap Vps :
          a \notin approved /\ account[a].status \notin {"NONE", "PENDING_SETUP"}
    /\ \A w \in Workers :
          worker[w].pc = "reject" /\ worker[w].a \in Vps => worker[w].a \notin approved

PurgeInv ==
    /\ \A a \in Vps :
          account[a].server # None /\ account[a].blob.kind = "request"
             => \E w \in Workers :
                   worker[w].a = a /\ worker[w].pc \in {"poll", "activate", "failed"}
    /\ \A w \in Workers :
          worker[w].pc \in {"sync", "upgrade"} /\ worker[w].a \in Vps
             => worker[w].row.blob.kind # "request"

--------------------------------------------------------------------------------
\* What the interface says of deleting an account, and the code does not keep.

\* Once nothing is in progress for it any more, a deleted account has no server
\* that is paid for (deleteHosting: 'Delete / cancel a hosting account').
DeletedIsCancelled ==
    \A a \in Accounts :
        /\ account[a].status = "DELETED"
        /\ \A w \in Workers : worker[w].a # a
        /\ \A j \in Jobs : job[j].a # a
        => \A s \in ServersOf(a) : instance[s].state # "running"

================================================================================
