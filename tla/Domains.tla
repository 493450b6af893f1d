------------------------------- MODULE Domains -------------------------------
(****************************************************************************)
(* The row of one domain name and what the registrar knows of that name:    *)
(* requests and their approval, block registrations, transfers, renewals,   *)
(* settings and deletion.  Names do not interact, and the table holds at    *)
(* most one row per name.                                                   *)
(*                                                                          *)
(* Every database statement and every call to the registrar is a step of    *)
(* its own.                                                                 *)
(****************************************************************************)
EXTENDS Handlers

CONSTANTS
    Users,      \* customers
    Settings,   \* the settings kept both in the row and at the registrar
    MaxTerm     \* bound on the years a domain is paid for

ASSUME DomainAssumption ==
    /\ None \notin Users
    /\ Settings \subseteq {"lock", "privacy", "autoRenew", "nameservers"}
    /\ MaxTerm \in Nat \ {0}

VARIABLES
    domain,     \* the row
    registrar,  \* the name at NameSilo
    handler,    \* the handlers in progress
    unsettled,  \* history: an approval of the present request ended without settling it
    stray,      \* history: a name was paid for and its row could not be inserted
    crowded,    \* history: two handlers were in progress at once
    faults      \* history: failed calls, and handlers that broke off

domainVars == <<domain, registrar, handler, unsettled, stray, crowded, faults>>

--------------------------------------------------------------------------------

\* EXPIRED, SUSPENDED and PENDING_DELETION are never written.
Status == {"NONE", "PENDING_APPROVAL", "PENDING_REGISTRATION", "PENDING_TRANSFER",
           "ACTIVE", "REJECTED", "DELETED"}

Live == {"PENDING_APPROVAL", "PENDING_REGISTRATION", "PENDING_TRANSFER", "ACTIVE"}

\* The name servers are the platform's own, at most four of the customer's, or a longer
\* list that begins with those four; any other setting is on or off.
NameServers == IF "nameservers" \in Settings THEN {"default", "own", "longer"} ELSE {"default"}
Values == {"on", "off"} \cup NameServers
Choices(k) == IF k = "nameservers" THEN NameServers ELSE {"on", "off"}

\* What NameSilo is told of a setting, and of all: the first four name servers.
Sent(v) == IF v = "longer" THEN "own" ELSE v
Told(set) == [k \in Settings |-> Sent(set[k])]

\* expiry counts years from now; 0 is null, from which a renewal counts as from now.
DomainRow == [status : Status, owner : Users \cup {None}, expiry : 0..MaxTerm,
              set : [Settings -> Values]]

\* Nobody's, somebody else's, being transferred to our account, or in it.
RegistrarRow == [at : {"free", "elsewhere", "incoming", "registered", "transferred"},
                 expiry : 0..MaxTerm, set : [Settings -> Values]]

Held == registrar.at \in {"registered", "transferred"}

Steps == {"idle", "available", "park", "reverify", "register", "mark", "release",
          "activate", "lock", "reject", "renew", "saveRenewal", "info", "saveExpiry",
          "toggle", "saveSetting", "delete", "transfer", "createTransfer",
          "transferInfo", "saveTransfer", "block", "createBlocked"}

\* What a handler keeps: the customer, whether the row existed (was in transfer)
\* when it was read, the expiry it has read, the setting it changes and its value (of a
\* request or an approval, the name servers), whether the registrar was called for an
\* approval, whether it is part of a bulk action.
DomainHandler == [pc : Steps, u : Users \cup {None}, seen : BOOLEAN, expiry : 0..MaxTerm,
                  k : Settings \cup {None}, v : Values, attempted : BOOLEAN,
                  bulk : BOOLEAN]

IdleHandler == [pc |-> "idle", u |-> None, seen |-> FALSE, expiry |-> 0, k |-> None,
                v |-> "default", attempted |-> FALSE, bulk |-> FALSE]

\* A request asks for privacy, renewal and some name servers, and no lock.
Requested(servers) ==
    [k \in Settings |-> IF k = "nameservers" THEN servers
                        ELSE IF k = "lock" THEN "off" ELSE "on"]

WithLock(set) == [k \in Settings |-> IF k = "lock" THEN "on" ELSE set[k]]

NewRow(status, u, servers) ==
    [status |-> status, owner |-> u, expiry |-> 0, set |-> Requested(servers)]

Registered(servers) ==
    [at |-> "registered", expiry |-> 1, set |-> Told(Requested(servers))]

DomainInit ==
    /\ domain = NewRow("NONE", None, "default")
    /\ registrar \in {[at |-> where, expiry |-> 0, set |-> Requested("default")] :
                          where \in {"free", "elsewhere"}}
    /\ handler = [w \in Workers |-> IdleHandler]
    /\ unsettled = FALSE
    /\ stray = FALSE
    /\ crowded = FALSE
    /\ faults = 0

--------------------------------------------------------------------------------

AtStep(w, step) == At(handler, w, step)
GoTo(w, step) == handler' = Goto(handler, w, step)
Become(w, next) == handler' = [handler EXCEPT ![w] = next]
Return(w) == Become(w, IdleHandler)

Fault == faults < MaxFaults /\ faults' = faults + 1

histories == <<unsettled, stray, crowded>>

\* A handler's first statement reads the row and keeps something of it.
Start(w, first) ==
    /\ AtStep(w, "idle")
    /\ Become(w, first)
    /\ crowded' = (crowded \/ Busy(handler) # {})
    /\ UNCHANGED <<registrar, unsettled, stray, faults>>

\* findDomainOrFail: only the owner gets past it.
Owned(u) == domain.status # "NONE" /\ domain.owner = u

\* A step that writes the row and nothing else.
WriteRow(row) == domain' = row /\ UNCHANGED <<registrar, histories, faults>>

\* A step that only asks the registrar.
Asked == UNCHANGED <<domain, registrar, histories, faults>>

--------------------------------------------------------------------------------
\* requestDomainRegistration.

\* Mutant: a claimed request does not count as live.
RequestRegistration_NotClaimed(w, u, servers) ==
    /\ domain.status \notin Live \ {"PENDING_REGISTRATION"}
    /\ Start(w, [IdleHandler EXCEPT !.pc = "available", !.u = u, !.v = servers,
                                    !.seen = domain.status # "NONE"])
    /\ UNCHANGED domain

RequestRegistration(w, u, servers) ==
    /\ domain.status \notin Live
    /\ Start(w, [IdleHandler EXCEPT !.pc = "available", !.u = u, !.v = servers,
                                    !.seen = domain.status # "NONE"])
    /\ UNCHANGED domain

\* Mutant: a request is parked whatever the registrar says.
VerifyAvailable_Anyway(w) ==
    /\ AtStep(w, "available")
    /\ GoTo(w, "park")
    /\ Asked

VerifyAvailable(w) ==
    /\ AtStep(w, "available")
    /\ IF registrar.at = "free" THEN GoTo(w, "park") ELSE Return(w)
    /\ Asked

\* A row that was there is taken over by id, whatever has become of it; its lock
\* stays.  Otherwise one is inserted, unless the name has got a row meanwhile.
ParkRequest(w) ==
    LET u == handler[w].u
        fresh == NewRow("PENDING_APPROVAL", u, handler[w].v)
        parked == [fresh EXCEPT !.set = [k \in Settings |->
                                            IF k = "lock" THEN domain.set[k] ELSE @[k]]]
    IN  /\ AtStep(w, "park")
        /\ IF handler[w].seen THEN domain' = parked /\ unsettled' = FALSE
           ELSE IF domain.status = "NONE"
           THEN domain' = fresh /\ unsettled' = FALSE
           ELSE UNCHANGED <<domain, unsettled>>
        /\ Return(w)
        /\ UNCHANGED <<registrar, stray, crowded, faults>>

--------------------------------------------------------------------------------
\* approveDomainRegistration, rejectDomainRegistration.

\* The compare-and-swap.  Of the row it has claimed the approval keeps the name servers.
ClaimRegistration(w) ==
    LET servers == IF "nameservers" \in Settings THEN domain.set["nameservers"] ELSE "default"
    IN  /\ domain.status = "PENDING_APPROVAL"
        /\ domain' = [domain EXCEPT !.status = "PENDING_REGISTRATION"]
        /\ Start(w, [IdleHandler EXCEPT !.pc = "reverify", !.v = servers])

Reverify(w) ==
    /\ AtStep(w, "reverify")
    /\ GoTo(w, IF registrar.at = "free" THEN "register" ELSE "mark")
    /\ Asked

\* Mutant: the claim is kept.
ReverifyFails_KeepsClaim(w) ==
    /\ AtStep(w, "reverify")
    /\ Return(w)
    /\ Fault
    /\ UNCHANGED <<domain, registrar, histories>>

\* The availability check throws: nothing is charged, and the claim is released.
ReverifyFails(w) ==
    /\ AtStep(w, "reverify")
    /\ GoTo(w, "release")
    /\ Fault
    /\ UNCHANGED <<domain, registrar, histories>>

RegisterDomain(w) ==
    /\ AtStep(w, "register")
    /\ registrar.at = "free"
    /\ registrar' = Registered(handler[w].v)
    /\ Become(w, [handler[w] EXCEPT !.pc = "activate", !.attempted = TRUE])
    /\ UNCHANGED <<domain, histories, faults>>

\* NameSilo refuses: the name is taken, or for a reason of its own.
RegistrationRefused(w) ==
    /\ AtStep(w, "register")
    /\ Become(w, [handler[w] EXCEPT !.pc = "mark", !.attempted = TRUE])
    /\ Asked

\* Mutant: an unanswered registration is rolled back like any other failure.
RegistrationUnanswered_Released(w) ==
    /\ AtStep(w, "register")
    /\ \/ registrar.at = "free" /\ registrar' = Registered(handler[w].v)
       \/ UNCHANGED registrar
    /\ unsettled' = TRUE
    /\ GoTo(w, "release")
    /\ Fault
    /\ UNCHANGED <<domain, stray, crowded>>

\* NameSilo does not answer, and may have registered the name.
RegistrationUnanswered(w) ==
    /\ AtStep(w, "register")
    /\ \/ registrar.at = "free" /\ registrar' = Registered(handler[w].v)
       \/ UNCHANGED registrar
    /\ unsettled' = TRUE
    /\ Return(w)
    /\ Fault
    /\ UNCHANGED <<domain, stray, crowded>>

\* markRegistrationRejected; after it an approval that has not called the
\* registrar goes through the catch clause that releases its claim.
MarkRejected(w) ==
    /\ AtStep(w, "mark")
    /\ WriteRow([domain EXCEPT !.status = "REJECTED"])
    /\ IF handler[w].attempted THEN Return(w) ELSE GoTo(w, "release")

\* Its update fails, which is ignored.
MarkRejectedFails(w) ==
    /\ AtStep(w, "mark")
    /\ IF handler[w].attempted THEN Return(w) ELSE GoTo(w, "release")
    /\ unsettled' = (unsettled \/ handler[w].attempted)
    /\ Fault
    /\ UNCHANGED <<domain, registrar, stray, crowded>>

ReleaseRegistration(w) ==
    /\ AtStep(w, "release")
    /\ WriteRow(IF domain.status = "PENDING_REGISTRATION"
                THEN [domain EXCEPT !.status = "PENDING_APPROVAL"] ELSE domain)
    /\ Return(w)

\* Mutant: the row is activated without the lock that is then asked for.
ActivateDomain_Unlocked(w) ==
    /\ AtStep(w, "activate")
    /\ WriteRow([domain EXCEPT !.status = "ACTIVE", !.expiry = 1,
                               !.set = Requested(handler[w].v)])
    /\ GoTo(w, "lock")

\* The lock is written before it is asked for, and the name servers in full.
Locked(servers) == WithLock(Requested(servers))

ActivateDomain(w) ==
    /\ AtStep(w, "activate")
    /\ WriteRow([domain EXCEPT !.status = "ACTIVE", !.expiry = 1,
                               !.set = Locked(handler[w].v)])
    /\ GoTo(w, "lock")

\* Failures are ignored.
LockDomain(w) ==
    /\ AtStep(w, "lock")
    /\ \/ registrar' = [registrar EXCEPT !.set = WithLock(@)] /\ UNCHANGED faults
       \/ Fault /\ UNCHANGED registrar
    /\ Return(w)
    /\ UNCHANGED <<domain, histories>>

RejectRegistration(w) ==
    /\ domain.status = "PENDING_APPROVAL"
    /\ Start(w, [IdleHandler EXCEPT !.pc = "reject"])
    /\ UNCHANGED domain

\* By id.
CommitRejection(w) ==
    /\ AtStep(w, "reject")
    /\ WriteRow([domain EXCEPT !.status = "REJECTED"])
    /\ Return(w)

--------------------------------------------------------------------------------
\* renewDomain, bulkDomainAction with renew, and the expiry sync of getDomain.

RenewDomain(w, u) ==
    /\ Owned(u)
    /\ Start(w, [IdleHandler EXCEPT !.pc = "renew", !.expiry = domain.expiry])
    /\ UNCHANGED domain

\* Mutant: the row is renewed whether or not the registrar has renewed.
RenewalRefused_Saved(w) ==
    /\ AtStep(w, "renew")
    /\ GoTo(w, "saveRenewal")
    /\ Asked

RenewAtRegistrar(w) ==
    /\ AtStep(w, "renew")
    /\ Held
    /\ registrar.expiry < MaxTerm
    /\ registrar' = [registrar EXCEPT !.expiry = @ + 1]
    /\ GoTo(w, "saveRenewal")
    /\ UNCHANGED <<domain, histories, faults>>

RenewalRefused(w) ==
    /\ AtStep(w, "renew")
    /\ Return(w)
    /\ Asked

\* Mutant: the year is added to the expiry as it is now.
SaveRenewal_Current(w) ==
    /\ AtStep(w, "saveRenewal")
    /\ WriteRow([domain EXCEPT !.status = "ACTIVE", !.expiry = @ + 1])
    /\ Return(w)

\* The year is added to the expiry read at first, and the row is made active.
SaveRenewal(w) ==
    /\ AtStep(w, "saveRenewal")
    /\ WriteRow([domain EXCEPT !.status = "ACTIVE", !.expiry = handler[w].expiry + 1])
    /\ Return(w)

GetDomain(w, u) ==
    /\ Owned(u)
    /\ Start(w, [IdleHandler EXCEPT !.pc = "info", !.expiry = domain.expiry])
    /\ UNCHANGED domain

CompareExpiry(w) ==
    /\ AtStep(w, "info")
    /\ IF /\ Held
          /\ handler[w].expiry \notin {0, registrar.expiry}
       THEN Become(w, [handler[w] EXCEPT !.pc = "saveExpiry", !.expiry = registrar.expiry])
       ELSE Return(w)
    /\ Asked

SyncExpiry(w) ==
    /\ AtStep(w, "saveExpiry")
    /\ WriteRow([domain EXCEPT !.expiry = handler[w].expiry])
    /\ Return(w)

--------------------------------------------------------------------------------
\* updateNameservers, toggleLock, togglePrivacy, toggleAutoRenew, and
\* bulkDomainAction with lock and unlock.

ToggleSetting(w, u, k, v, bulk) ==
    /\ Owned(u)
    /\ bulk => k = "lock"
    /\ Start(w, [IdleHandler EXCEPT !.pc = "toggle", !.k = k, !.v = v, !.bulk = bulk])
    /\ UNCHANGED domain

\* NameSilo is told the first four name servers.
ApplySetting(w) ==
    /\ AtStep(w, "toggle")
    /\ Held
    /\ registrar' = [registrar EXCEPT !.set[handler[w].k] = Sent(handler[w].v)]
    /\ GoTo(w, "saveSetting")
    /\ UNCHANGED <<domain, histories, faults>>

\* The registrar does not know the name, or refuses for a reason of its own.  It says so,
\* and nobody looks: the row is written all the same.
SettingRefused(w) ==
    /\ AtStep(w, "toggle")
    /\ \/ ~Held /\ UNCHANGED faults
       \/ Fault
    /\ GoTo(w, "saveSetting")
    /\ UNCHANGED <<domain, registrar, histories>>

\* The call throws, which automatic renewal and a bulk action ignore.
SettingFails(w) ==
    /\ AtStep(w, "toggle")
    /\ IF handler[w].k = "autoRenew" \/ handler[w].bulk
       THEN GoTo(w, "saveSetting") ELSE Return(w)
    /\ Fault
    /\ UNCHANGED <<domain, registrar, histories>>

\* The row keeps all of them.
SaveSetting(w) ==
    /\ AtStep(w, "saveSetting")
    /\ WriteRow([domain EXCEPT !.set[handler[w].k] = handler[w].v])
    /\ Return(w)

--------------------------------------------------------------------------------
\* bulkDomainAction with delete; initiateDomainTransfer, getTransferStatus,
\* cancelTransfer.

\* NameSilo has no call to delete a domain: only the row is.
DeleteDomain(w, u) ==
    /\ Owned(u)
    /\ Start(w, [IdleHandler EXCEPT !.pc = "delete"])
    /\ UNCHANGED domain

CancelTransfer(w, u) ==
    /\ Owned(u)
    /\ domain.status = "PENDING_TRANSFER"
    /\ Start(w, [IdleHandler EXCEPT !.pc = "delete"])
    /\ UNCHANGED domain

MarkDeleted(w) ==
    /\ AtStep(w, "delete")
    /\ WriteRow([domain EXCEPT !.status = "DELETED"])
    /\ Return(w)

InitiateTransfer(w, u) ==
    /\ domain.status = "NONE"
    /\ Start(w, [IdleHandler EXCEPT !.pc = "transfer", !.u = u])
    /\ UNCHANGED domain

TransferDomain(w) ==
    /\ AtStep(w, "transfer")
    /\ registrar.at = "elsewhere"
    /\ registrar' = [registrar EXCEPT !.at = "incoming"]
    /\ GoTo(w, "createTransfer")
    /\ UNCHANGED <<domain, histories, faults>>

TransferRefused(w) ==
    /\ AtStep(w, "transfer")
    /\ Return(w)
    /\ Asked

\* Inserts the row of a name that has been paid for, unless the name has one.
InsertPaid(row) ==
    /\ domain' = IF domain.status = "NONE" THEN row ELSE domain
    /\ stray' = (stray \/ domain.status # "NONE")
    /\ UNCHANGED <<registrar, unsettled, crowded, faults>>

CreateTransfer(w) ==
    /\ AtStep(w, "createTransfer")
    /\ InsertPaid(NewRow("PENDING_TRANSFER", handler[w].u, "default"))
    /\ Return(w)

\* Mutant: any answer of the registrar completes the transfer.
CheckTransfer_AnyStatus(w) ==
    /\ AtStep(w, "transferInfo")
    /\ IF handler[w].seen
       THEN Become(w, [handler[w] EXCEPT !.pc = "saveTransfer", !.expiry = registrar.expiry])
       ELSE Return(w)
    /\ Asked

GetTransferStatus(w, u) ==
    /\ Owned(u)
    /\ Start(w, [IdleHandler EXCEPT !.pc = "transferInfo",
                                    !.seen = domain.status = "PENDING_TRANSFER"])
    /\ UNCHANGED domain

CheckTransfer(w) ==
    /\ AtStep(w, "transferInfo")
    /\ IF Held /\ handler[w].seen
       THEN Become(w, [handler[w] EXCEPT !.pc = "saveTransfer", !.expiry = registrar.expiry])
       ELSE Return(w)
    /\ Asked

CompleteTransfer(w) ==
    /\ AtStep(w, "saveTransfer")
    /\ WriteRow([domain EXCEPT !.status = "ACTIVE", !.expiry = handler[w].expiry])
    /\ Return(w)

--------------------------------------------------------------------------------
\* blockDomain: registers without a request, for one of its top-level domains.

BlockDomain(w, u) ==
    /\ registrar.at = "free"
    /\ Start(w, [IdleHandler EXCEPT !.pc = "block", !.u = u])
    /\ UNCHANGED domain

RegisterBlocked(w) ==
    /\ AtStep(w, "block")
    /\ registrar.at = "free"
    /\ registrar' = Registered("default")
    /\ GoTo(w, "createBlocked")
    /\ UNCHANGED <<domain, histories, faults>>

BlockRefused(w) ==
    /\ AtStep(w, "block")
    /\ Return(w)
    /\ Asked

CreateBlocked(w) ==
    /\ AtStep(w, "createBlocked")
    /\ InsertPaid([NewRow("ACTIVE", handler[w].u, "default") EXCEPT
                      !.expiry = 1, !.set = Locked("default")])
    /\ IF domain.status = "NONE" THEN GoTo(w, "lock") ELSE Return(w)

--------------------------------------------------------------------------------
\* The rest of the world.

\* Somebody registers the name elsewhere.
TakenElsewhere ==
    /\ registrar.at = "free"
    /\ registrar' = [registrar EXCEPT !.at = "elsewhere"]
    /\ UNCHANGED <<domain, handler, histories, faults>>

\* A transfer asks for privacy and renewal; lock and name servers are as they were.
TransferArrives ==
    /\ registrar.at = "incoming"
    /\ \E set \in [Settings -> Values] :
          /\ \A k \in Settings :
                set[k] \in IF k \in {"privacy", "autoRenew"} THEN {"on"} ELSE Choices(k)
          /\ registrar' = [at |-> "transferred", expiry |-> 1, set |-> Told(set)]
    /\ UNCHANGED <<domain, handler, histories, faults>>

\* Its owner refuses it.
TransferDenied ==
    /\ registrar.at = "incoming"
    /\ registrar' = [registrar EXCEPT !.at = "elsewhere"]
    /\ UNCHANGED <<domain, handler, histories, faults>>

World == TakenElsewhere \/ TransferArrives \/ TransferDenied

\* A query fails, the answer of a call is lost, or the process dies.
Fail(w) ==
    /\ handler[w].pc # "idle"
    /\ unsettled' = (unsettled \/ handler[w].pc \in {"reverify", "register", "mark",
                                                     "release", "activate"})
    /\ stray' = (stray \/ handler[w].pc \in {"createTransfer", "createBlocked"})
    /\ Return(w)
    /\ Fault
    /\ UNCHANGED <<domain, registrar, crowded>>

--------------------------------------------------------------------------------

StartHandler(w) ==
    \/ ClaimRegistration(w) \/ RejectRegistration(w)
    \/ \E u \in Users :
          \/ \E servers \in NameServers : RequestRegistration(w, u, servers)
          \/ RenewDomain(w, u) \/ GetDomain(w, u)
          \/ DeleteDomain(w, u) \/ InitiateTransfer(w, u) \/ GetTransferStatus(w, u)
          \/ CancelTransfer(w, u) \/ BlockDomain(w, u)
          \/ \E k \in Settings, bulk \in BOOLEAN : \E v \in Choices(k) :
                ToggleSetting(w, u, k, v, bulk)

\* The next step of a handler in progress; one that waits for an answer gets one.
Continue(w) ==
    \/ VerifyAvailable(w) \/ ParkRequest(w)
    \/ Reverify(w) \/ ReverifyFails(w)
    \/ RegisterDomain(w) \/ RegistrationRefused(w) \/ RegistrationUnanswered(w)
    \/ MarkRejected(w) \/ MarkRejectedFails(w) \/ ReleaseRegistration(w)
    \/ ActivateDomain(w) \/ LockDomain(w) \/ CommitRejection(w)
    \/ RenewAtRegistrar(w) \/ RenewalRefused(w) \/ SaveRenewal(w)
    \/ CompareExpiry(w) \/ SyncExpiry(w)
    \/ ApplySetting(w) \/ SettingRefused(w) \/ SettingFails(w) \/ SaveSetting(w)
    \/ MarkDeleted(w) \/ TransferDomain(w) \/ TransferRefused(w) \/ CreateTransfer(w)
    \/ CheckTransfer(w) \/ CompleteTransfer(w)
    \/ RegisterBlocked(w) \/ BlockRefused(w) \/ CreateBlocked(w)

DomainNext == World \/ \E w \in Workers : StartHandler(w) \/ Continue(w) \/ Fail(w)

DomainSpec == DomainInit /\ [][DomainNext]_domainVars

================================================================================
