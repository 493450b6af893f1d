----------------------------- MODULE Certificates -----------------------------
(****************************************************************************)
(* The SSL certificates of one domain: their rows, the files that acme.sh   *)
(* keeps under the domain's name, and the jobs issue-ssl and renew-ssl.     *)
(* Nothing queues revoke-ssl, and checkExpiringSoon has no caller.          *)
(****************************************************************************)
EXTENDS JobQueues

CONSTANTS
    Certs,          \* certificates: a bound on those ever created
    MaxCertFaults   \* bound on failed updates and handlers that break off

ASSUME CertAssumption ==
    /\ None \notin Certs
    /\ MaxCertFaults \in Nat

VARIABLES
    cert,           \* the rows
    onDisk,         \* the domain's certificate files are on disk
    known,          \* acme.sh has issued for the domain, and keeps a record of that
    certQueue,      \* the queue ssl
    certHandler,    \* the handlers in progress
    revived,        \* history: a job made a row live again that had been closed
    wiped,          \* history: files went with another row's, or under a running job
    skipped,        \* history: acme.sh last skipped an issue when the files were gone
    unshown,        \* history: the failure of a job's last try was not saved
    certCut,        \* history: a handler broke off
    certCrowded,    \* history: two handlers were in progress at once
    certFaults      \* history: failed calls, and handlers that broke off

disk == <<onDisk, known>>
certHistories == <<revived, wiped, skipped, unshown, certCut, certCrowded, certFaults>>
certVars == <<cert, disk, certQueue, certHandler, certHistories>>

\* EXPIRED is never written; the row of a GONE certificate has been deleted.
CertStatus == {"NONE", "PENDING_ISSUANCE", "PENDING_VALIDATION", "ACTIVE", "REVOKED",
               "CANCELLED", "GONE"}

LiveCert == {"ACTIVE", "PENDING_ISSUANCE", "PENDING_VALIDATION"}

Closed == {"REVOKED", "CANCELLED"}

Provider == {"LETS_ENCRYPT", "RESELLERCLUB"}

CertSteps == {"idle", "create", "queue", "queueRenewal", "revoke", "markRevoked", "unlink",
              "remove", "acme", "activate", "order", "cancel", "retry", "renew",
              "saveRenewal"}

NoCert == [status |-> "NONE", provider |-> None, ordered |-> FALSE]

IdleCert == [pc |-> "idle", c |-> None, provider |-> None, job |-> None]

CertInit ==
    /\ cert = [c \in Certs |-> NoCert]
    /\ onDisk = FALSE
    /\ known = FALSE
    /\ certQueue = [j \in Jobs |-> NoJob]
    /\ certHandler = [w \in Workers |-> IdleCert]
    /\ revived = FALSE
    /\ wiped = FALSE
    /\ skipped = FALSE
    /\ unshown = FALSE
    /\ certCut = FALSE
    /\ certCrowded = FALSE
    /\ certFaults = 0

--------------------------------------------------------------------------------

CertAt(w, step) == At(certHandler, w, step)
CertGoto(w, step) == certHandler' = Goto(certHandler, w, step)
CertReturn(w) == certHandler' = [certHandler EXCEPT ![w] = IdleCert]

CertFault == certFaults < MaxCertFaults /\ certFaults' = certFaults + 1

StartCert(w, first) ==
    /\ CertAt(w, "idle")
    /\ certHandler' = [certHandler EXCEPT ![w] = first]
    /\ certCrowded' = (certCrowded \/ Busy(certHandler) # {})
    /\ UNCHANGED <<disk, revived, wiped, skipped, unshown, certCut, certFaults>>

On(w) == certHandler[w].c

\* A statement or call that writes nothing of what is modelled.
CertPasses == UNCHANGED <<cert, disk, certQueue, certHistories>>

AddCertJob(kind, c) ==
    /\ \E j \in Free(certQueue) : certQueue' = [certQueue EXCEPT ![j] = QueuedJob(kind, c)]
    /\ UNCHANGED <<cert, disk, certHistories>>

Exists(c) == cert[c].status \notin {"NONE", "GONE"}

\* A job's update of its row, after which the job is done; without the row it throws.
FinishJob(w, row, otherwise) ==
    /\ IF Exists(On(w))
       THEN /\ cert' = [cert EXCEPT ![On(w)] = row]
            /\ revived' = (revived \/ cert[On(w)].status \in Closed)
            /\ certQueue' = [certQueue EXCEPT ![certHandler[w].job] = NoJob]
            /\ CertReturn(w)
       ELSE /\ CertGoto(w, otherwise)
            /\ UNCHANGED <<cert, certQueue, revived>>
    /\ UNCHANGED <<disk, wiped, skipped, unshown, certCut, certCrowded, certFaults>>

--------------------------------------------------------------------------------
\* issueCertificate.

\* Every handler in progress can still create a row, and so can one more.
Fresh == {c \in Certs : cert[c].status = "NONE"}

RoomForCert == Cardinality(Fresh) > Cardinality(Busy(certHandler))

\* Mutant: a certificate that is being issued does not count.
IssueCertificate_ActiveOnly(w, provider) ==
    /\ \A c \in Certs : cert[c].status # "ACTIVE"
    /\ RoomForCert
    /\ Room(certQueue, certHandler)
    /\ StartCert(w, [IdleCert EXCEPT !.pc = "create", !.provider = provider])
    /\ UNCHANGED <<cert, certQueue>>

IssueCertificate(w, provider) ==
    /\ \A c \in Certs : cert[c].status \notin LiveCert
    /\ RoomForCert
    /\ Room(certQueue, certHandler)
    /\ StartCert(w, [IdleCert EXCEPT !.pc = "create", !.provider = provider])
    /\ UNCHANGED <<cert, certQueue>>

CreateCert(w) ==
    /\ CertAt(w, "create")
    /\ \E c \in Fresh :
          /\ cert' = [cert EXCEPT ![c] = [status |-> "PENDING_ISSUANCE", ordered |-> FALSE,
                                          provider |-> certHandler[w].provider]]
          /\ certHandler' = [certHandler EXCEPT ![w].pc = "queue", ![w].c = c]
    /\ UNCHANGED <<disk, certQueue, certHistories>>

QueueIssue(w) ==
    /\ CertAt(w, "queue")
    /\ AddCertJob("issue", On(w))
    /\ CertReturn(w)

--------------------------------------------------------------------------------
\* renewCertificate, revokeCertificate, deleteCertificate.

\* A bound: no second renewal is asked for while one is waiting or about to.
RenewalUnderWay ==
    \/ \E j \in Jobs : certQueue[j].kind = "renew"
    \/ \E w \in Workers : certHandler[w].pc = "queueRenewal"

RenewCertificate(w, c) ==
    /\ Exists(c)
    /\ cert[c].status \notin Closed
    /\ ~RenewalUnderWay
    /\ Room(certQueue, certHandler)
    /\ StartCert(w, [IdleCert EXCEPT !.pc = "queueRenewal", !.c = c])
    /\ UNCHANGED <<cert, certQueue>>

QueueRenewal(w) ==
    /\ CertAt(w, "queueRenewal")
    /\ AddCertJob("renew", On(w))
    /\ CertReturn(w)

RevokeCertificate(w, c) ==
    /\ Exists(c)
    /\ cert[c].status # "REVOKED"
    /\ StartCert(w, [IdleCert EXCEPT !.pc = "revoke", !.c = c])
    /\ UNCHANGED <<cert, certQueue>>

\* The files are those of the domain, whichever row they belong to; acme.sh's own
\* record of the domain stays.
RemoveFiles(w) ==
    /\ onDisk' = FALSE
    /\ wiped' = (wiped \/ \/ \E c \in Certs \ {On(w)} : Exists(c)
                          \/ Busy(certHandler) # {w})

\* acme.sh revokes the domain's certificate and removes it, or fails, which is ignored.
RevokeAtAcme(w) ==
    /\ CertAt(w, "revoke")
    /\ \/ RemoveFiles(w)
       \/ UNCHANGED <<onDisk, wiped>>
    /\ CertGoto(w, "markRevoked")
    /\ UNCHANGED <<cert, known, certQueue, revived, skipped, unshown, certCut, certCrowded,
                   certFaults>>

\* The update throws if the row is gone.
MarkRevoked(w) ==
    /\ CertAt(w, "markRevoked")
    /\ cert' = IF Exists(On(w)) THEN [cert EXCEPT ![On(w)].status = "REVOKED"] ELSE cert
    /\ CertReturn(w)
    /\ UNCHANGED <<disk, certQueue, certHistories>>

DeleteCertificate(w, c) ==
    /\ Exists(c)
    /\ StartCert(w, [IdleCert EXCEPT !.pc = "unlink", !.c = c])
    /\ UNCHANGED <<cert, certQueue>>

UnlinkFiles(w) ==
    /\ CertAt(w, "unlink")
    /\ RemoveFiles(w)
    /\ CertGoto(w, "remove")
    /\ UNCHANGED <<cert, known, certQueue, revived, skipped, unshown, certCut, certCrowded,
                   certFaults>>

RemoveCert(w) ==
    /\ CertAt(w, "remove")
    /\ cert' = [cert EXCEPT ![On(w)].status = "GONE"]
    /\ CertReturn(w)
    /\ UNCHANGED <<disk, certQueue, certHistories>>

--------------------------------------------------------------------------------
\* The job issue-ssl.

\* A ResellerClub order needs the row, which it reads first.
TakeIssue(w, j) ==
    LET c == certQueue[j].on
    IN  /\ certQueue[j].state = "waiting"
        /\ certQueue[j].kind = "issue"
        /\ certQueue' = [certQueue EXCEPT ![j].state = "active"]
        /\ StartCert(w, [pc |-> IF cert[c].provider = "LETS_ENCRYPT" THEN "acme"
                                ELSE IF Exists(c) THEN "order" ELSE "cancel",
                         c |-> c, provider |-> None, job |-> j])
        /\ UNCHANGED cert

\* acme.sh issues the certificate.
AcmeIssue(w) ==
    /\ CertAt(w, "acme")
    /\ onDisk' = TRUE
    /\ known' = TRUE
    /\ skipped' = FALSE
    /\ CertGoto(w, "activate")
    /\ UNCHANGED <<cert, certQueue, revived, wiped, unshown, certCut, certCrowded, certFaults>>

\* By its own record acme.sh has issued one that is not due yet, and skips it: that is
\* taken for success without a look at the files.
AcmeSkips(w) ==
    /\ CertAt(w, "acme")
    /\ known
    /\ skipped' = (skipped \/ ~onDisk)
    /\ CertGoto(w, "activate")
    /\ UNCHANGED <<cert, disk, certQueue, revived, wiped, unshown, certCut, certCrowded,
                   certFaults>>

\* Mutant: a failure of acme.sh is taken for a certificate that it has.
IssueFails_Skipped(w) ==
    /\ CertAt(w, "acme")
    /\ CertGoto(w, "activate")
    /\ CertPasses

\* acme.sh fails, or the order is refused.
IssueFails(w) ==
    /\ certHandler[w].pc \in {"acme", "order"}
    /\ CertGoto(w, "cancel")
    /\ CertPasses

\* The update after it fails: a certificate has been issued or ordered all the same.
CertNotSaved(w) ==
    /\ certHandler[w].pc \in {"activate", "order"}
    /\ CertGoto(w, "cancel")
    /\ CertFault
    /\ UNCHANGED <<cert, disk, certQueue, revived, wiped, skipped, unshown, certCut,
                   certCrowded>>

ActivateCert(w) ==
    /\ CertAt(w, "activate")
    /\ FinishJob(w, [cert[On(w)] EXCEPT !.status = "ACTIVE"], "cancel")

\* The order is placed, and its id saved.
SaveCertOrder(w) ==
    /\ CertAt(w, "order")
    /\ FinishJob(w, [cert[On(w)] EXCEPT !.status = "PENDING_VALIDATION", !.ordered = TRUE],
                 "cancel")

\* Mutant: the catch clause leaves the row as it is.
CancelCert_Kept(w) ==
    /\ CertAt(w, "cancel")
    /\ CertGoto(w, "retry")
    /\ CertPasses

\* The catch clause, which ignores that the row is gone or cannot be updated.
CancelCert(w) ==
    /\ CertAt(w, "cancel")
    /\ \/ /\ cert' = IF Exists(On(w)) THEN [cert EXCEPT ![On(w)].status = "CANCELLED"] ELSE cert
          /\ UNCHANGED <<unshown, certFaults>>
       \/ /\ CertFault
          /\ unshown' = (unshown \/ IsLastTry(certQueue[certHandler[w].job]))
          /\ UNCHANGED cert
    /\ CertGoto(w, "retry")
    /\ UNCHANGED <<disk, certQueue, revived, wiped, skipped, certCut, certCrowded>>

RetryCertJob(w) ==
    /\ CertAt(w, "retry")
    /\ certQueue' = [certQueue EXCEPT ![certHandler[w].job] = AfterFailure(@)]
    /\ CertReturn(w)
    /\ UNCHANGED <<cert, disk, certHistories>>

--------------------------------------------------------------------------------
\* The job renew-ssl.

\* Whatever has become of the row.
TakeRenewal(w, j) ==
    /\ certQueue[j].state = "waiting"
    /\ certQueue[j].kind = "renew"
    /\ certQueue' = [certQueue EXCEPT ![j].state = "active"]
    /\ StartCert(w, [IdleCert EXCEPT !.pc = "renew", !.c = certQueue[j].on, !.job = j])
    /\ UNCHANGED cert

\* ResellerClub renews its order; whatever has none, or no row any more, is renewed by
\* acme.sh, which must know the domain.
RenewCert(w) ==
    LET atReseller == Exists(On(w)) /\ cert[On(w)].ordered
    IN  /\ CertAt(w, "renew")
        /\ atReseller \/ known
        /\ onDisk' = (onDisk \/ ~atReseller)
        /\ CertGoto(w, "saveRenewal")
        /\ UNCHANGED <<cert, known, certQueue, certHistories>>

\* acme.sh fails, or ResellerClub refuses.
RenewalFails(w) ==
    /\ CertAt(w, "renew")
    /\ CertGoto(w, "retry")
    /\ CertPasses

SaveCertRenewal(w) ==
    /\ CertAt(w, "saveRenewal")
    /\ FinishJob(w, [cert[On(w)] EXCEPT !.status = "ACTIVE"], "retry")

--------------------------------------------------------------------------------

\* A query fails outside the try blocks, or the process dies; Bull runs a job that has
\* stalled again.
CertBreaksOff(w) ==
    LET j == certHandler[w].job
    IN  /\ ~CertAt(w, "idle")
        /\ certQueue' = IF j = None THEN certQueue
                        ELSE [certQueue EXCEPT ![j].state = "waiting"]
        /\ certCut' = TRUE
        /\ CertReturn(w)
        /\ CertFault
        /\ UNCHANGED <<cert, disk, revived, wiped, skipped, unshown, certCrowded>>

StartCertHandler(w) ==
    \/ \E provider \in Provider : IssueCertificate(w, provider)
    \/ \E c \in Certs :
          RenewCertificate(w, c) \/ RevokeCertificate(w, c) \/ DeleteCertificate(w, c)

ContinueCert(w) ==
    \/ CreateCert(w) \/ QueueIssue(w) \/ QueueRenewal(w) \/ RevokeAtAcme(w) \/ MarkRevoked(w)
    \/ UnlinkFiles(w) \/ RemoveCert(w) \/ AcmeIssue(w) \/ AcmeSkips(w)
    \/ IssueFails(w) \/ CertNotSaved(w)
    \/ ActivateCert(w) \/ SaveCertOrder(w) \/ CancelCert(w) \/ RetryCertJob(w)
    \/ RenewCert(w) \/ RenewalFails(w) \/ SaveCertRenewal(w)

TakesCertJob(j) == \E w \in Workers : TakeIssue(w, j) \/ TakeRenewal(w, j)

CertNext ==
    \/ \E w \in Workers : StartCertHandler(w) \/ ContinueCert(w) \/ CertBreaksOff(w)
    \/ \E j \in Jobs : TakesCertJob(j)

CertSpec == CertInit /\ [][CertNext]_certVars

================================================================================
