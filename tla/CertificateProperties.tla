------------------------- MODULE CertificateProperties -------------------------
(****************************************************************************)
(* What the SSL service keeps true of a domain's certificates.              *)
(****************************************************************************)
EXTENDS Certificates

CertJob == [state : {"none", "waiting", "active"}, kind : {"issue", "renew", None},
            on : Certs \cup {None}, tries : 0..(Attempts - 1)]

CertTypeOK ==
    /\ cert \in [Certs -> [status : CertStatus, provider : Provider \cup {None},
                           ordered : BOOLEAN]]
    /\ onDisk \in BOOLEAN
    /\ known \in BOOLEAN
    /\ certQueue \in [Jobs -> CertJob]
    /\ certHandler \in [Workers -> [pc : CertSteps, c : Certs \cup {None},
                                    provider : Provider \cup {None}, job : Jobs \cup {None}]]
    /\ revived \in BOOLEAN
    /\ wiped \in BOOLEAN
    /\ skipped \in BOOLEAN
    /\ unshown \in BOOLEAN
    /\ certCut \in BOOLEAN
    /\ certCrowded \in BOOLEAN
    /\ certFaults \in 0..MaxCertFaults

\* While handlers take turns a domain has one live certificate ("Prevent duplicate
\* active/pending certs for the same domain" in issueCertificate), unless a job that
\* had been queued before made a closed one live again: a retry of an issue that had
\* failed, or the renewal of a certificate that was then revoked.
OneLiveCert ==
    ~certCrowded /\ ~revived =>
        \A c, d \in Certs : cert[c].status \in LiveCert /\ cert[d].status \in LiveCert => c = d

\* An active Let's Encrypt certificate can be downloaded (downloadCertificate), unless
\* its files, which are the domain's, went with another certificate's, or it was made
\* active on acme.sh's word that the domain has one, when the files had been deleted.
ActiveIsReadable ==
    \A c \in Certs :
        cert[c].status = "ACTIVE" /\ cert[c].provider = "LETS_ENCRYPT"
            /\ ~wiped /\ ~skipped /\ ~certCut
            /\ (\A w \in Workers : On(w) = c => ~(CertAt(w, "remove") \/ CertAt(w, "markRevoked")))
        => onDisk

\* An issue that was asked for succeeds, or is shown to have failed ("Mark as failed so
\* the user can see the error state"), unless that update fails at the last try, too.
IssuanceSettles ==
    \A c \in Certs : (cert[c].status = "PENDING_ISSUANCE")
                         ~> (cert[c].status # "PENDING_ISSUANCE" \/ unshown \/ certCut)

--------------------------------------------------------------------------------
\* Why the safety properties hold.

\* A job that has not ended is on a row that has been created, and runs in one handler.
CertJobsInHand ==
    /\ \A j \in Jobs : certQueue[j].state # "none" =>
          certQueue[j].on \in Certs /\ cert[certQueue[j].on].status # "NONE"
    /\ \A w \in Workers : certHandler[w].job # None =>
          /\ certQueue[certHandler[w].job].state = "active"
          /\ \A v \in Workers : certHandler[v].job = certHandler[w].job => v = w

CertsInHand ==
    \A w \in Workers : certHandler[w].pc \notin {"idle", "create"} =>
        On(w) \in Certs /\ cert[On(w)].status # "NONE"

\* Only what ResellerClub sells is ordered; the rest is renewed by acme.sh.
OnlyResellerOrders ==
    /\ \A c \in Certs : cert[c].ordered => cert[c].provider # "LETS_ENCRYPT"
    /\ \A w \in Workers : CertAt(w, "order") => cert[On(w)].provider # "LETS_ENCRYPT"

\* A job that is about to make a Let's Encrypt certificate active has its files, or
\* acme.sh has skipped it.
FilesInHand ==
    \A w \in Workers :
        CertAt(w, "activate") \/ (CertAt(w, "saveRenewal")
                                      /\ cert[On(w)].provider = "LETS_ENCRYPT")
            => onDisk \/ wiped \/ skipped

\* A handler that has the domain to itself creates a row where none is live.
CertTurns ==
    /\ \A w, v \in Busy(certHandler) : w = v
    /\ ~revived =>
          /\ \A c, d \in Certs :
                cert[c].status \in LiveCert /\ cert[d].status \in LiveCert => c = d
          /\ \A w \in Workers : CertAt(w, "create") =>
                \A c \in Certs : cert[c].status \notin LiveCert

CertInv ==
    /\ CertJobsInHand
    /\ CertsInHand
    /\ OnlyResellerOrders
    /\ FilesInHand
    /\ ActiveIsReadable
    /\ ~certCrowded => CertTurns

================================================================================
