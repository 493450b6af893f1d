--------------------------- MODULE CertificateProofs ---------------------------
(****************************************************************************)
(* A domain's certificates proved for any number of rows, handlers, jobs,   *)
(* tries and failures.                                                      *)
(****************************************************************************)
EXTENDS CertificateProperties, TLAPS

CertRow == [status : CertStatus, provider : Provider \cup {None}, ordered : BOOLEAN]

HandlerRecord == [pc : CertSteps, c : Certs \cup {None}, provider : Provider \cup {None},
                  job : Jobs \cup {None}]

--------------------------------------------------------------------------------
\* What the helpers do.

LEMMA CertTypes ==
    ASSUME CertTypeOK
    PROVE  /\ \A c \in Certs : cert[c] \in CertRow /\ cert[c].ordered \in BOOLEAN
           /\ \A w \in Workers :
                 /\ certHandler[w].c \in Certs \cup {None}
                 /\ certHandler[w].job \in Jobs \cup {None}
           /\ \A j \in Jobs : certQueue[j] \in CertJob
           /\ onDisk \in BOOLEAN /\ wiped \in BOOLEAN /\ revived \in BOOLEAN
           /\ known \in BOOLEAN /\ skipped \in BOOLEAN /\ unshown \in BOOLEAN
           /\ certCut \in BOOLEAN /\ certCrowded \in BOOLEAN
           /\ certFaults \in 0..MaxCertFaults /\ MaxCertFaults \in Nat
  BY CertAssumption DEF CertTypeOK, CertRow

LEMMA CertMoves ==
    ASSUME CertTypeOK, NEW w \in Workers, NEW next,
           certHandler' = [certHandler EXCEPT ![w] = next]
    PROVE  /\ certHandler'[w] = next
           /\ \A v \in Workers \ {w} : certHandler'[v] = certHandler[v]
  BY DEF CertTypeOK

LEMMA CertGoes ==
    ASSUME CertTypeOK, NEW w \in Workers, NEW step, CertGoto(w, step)
    PROVE  /\ certHandler'[w].pc = step
           /\ certHandler'[w].c = certHandler[w].c
           /\ certHandler'[w].job = certHandler[w].job
           /\ \A v \in Workers \ {w} : certHandler'[v] = certHandler[v]
<1>1. certHandler' = [certHandler EXCEPT ![w] = [certHandler[w] EXCEPT !.pc = step]]
  BY DEF CertGoto, Goto
<1>2. certHandler[w] \in HandlerRecord
  BY DEF CertTypeOK, HandlerRecord
<1>3. certHandler'[w] = [certHandler[w] EXCEPT !.pc = step]
  BY <1>1, CertMoves
<1>4. /\ certHandler'[w].pc = step
      /\ certHandler'[w].c = certHandler[w].c
      /\ certHandler'[w].job = certHandler[w].job
  BY <1>2, <1>3 DEF HandlerRecord
<1>5. QED
  BY <1>1, <1>4, CertMoves

LEMMA CertReturns ==
    ASSUME CertTypeOK, NEW w \in Workers, CertReturn(w)
    PROVE  /\ certHandler'[w].pc = "idle"
           /\ certHandler'[w].c = None
           /\ certHandler'[w].job = None
           /\ \A v \in Workers \ {w} : certHandler'[v] = certHandler[v]
<1>1. certHandler' = [certHandler EXCEPT ![w] = IdleCert]
  BY DEF CertReturn
<1>2. certHandler'[w] = IdleCert
  BY <1>1, CertMoves
<1>3. QED
  BY <1>1, <1>2, CertMoves DEF IdleCert

LEMMA CertStarts ==
    ASSUME CertTypeOK, NEW w \in Workers, NEW first, StartCert(w, first)
    PROVE  /\ certHandler[w].pc = "idle"
           /\ certHandler'[w] = first
           /\ \A v \in Workers \ {w} : certHandler'[v] = certHandler[v]
           /\ \/ certCrowded'
              \/ ~certCrowded /\ \A v \in Workers : certHandler[v].pc = "idle"
           /\ onDisk' = onDisk /\ revived' = revived /\ wiped' = wiped
           /\ skipped' = skipped /\ certCut' = certCut
<1>1. certCrowded' \/ (~certCrowded /\ \A v \in Workers : certHandler[v].pc = "idle")
  <2>1. CASE Busy(certHandler) = {}
    BY <2>1 DEF StartCert, Busy, CertTypeOK, disk
  <2>2. CASE Busy(certHandler) # {}
    BY <2>2 DEF StartCert, CertTypeOK, disk
  <2>3. QED
    BY <2>1, <2>2
<1>2. QED
  BY <1>1, CertMoves DEF StartCert, CertAt, At, disk

LEMMA CertJobsAdded ==
    ASSUME CertTypeOK, NEW kind, NEW c, AddCertJob(kind, c)
    PROVE  \E j \in Jobs :
              /\ certQueue[j].state = "none"
              /\ certQueue'[j].state = "waiting" /\ certQueue'[j].on = c
              /\ \A i \in Jobs \ {j} : certQueue'[i] = certQueue[i]
  BY DEF AddCertJob, Free, QueuedJob, CertTypeOK, disk

\* What a job's last update does, and what it does without the row.
Finished(w, status) ==
    /\ cert[On(w)].status \notin {"NONE", "GONE"}
    /\ cert'[On(w)].status = status
    /\ cert'[On(w)].provider = cert[On(w)].provider
    /\ \A c \in Certs \ {On(w)} : cert'[c] = cert[c]
    /\ revived' = (revived \/ cert[On(w)].status \in Closed)
    /\ certQueue' = [certQueue EXCEPT ![certHandler[w].job] = NoJob]
    /\ CertReturn(w)

Unfinished(w, otherwise) ==
    /\ cert' = cert /\ certQueue' = certQueue /\ revived' = revived
    /\ CertGoto(w, otherwise)

LEMMA JobFinishes ==
    ASSUME CertTypeOK, NEW w \in Workers, On(w) \in Certs, NEW row, NEW otherwise,
           FinishJob(w, row, otherwise), row.provider = cert[On(w)].provider
    PROVE  /\ \/ Finished(w, row.status) /\ cert'[On(w)].ordered = row.ordered
              \/ Unfinished(w, otherwise)
           /\ onDisk' = onDisk /\ wiped' = wiped
           /\ skipped' = skipped /\ certCut' = certCut
           /\ certCrowded' = certCrowded
<1>1. CASE Exists(On(w))
  <2>1. cert' = [cert EXCEPT ![On(w)] = row]
    BY <1>1 DEF FinishJob, disk
  <2>2. /\ cert'[On(w)] = row
        /\ \A c \in Certs \ {On(w)} : cert'[c] = cert[c]
    BY <2>1 DEF CertTypeOK
  <2>3. QED
    BY <1>1, <2>2 DEF FinishJob, Finished, Exists, disk
<1>2. CASE ~Exists(On(w))
  BY <1>2 DEF FinishJob, Unfinished, disk
<1>3. QED
  BY <1>1, <1>2

LEMMA CertQueueTypes ==
    /\ NoJob \in CertJob
    /\ \A job \in CertJob : AfterFailure(job) \in CertJob
<1>1. NoJob \in CertJob
  BY JobsAssumption DEF NoJob, CertJob
<1>2. ASSUME NEW job \in CertJob
      PROVE  AfterFailure(job) \in CertJob
  <2>1. CASE IsLastTry(job)
    BY <1>1, <2>1 DEF AfterFailure
  <2>2. CASE ~IsLastTry(job)
    <3>1. job.tries + 1 \in 0..(Attempts - 1)
      BY <2>2, JobsAssumption DEF IsLastTry, CertJob
    <3>2. AfterFailure(job) = [job EXCEPT !.state = "waiting", !.tries = job.tries + 1]
      BY <2>2 DEF AfterFailure
    <3>3. QED
      BY <3>1, <3>2 DEF CertJob
  <2>3. QED
    BY <2>1, <2>2
<1>3. QED
  BY <1>1, <1>2

LEMMA CertHandlerTypes ==
    ASSUME CertTypeOK, NEW w \in Workers
    PROVE  /\ \A step \in CertSteps : CertGoto(w, step) =>
                 certHandler' \in [Workers -> HandlerRecord]
           /\ CertReturn(w) => certHandler' \in [Workers -> HandlerRecord]
<1>1. ASSUME NEW step \in CertSteps, CertGoto(w, step)
      PROVE  certHandler' \in [Workers -> HandlerRecord]
  BY <1>1 DEF CertGoto, Goto, CertTypeOK, HandlerRecord
<1>2. ASSUME CertReturn(w)
      PROVE  certHandler' \in [Workers -> HandlerRecord]
  <2>1. IdleCert \in HandlerRecord
    BY DEF IdleCert, CertSteps, HandlerRecord
  <2>2. QED
    BY <1>2, <2>1 DEF CertReturn, CertTypeOK, HandlerRecord
<1>3. QED
  BY <1>1, <1>2

--------------------------------------------------------------------------------
\* What each action does, field by field.

LEMMA IssueCertificateEffect ==
    ASSUME CertTypeOK, NEW w \in Workers, NEW provider \in Provider, IssueCertificate(w,
        provider)
    PROVE  /\ certHandler[w].pc = "idle"
           /\ certHandler'[w].pc = "create"
           /\ certHandler'[w].c = None
           /\ certHandler'[w].job = None
           /\ \A v \in Workers \ {w} : certHandler'[v] = certHandler[v]
           /\ \/ certCrowded'
              \/ ~certCrowded /\ \A v \in Workers : certHandler[v].pc = "idle"
           /\ \A c \in Certs : cert[c].status \notin LiveCert
           /\ cert' = cert
           /\ certQueue' = certQueue
           /\ onDisk' = onDisk
           /\ revived' = revived
           /\ wiped' = wiped /\ skipped' = skipped
           /\ certCut' = certCut
<1>1. StartCert(w, [IdleCert EXCEPT !.pc = "create", !.provider = provider])
  BY DEF IssueCertificate, disk
<1>2. certHandler'[w] = [IdleCert EXCEPT !.pc = "create", !.provider = provider]
  BY <1>1, CertStarts
<1>3. /\ certHandler[w].pc = "idle"
      /\ certHandler'[w].pc = "create"
      /\ certHandler'[w].c = None
      /\ certHandler'[w].job = None
      /\ \A v \in Workers \ {w} : certHandler'[v] = certHandler[v]
      /\ \/ certCrowded'
         \/ ~certCrowded /\ \A v \in Workers : certHandler[v].pc = "idle"
  BY <1>1, <1>2, CertStarts DEF IdleCert
<1>4. /\ \A c \in Certs : cert[c].status \notin LiveCert
      /\ cert' = cert
      /\ certQueue' = certQueue
      /\ onDisk' = onDisk
      /\ revived' = revived
      /\ wiped' = wiped /\ skipped' = skipped
      /\ certCut' = certCut
  BY CertTypes DEF IssueCertificate, CertAt, At, StartCert, disk
<1>5. QED
  BY <1>3, <1>4

LEMMA RenewCertificateEffect ==
    ASSUME CertTypeOK, NEW w \in Workers, NEW c \in Certs, RenewCertificate(w, c)
    PROVE  /\ certHandler[w].pc = "idle"
           /\ certHandler'[w].pc = "queueRenewal"
           /\ certHandler'[w].c = c
           /\ certHandler'[w].job = None
           /\ \A v \in Workers \ {w} : certHandler'[v] = certHandler[v]
           /\ \/ certCrowded'
              \/ ~certCrowded /\ \A v \in Workers : certHandler[v].pc = "idle"
           /\ cert[c].status # "NONE"
           /\ cert' = cert
           /\ certQueue' = certQueue
           /\ onDisk' = onDisk
           /\ revived' = revived
           /\ wiped' = wiped /\ skipped' = skipped
           /\ certCut' = certCut
<1>1. StartCert(w, [IdleCert EXCEPT !.pc = "queueRenewal", !.c = c])
  BY DEF RenewCertificate, disk
<1>2. certHandler'[w] = [IdleCert EXCEPT !.pc = "queueRenewal", !.c = c]
  BY <1>1, CertStarts
<1>3. /\ certHandler[w].pc = "idle"
      /\ certHandler'[w].pc = "queueRenewal"
      /\ certHandler'[w].c = c
      /\ certHandler'[w].job = None
      /\ \A v \in Workers \ {w} : certHandler'[v] = certHandler[v]
      /\ \/ certCrowded'
         \/ ~certCrowded /\ \A v \in Workers : certHandler[v].pc = "idle"
  BY <1>1, <1>2, CertStarts DEF IdleCert
<1>4. /\ cert[c].status # "NONE"
      /\ cert' = cert
      /\ certQueue' = certQueue
      /\ onDisk' = onDisk
      /\ revived' = revived
      /\ wiped' = wiped /\ skipped' = skipped
      /\ certCut' = certCut
  BY CertTypes DEF RenewCertificate, CertAt, At, StartCert, Exists, disk
<1>5. QED
  BY <1>3, <1>4

LEMMA RevokeCertificateEffect ==
    ASSUME CertTypeOK, NEW w \in Workers, NEW c \in Certs, RevokeCertificate(w, c)
    PROVE  /\ certHandler[w].pc = "idle"
           /\ certHandler'[w].pc = "revoke"
           /\ certHandler'[w].c = c
           /\ certHandler'[w].job = None
           /\ \A v \in Workers \ {w} : certHandler'[v] = certHandler[v]
           /\ \/ certCrowded'
              \/ ~certCrowded /\ \A v \in Workers : certHandler[v].pc = "idle"
           /\ cert[c].status # "NONE"
           /\ cert' = cert
           /\ certQueue' = certQueue
           /\ onDisk' = onDisk
           /\ revived' = revived
           /\ wiped' = wiped /\ skipped' = skipped
           /\ certCut' = certCut
<1>1. StartCert(w, [IdleCert EXCEPT !.pc = "revoke", !.c = c])
  BY DEF RevokeCertificate, disk
<1>2. certHandler'[w] = [IdleCert EXCEPT !.pc = "revoke", !.c = c]
  BY <1>1, CertStarts
<1>3. /\ certHandler[w].pc = "idle"
      /\ certHandler'[w].pc = "revoke"
      /\ certHandler'[w].c = c
      /\ certHandler'[w].job = None
      /\ \A v \in Workers \ {w} : certHandler'[v] = certHandler[v]
      /\ \/ certCrowded'
         \/ ~certCrowded /\ \A v \in Workers : certHandler[v].pc = "idle"
  BY <1>1, <1>2, CertStarts DEF IdleCert
<1>4. /\ cert[c].status # "NONE"
      /\ cert' = cert
      /\ certQueue' = certQueue
      /\ onDisk' = onDisk
      /\ revived' = revived
      /\ wiped' = wiped /\ skipped' = skipped
      /\ certCut' = certCut
  BY CertTypes DEF RevokeCertificate, CertAt, At, StartCert, Exists, disk
<1>5. QED
  BY <1>3, <1>4

LEMMA DeleteCertificateEffect ==
    ASSUME CertTypeOK, NEW w \in Workers, NEW c \in Certs, DeleteCertificate(w, c)
    PROVE  /\ certHandler[w].pc = "idle"
           /\ certHandler'[w].pc = "unlink"
           /\ certHandler'[w].c = c
           /\ certHandler'[w].job = None
           /\ \A v \in Workers \ {w} : certHandler'[v] = certHandler[v]
           /\ \/ certCrowded'
              \/ ~certCrowded /\ \A v \in Workers : certHandler[v].pc = "idle"
           /\ cert[c].status # "NONE"
           /\ cert' = cert
           /\ certQueue' = certQueue
           /\ onDisk' = onDisk
           /\ revived' = revived
           /\ wiped' = wiped /\ skipped' = skipped
           /\ certCut' = certCut
<1>1. StartCert(w, [IdleCert EXCEPT !.pc = "unlink", !.c = c])
  BY DEF DeleteCertificate, disk
<1>2. certHandler'[w] = [IdleCert EXCEPT !.pc = "unlink", !.c = c]
  BY <1>1, CertStarts
<1>3. /\ certHandler[w].pc = "idle"
      /\ certHandler'[w].pc = "unlink"
      /\ certHandler'[w].c = c
      /\ certHandler'[w].job = None
      /\ \A v \in Workers \ {w} : certHandler'[v] = certHandler[v]
      /\ \/ certCrowded'
         \/ ~certCrowded /\ \A v \in Workers : certHandler[v].pc = "idle"
  BY <1>1, <1>2, CertStarts DEF IdleCert
<1>4. /\ cert[c].status # "NONE"
      /\ cert' = cert
      /\ certQueue' = certQueue
      /\ onDisk' = onDisk
      /\ revived' = revived
      /\ wiped' = wiped /\ skipped' = skipped
      /\ certCut' = certCut
  BY CertTypes DEF DeleteCertificate, CertAt, At, StartCert, Exists, disk
<1>5. QED
  BY <1>3, <1>4

LEMMA TakeIssueEffect ==
    ASSUME CertTypeOK, NEW w \in Workers, NEW j \in Jobs, TakeIssue(w, j)
    PROVE  /\ certHandler[w].pc = "idle"
           /\ certHandler'[w].pc \in {"acme", "order", "cancel"}
           /\ certHandler'[w].pc = "order" => cert[certQueue[j].on].provider # "LETS_ENCRYPT"
           /\ certHandler'[w].c = certQueue[j].on
           /\ certHandler'[w].job = j
           /\ \A v \in Workers \ {w} : certHandler'[v] = certHandler[v]
           /\ \/ certCrowded'
              \/ ~certCrowded /\ \A v \in Workers : certHandler[v].pc = "idle"
           /\ certQueue[j].state = "waiting"
           /\ certQueue'[j].state = "active"
           /\ certQueue'[j].on = certQueue[j].on
           /\ \A i \in Jobs \ {j} : certQueue'[i] = certQueue[i]
           /\ cert' = cert
           /\ onDisk' = onDisk
           /\ revived' = revived
           /\ wiped' = wiped /\ skipped' = skipped
           /\ certCut' = certCut
<1>1. StartCert(w, [pc |-> IF cert[certQueue[j].on].provider = "LETS_ENCRYPT" THEN "acme"
                             ELSE IF Exists(certQueue[j].on) THEN "order" ELSE "cancel",
                      c |-> certQueue[j].on, provider |-> None, job |-> j])
  BY DEF TakeIssue, disk
<1>2. certHandler'[w] = [pc |-> IF cert[certQueue[j].on].provider = "LETS_ENCRYPT" THEN "acme"
                             ELSE IF Exists(certQueue[j].on) THEN "order" ELSE "cancel",
                      c |-> certQueue[j].on, provider |-> None, job |-> j]
  BY <1>1, CertStarts
<1>3. /\ certHandler[w].pc = "idle"
      /\ certHandler'[w].pc \in {"acme", "order", "cancel"}
      /\ certHandler'[w].pc = "order" => cert[certQueue[j].on].provider # "LETS_ENCRYPT"
      /\ certHandler'[w].c = certQueue[j].on
      /\ certHandler'[w].job = j
      /\ \A v \in Workers \ {w} : certHandler'[v] = certHandler[v]
      /\ \/ certCrowded'
         \/ ~certCrowded /\ \A v \in Workers : certHandler[v].pc = "idle"
  BY <1>1, <1>2, CertStarts DEF IdleCert
<1>4. /\ certQueue[j].state = "waiting"
      /\ certQueue'[j].state = "active"
      /\ certQueue'[j].on = certQueue[j].on
      /\ \A i \in Jobs \ {j} : certQueue'[i] = certQueue[i]
      /\ cert' = cert
      /\ onDisk' = onDisk
      /\ revived' = revived
      /\ wiped' = wiped /\ skipped' = skipped
      /\ certCut' = certCut
  BY CertTypes DEF TakeIssue, CertAt, At, StartCert, CertTypeOK, CertJob, disk
<1>5. QED
  BY <1>3, <1>4

LEMMA TakeRenewalEffect ==
    ASSUME CertTypeOK, NEW w \in Workers, NEW j \in Jobs, TakeRenewal(w, j)
    PROVE  /\ certHandler[w].pc = "idle"
           /\ certHandler'[w].pc = "renew"
           /\ certHandler'[w].c = certQueue[j].on
           /\ certHandler'[w].job = j
           /\ \A v \in Workers \ {w} : certHandler'[v] = certHandler[v]
           /\ \/ certCrowded'
              \/ ~certCrowded /\ \A v \in Workers : certHandler[v].pc = "idle"
           /\ certQueue[j].state = "waiting"
           /\ certQueue'[j].state = "active"
           /\ certQueue'[j].on = certQueue[j].on
           /\ \A i \in Jobs \ {j} : certQueue'[i] = certQueue[i]
           /\ cert' = cert
           /\ onDisk' = onDisk
           /\ revived' = revived
           /\ wiped' = wiped /\ skipped' = skipped
           /\ certCut' = certCut
<1>1. StartCert(w, [IdleCert EXCEPT !.pc = "renew", !.c = certQueue[j].on, !.job = j])
  BY DEF TakeRenewal, disk
<1>2. certHandler'[w] = [IdleCert EXCEPT !.pc = "renew", !.c = certQueue[j].on, !.job = j]
  BY <1>1, CertStarts
<1>3. /\ certHandler[w].pc = "idle"
      /\ certHandler'[w].pc = "renew"
      /\ certHandler'[w].c = certQueue[j].on
      /\ certHandler'[w].job = j
      /\ \A v \in Workers \ {w} : certHandler'[v] = certHandler[v]
      /\ \/ certCrowded'
         \/ ~certCrowded /\ \A v \in Workers : certHandler[v].pc = "idle"
  BY <1>1, <1>2, CertStarts DEF IdleCert
<1>4. /\ certQueue[j].state = "waiting"
      /\ certQueue'[j].state = "active"
      /\ certQueue'[j].on = certQueue[j].on
      /\ \A i \in Jobs \ {j} : certQueue'[i] = certQueue[i]
      /\ cert' = cert
      /\ onDisk' = onDisk
      /\ revived' = revived
      /\ wiped' = wiped /\ skipped' = skipped
      /\ certCut' = certCut
  BY CertTypes DEF TakeRenewal, CertAt, At, StartCert, CertTypeOK, CertJob, disk
<1>5. QED
  BY <1>3, <1>4

LEMMA CreateCertEffect ==
    ASSUME CertTypeOK, NEW w \in Workers, CreateCert(w)
    PROVE  /\ certHandler[w].pc = "create"
           /\ certHandler'[w].job = certHandler[w].job
           /\ \A v \in Workers \ {w} : certHandler'[v] = certHandler[v]
           /\ onDisk' = onDisk
           /\ certQueue' = certQueue
           /\ revived' = revived
           /\ wiped' = wiped /\ skipped' = skipped
           /\ certCut' = certCut
           /\ certCrowded' = certCrowded
           /\ \E c \in Certs :
                 /\ cert[c].status = "NONE"
                 /\ cert'[c].status = "PENDING_ISSUANCE" /\ cert'[c].ordered = FALSE
                 /\ \A d \in Certs \ {c} : cert'[d] = cert[d]
                 /\ certHandler'[w].pc = "queue" /\ certHandler'[w].c = c
<1>1. /\ \E c \in Certs :
            /\ cert[c].status = "NONE"
            /\ cert'[c].status = "PENDING_ISSUANCE" /\ cert'[c].ordered = FALSE
            /\ \A d \in Certs \ {c} : cert'[d] = cert[d]
            /\ certHandler'[w].pc = "queue" /\ certHandler'[w].c = c
  BY CertTypes DEF CreateCert, Fresh, CertTypeOK, CertRow, disk
<1>2. /\ certHandler[w].pc = "create"
      /\ certHandler'[w].job = certHandler[w].job
      /\ \A v \in Workers \ {w} : certHandler'[v] = certHandler[v]
      /\ onDisk' = onDisk
      /\ certQueue' = certQueue
      /\ revived' = revived
      /\ wiped' = wiped /\ skipped' = skipped
      /\ certCut' = certCut
      /\ certCrowded' = certCrowded
  BY CertTypes DEF CreateCert, CertAt, At, disk, certHistories, CertTypeOK
<1>3. QED
  BY <1>1, <1>2

LEMMA QueueIssueEffect ==
    ASSUME CertTypeOK, NEW w \in Workers, QueueIssue(w)
    PROVE  /\ certHandler'[w].pc = "idle"
           /\ certHandler'[w].c = None
           /\ certHandler'[w].job = None
           /\ \A v \in Workers \ {w} : certHandler'[v] = certHandler[v]
           /\ certHandler[w].pc = "queue"
           /\ cert' = cert
           /\ onDisk' = onDisk
           /\ revived' = revived
           /\ wiped' = wiped /\ skipped' = skipped
           /\ certCut' = certCut
           /\ certCrowded' = certCrowded
           /\ \E j \in Jobs :
                 /\ certQueue[j].state = "none"
                 /\ certQueue'[j].state = "waiting" /\ certQueue'[j].on = On(w)
                 /\ \A i \in Jobs \ {j} : certQueue'[i] = certQueue[i]
<1>1. /\ certHandler'[w].pc = "idle"
      /\ certHandler'[w].c = None
      /\ certHandler'[w].job = None
      /\ \A v \in Workers \ {w} : certHandler'[v] = certHandler[v]
  BY CertReturns DEF QueueIssue
<1>2. /\ \E j \in Jobs :
            /\ certQueue[j].state = "none"
            /\ certQueue'[j].state = "waiting" /\ certQueue'[j].on = On(w)
            /\ \A i \in Jobs \ {j} : certQueue'[i] = certQueue[i]
  BY CertJobsAdded DEF QueueIssue, disk
<1>3. /\ certHandler[w].pc = "queue"
      /\ cert' = cert
      /\ onDisk' = onDisk
      /\ revived' = revived
      /\ wiped' = wiped /\ skipped' = skipped
      /\ certCut' = certCut
      /\ certCrowded' = certCrowded
  BY DEF QueueIssue, CertAt, At, AddCertJob, disk, certHistories
<1>4. QED
  BY <1>1, <1>2, <1>3

LEMMA QueueRenewalEffect ==
    ASSUME CertTypeOK, NEW w \in Workers, QueueRenewal(w)
    PROVE  /\ certHandler'[w].pc = "idle"
           /\ certHandler'[w].c = None
           /\ certHandler'[w].job = None
           /\ \A v \in Workers \ {w} : certHandler'[v] = certHandler[v]
           /\ certHandler[w].pc = "queueRenewal"
           /\ cert' = cert
           /\ onDisk' = onDisk
           /\ revived' = revived
           /\ wiped' = wiped /\ skipped' = skipped
           /\ certCut' = certCut
           /\ certCrowded' = certCrowded
           /\ \E j \in Jobs :
                 /\ certQueue[j].state = "none"
                 /\ certQueue'[j].state = "waiting" /\ certQueue'[j].on = On(w)
                 /\ \A i \in Jobs \ {j} : certQueue'[i] = certQueue[i]
<1>1. /\ certHandler'[w].pc = "idle"
      /\ certHandler'[w].c = None
      /\ certHandler'[w].job = None
      /\ \A v \in Workers \ {w} : certHandler'[v] = certHandler[v]
  BY CertReturns DEF QueueRenewal
<1>2. /\ \E j \in Jobs :
            /\ certQueue[j].state = "none"
            /\ certQueue'[j].state = "waiting" /\ certQueue'[j].on = On(w)
            /\ \A i \in Jobs \ {j} : certQueue'[i] = certQueue[i]
  BY CertJobsAdded DEF QueueRenewal, disk
<1>3. /\ certHandler[w].pc = "queueRenewal"
      /\ cert' = cert
      /\ onDisk' = onDisk
      /\ revived' = revived
      /\ wiped' = wiped /\ skipped' = skipped
      /\ certCut' = certCut
      /\ certCrowded' = certCrowded
  BY DEF QueueRenewal, CertAt, At, AddCertJob, disk, certHistories
<1>4. QED
  BY <1>1, <1>2, <1>3

LEMMA RevokeAtAcmeEffect ==
    ASSUME CertTypeOK, NEW w \in Workers, RevokeAtAcme(w)
    PROVE  /\ certHandler'[w].pc = "markRevoked"
           /\ certHandler'[w].c = certHandler[w].c
           /\ certHandler'[w].job = certHandler[w].job
           /\ \A v \in Workers \ {w} : certHandler'[v] = certHandler[v]
           /\ certHandler[w].pc = "revoke"
           /\ wiped => wiped'
           /\ skipped' = skipped
           /\ cert' = cert
           /\ certQueue' = certQueue
           /\ revived' = revived
           /\ certCut' = certCut
           /\ certCrowded' = certCrowded
           /\ \/ onDisk' = onDisk
              \/ wiped'
              \/ /\ \A v \in Workers \ {w} : certHandler[v].pc = "idle"
                 /\ \A c \in Certs \ {On(w)} : cert[c].status \in {"NONE", "GONE"}
<1>1. /\ certHandler'[w].pc = "markRevoked"
      /\ certHandler'[w].c = certHandler[w].c
      /\ certHandler'[w].job = certHandler[w].job
      /\ \A v \in Workers \ {w} : certHandler'[v] = certHandler[v]
  BY CertGoes DEF RevokeAtAcme
<1>2. /\ \/ onDisk' = onDisk
         \/ wiped'
         \/ /\ \A v \in Workers \ {w} : certHandler[v].pc = "idle"
            /\ \A c \in Certs \ {On(w)} : cert[c].status \in {"NONE", "GONE"}
  BY CertTypes DEF RevokeAtAcme, RemoveFiles, Busy, Exists, disk
<1>3. /\ certHandler[w].pc = "revoke"
      /\ wiped => wiped'
      /\ skipped' = skipped
      /\ cert' = cert
      /\ certQueue' = certQueue
      /\ revived' = revived
      /\ certCut' = certCut
      /\ certCrowded' = certCrowded
  BY CertTypes DEF RevokeAtAcme, CertAt, At, RemoveFiles, Busy, Exists, disk
<1>4. QED
  BY <1>1, <1>2, <1>3

LEMMA UnlinkFilesEffect ==
    ASSUME CertTypeOK, NEW w \in Workers, UnlinkFiles(w)
    PROVE  /\ certHandler'[w].pc = "remove"
           /\ certHandler'[w].c = certHandler[w].c
           /\ certHandler'[w].job = certHandler[w].job
           /\ \A v \in Workers \ {w} : certHandler'[v] = certHandler[v]
           /\ certHandler[w].pc = "unlink"
           /\ wiped => wiped'
           /\ skipped' = skipped
           /\ cert' = cert
           /\ certQueue' = certQueue
           /\ revived' = revived
           /\ certCut' = certCut
           /\ certCrowded' = certCrowded
           /\ \/ wiped'
              \/ /\ \A v \in Workers \ {w} : certHandler[v].pc = "idle"
                 /\ \A c \in Certs \ {On(w)} : cert[c].status \in {"NONE", "GONE"}
<1>1. /\ certHandler'[w].pc = "remove"
      /\ certHandler'[w].c = certHandler[w].c
      /\ certHandler'[w].job = certHandler[w].job
      /\ \A v \in Workers \ {w} : certHandler'[v] = certHandler[v]
  BY CertGoes DEF UnlinkFiles
<1>2. /\ \/ wiped'
         \/ /\ \A v \in Workers \ {w} : certHandler[v].pc = "idle"
            /\ \A c \in Certs \ {On(w)} : cert[c].status \in {"NONE", "GONE"}
  BY CertTypes DEF UnlinkFiles, RemoveFiles, Busy, Exists, disk
<1>3. /\ certHandler[w].pc = "unlink"
      /\ wiped => wiped'
      /\ skipped' = skipped
      /\ cert' = cert
      /\ certQueue' = certQueue
      /\ revived' = revived
      /\ certCut' = certCut
      /\ certCrowded' = certCrowded
  BY CertTypes DEF UnlinkFiles, CertAt, At, RemoveFiles, Busy, Exists, disk
<1>4. QED
  BY <1>1, <1>2, <1>3

LEMMA MarkRevokedEffect ==
    ASSUME CertTypeOK, NEW w \in Workers, MarkRevoked(w), On(w) \in Certs
    PROVE  /\ certHandler'[w].pc = "idle"
           /\ certHandler'[w].c = None
           /\ certHandler'[w].job = None
           /\ \A v \in Workers \ {w} : certHandler'[v] = certHandler[v]
           /\ certHandler[w].pc = "markRevoked"
           /\ \/ cert' = cert /\ cert[On(w)].status \in {"NONE", "GONE"}
              \/ /\ cert'[On(w)].status = "REVOKED"
                 /\ cert'[On(w)].provider = cert[On(w)].provider
                 /\ cert'[On(w)].ordered = cert[On(w)].ordered
           /\ \A c \in Certs \ {On(w)} : cert'[c] = cert[c]
           /\ onDisk' = onDisk
           /\ certQueue' = certQueue
           /\ revived' = revived
           /\ wiped' = wiped /\ skipped' = skipped
           /\ certCut' = certCut
           /\ certCrowded' = certCrowded
<1>1. /\ certHandler'[w].pc = "idle"
      /\ certHandler'[w].c = None
      /\ certHandler'[w].job = None
      /\ \A v \in Workers \ {w} : certHandler'[v] = certHandler[v]
  BY CertReturns DEF MarkRevoked
<1>2. /\ certHandler[w].pc = "markRevoked"
      /\ \/ cert' = cert /\ cert[On(w)].status \in {"NONE", "GONE"}
         \/ /\ cert'[On(w)].status = "REVOKED"
            /\ cert'[On(w)].provider = cert[On(w)].provider
            /\ cert'[On(w)].ordered = cert[On(w)].ordered
      /\ \A c \in Certs \ {On(w)} : cert'[c] = cert[c]
      /\ onDisk' = onDisk
      /\ certQueue' = certQueue
      /\ revived' = revived
      /\ wiped' = wiped /\ skipped' = skipped
      /\ certCut' = certCut
      /\ certCrowded' = certCrowded
  BY CertTypes DEF MarkRevoked, CertAt, At, Exists, CertTypeOK, disk, certHistories
<1>3. QED
  BY <1>1, <1>2

LEMMA RemoveCertEffect ==
    ASSUME CertTypeOK, NEW w \in Workers, RemoveCert(w), On(w) \in Certs
    PROVE  /\ certHandler'[w].pc = "idle"
           /\ certHandler'[w].c = None
           /\ certHandler'[w].job = None
           /\ \A v \in Workers \ {w} : certHandler'[v] = certHandler[v]
           /\ certHandler[w].pc = "remove"
           /\ cert'[On(w)].status = "GONE"
           /\ cert'[On(w)].provider = cert[On(w)].provider
           /\ cert'[On(w)].ordered = cert[On(w)].ordered
           /\ \A c \in Certs \ {On(w)} : cert'[c] = cert[c]
           /\ onDisk' = onDisk
           /\ certQueue' = certQueue
           /\ revived' = revived
           /\ wiped' = wiped /\ skipped' = skipped
           /\ certCut' = certCut
           /\ certCrowded' = certCrowded
<1>1. /\ certHandler'[w].pc = "idle"
      /\ certHandler'[w].c = None
      /\ certHandler'[w].job = None
      /\ \A v \in Workers \ {w} : certHandler'[v] = certHandler[v]
  BY CertReturns DEF RemoveCert
<1>2. /\ certHandler[w].pc = "remove"
      /\ cert'[On(w)].status = "GONE"
      /\ cert'[On(w)].provider = cert[On(w)].provider
      /\ cert'[On(w)].ordered = cert[On(w)].ordered
      /\ \A c \in Certs \ {On(w)} : cert'[c] = cert[c]
      /\ onDisk' = onDisk
      /\ certQueue' = certQueue
      /\ revived' = revived
      /\ wiped' = wiped /\ skipped' = skipped
      /\ certCut' = certCut
      /\ certCrowded' = certCrowded
  BY CertTypes DEF RemoveCert, CertAt, At, CertTypeOK, disk, certHistories
<1>3. QED
  BY <1>1, <1>2

LEMMA AcmeIssueEffect ==
    ASSUME CertTypeOK, NEW w \in Workers, AcmeIssue(w)
    PROVE  /\ certHandler'[w].pc = "activate"
           /\ certHandler'[w].c = certHandler[w].c
           /\ certHandler'[w].job = certHandler[w].job
           /\ \A v \in Workers \ {w} : certHandler'[v] = certHandler[v]
           /\ certHandler[w].pc = "acme"
           /\ onDisk'
           /\ cert' = cert
           /\ certQueue' = certQueue
           /\ revived' = revived
           /\ wiped' = wiped
           /\ certCut' = certCut
           /\ certCrowded' = certCrowded
<1>1. /\ certHandler'[w].pc = "activate"
      /\ certHandler'[w].c = certHandler[w].c
      /\ certHandler'[w].job = certHandler[w].job
      /\ \A v \in Workers \ {w} : certHandler'[v] = certHandler[v]
  BY CertGoes DEF AcmeIssue
<1>2. /\ certHandler[w].pc = "acme"
      /\ onDisk'
      /\ cert' = cert
      /\ certQueue' = certQueue
      /\ revived' = revived
      /\ wiped' = wiped
      /\ certCut' = certCut
      /\ certCrowded' = certCrowded
  BY DEF AcmeIssue, CertAt, At, disk
<1>3. QED
  BY <1>1, <1>2

LEMMA AcmeSkipsEffect ==
    ASSUME CertTypeOK, NEW w \in Workers, AcmeSkips(w)
    PROVE  /\ certHandler'[w].pc = "activate"
           /\ certHandler'[w].c = certHandler[w].c
           /\ certHandler'[w].job = certHandler[w].job
           /\ \A v \in Workers \ {w} : certHandler'[v] = certHandler[v]
           /\ certHandler[w].pc = "acme"
           /\ onDisk' = onDisk
           /\ skipped => skipped'
           /\ onDisk \/ skipped'
           /\ cert' = cert
           /\ certQueue' = certQueue
           /\ revived' = revived
           /\ wiped' = wiped
           /\ certCut' = certCut
           /\ certCrowded' = certCrowded
<1>1. /\ certHandler'[w].pc = "activate"
      /\ certHandler'[w].c = certHandler[w].c
      /\ certHandler'[w].job = certHandler[w].job
      /\ \A v \in Workers \ {w} : certHandler'[v] = certHandler[v]
  BY CertGoes DEF AcmeSkips
<1>2. /\ certHandler[w].pc = "acme"
      /\ onDisk' = onDisk
      /\ skipped => skipped'
      /\ onDisk \/ skipped'
      /\ cert' = cert
      /\ certQueue' = certQueue
      /\ revived' = revived
      /\ wiped' = wiped
      /\ certCut' = certCut
      /\ certCrowded' = certCrowded
  BY DEF AcmeSkips, CertAt, At, disk
<1>3. QED
  BY <1>1, <1>2

LEMMA IssueFailsEffect ==
    ASSUME CertTypeOK, NEW w \in Workers, IssueFails(w)
    PROVE  /\ certHandler'[w].pc = "cancel"
           /\ certHandler'[w].c = certHandler[w].c
           /\ certHandler'[w].job = certHandler[w].job
           /\ \A v \in Workers \ {w} : certHandler'[v] = certHandler[v]
           /\ certHandler[w].pc \in {"acme", "order"}
           /\ cert' = cert
           /\ onDisk' = onDisk
           /\ certQueue' = certQueue
           /\ revived' = revived
           /\ wiped' = wiped /\ skipped' = skipped
           /\ certCut' = certCut
           /\ certCrowded' = certCrowded
<1>1. /\ certHandler'[w].pc = "cancel"
      /\ certHandler'[w].c = certHandler[w].c
      /\ certHandler'[w].job = certHandler[w].job
      /\ \A v \in Workers \ {w} : certHandler'[v] = certHandler[v]
  BY CertGoes DEF IssueFails
<1>2. /\ certHandler[w].pc \in {"acme", "order"}
      /\ cert' = cert
      /\ onDisk' = onDisk
      /\ certQueue' = certQueue
      /\ revived' = revived
      /\ wiped' = wiped /\ skipped' = skipped
      /\ certCut' = certCut
      /\ certCrowded' = certCrowded
  BY DEF IssueFails, CertAt, At, CertPasses, disk, certHistories
<1>3. QED
  BY <1>1, <1>2

LEMMA CertNotSavedEffect ==
    ASSUME CertTypeOK, NEW w \in Workers, CertNotSaved(w)
    PROVE  /\ certHandler'[w].pc = "cancel"
           /\ certHandler'[w].c = certHandler[w].c
           /\ certHandler'[w].job = certHandler[w].job
           /\ \A v \in Workers \ {w} : certHandler'[v] = certHandler[v]
           /\ certHandler[w].pc \in {"activate", "order"}
           /\ cert' = cert
           /\ onDisk' = onDisk
           /\ certQueue' = certQueue
           /\ revived' = revived
           /\ wiped' = wiped /\ skipped' = skipped
           /\ certCut' = certCut
           /\ certCrowded' = certCrowded
<1>1. /\ certHandler'[w].pc = "cancel"
      /\ certHandler'[w].c = certHandler[w].c
      /\ certHandler'[w].job = certHandler[w].job
      /\ \A v \in Workers \ {w} : certHandler'[v] = certHandler[v]
  BY CertGoes DEF CertNotSaved
<1>2. /\ certHandler[w].pc \in {"activate", "order"}
      /\ cert' = cert
      /\ onDisk' = onDisk
      /\ certQueue' = certQueue
      /\ revived' = revived
      /\ wiped' = wiped /\ skipped' = skipped
      /\ certCut' = certCut
      /\ certCrowded' = certCrowded
  BY DEF CertNotSaved, CertAt, At, disk
<1>3. QED
  BY <1>1, <1>2

LEMMA ActivateCertEffect ==
    ASSUME CertTypeOK, NEW w \in Workers, ActivateCert(w), On(w) \in Certs
    PROVE  /\ certHandler[w].pc = "activate"
           /\ \/ Finished(w, "ACTIVE") /\ cert'[On(w)].ordered = cert[On(w)].ordered
              \/ Unfinished(w, "cancel")
           /\ onDisk' = onDisk
           /\ wiped' = wiped /\ skipped' = skipped
           /\ certCut' = certCut
           /\ certCrowded' = certCrowded
<1>1. cert[On(w)] \in CertRow
  BY CertTypes
<1>2. FinishJob(w, [cert[On(w)] EXCEPT !.status = "ACTIVE"], "cancel")
  BY DEF ActivateCert, disk
<1>3. PICK row : row = [cert[On(w)] EXCEPT !.status = "ACTIVE"]
  OBVIOUS
<1>4. /\ row.status = "ACTIVE" /\ row.provider = cert[On(w)].provider
      /\ row.ordered = cert[On(w)].ordered
  BY <1>1, <1>3 DEF CertRow
<1>5. FinishJob(w, row, "cancel")
  BY <1>2, <1>3
<1>6. /\ \/ Finished(w, "ACTIVE") /\ cert'[On(w)].ordered = cert[On(w)].ordered
         \/ Unfinished(w, "cancel")
      /\ onDisk' = onDisk
      /\ wiped' = wiped /\ skipped' = skipped
      /\ certCut' = certCut
      /\ certCrowded' = certCrowded
  BY <1>4, <1>5, JobFinishes
<1>7. /\ certHandler[w].pc = "activate"
  BY DEF ActivateCert, CertAt, At, disk
<1>8. QED
  BY <1>6, <1>7

LEMMA SaveCertOrderEffect ==
    ASSUME CertTypeOK, NEW w \in Workers, SaveCertOrder(w), On(w) \in Certs
    PROVE  /\ certHandler[w].pc = "order"
           /\ \/ Finished(w, "PENDING_VALIDATION")
              \/ Unfinished(w, "cancel")
           /\ onDisk' = onDisk
           /\ wiped' = wiped /\ skipped' = skipped
           /\ certCut' = certCut
           /\ certCrowded' = certCrowded
<1>1. cert[On(w)] \in CertRow
  BY CertTypes
<1>2. FinishJob(w, [cert[On(w)] EXCEPT !.status = "PENDING_VALIDATION",
          !.ordered = TRUE], "cancel")
  BY DEF SaveCertOrder, disk
<1>3. PICK row : row = [cert[On(w)] EXCEPT !.status = "PENDING_VALIDATION",
          !.ordered = TRUE]
  OBVIOUS
<1>4. /\ row.status = "PENDING_VALIDATION" /\ row.provider = cert[On(w)].provider
      /\ row.ordered = TRUE
  BY <1>1, <1>3 DEF CertRow
<1>5. FinishJob(w, row, "cancel")
  BY <1>2, <1>3
<1>6. /\ \/ Finished(w, "PENDING_VALIDATION")
         \/ Unfinished(w, "cancel")
      /\ onDisk' = onDisk
      /\ wiped' = wiped /\ skipped' = skipped
      /\ certCut' = certCut
      /\ certCrowded' = certCrowded
  BY <1>4, <1>5, JobFinishes
<1>7. /\ certHandler[w].pc = "order"
  BY DEF SaveCertOrder, CertAt, At, disk
<1>8. QED
  BY <1>6, <1>7

LEMMA SaveCertRenewalEffect ==
    ASSUME CertTypeOK, NEW w \in Workers, SaveCertRenewal(w), On(w) \in Certs
    PROVE  /\ certHandler[w].pc = "saveRenewal"
           /\ \/ Finished(w, "ACTIVE") /\ cert'[On(w)].ordered = cert[On(w)].ordered
              \/ Unfinished(w, "retry")
           /\ onDisk' = onDisk
           /\ wiped' = wiped /\ skipped' = skipped
           /\ certCut' = certCut
           /\ certCrowded' = certCrowded
<1>1. cert[On(w)] \in CertRow
  BY CertTypes
<1>2. FinishJob(w, [cert[On(w)] EXCEPT !.status = "ACTIVE"], "retry")
  BY DEF SaveCertRenewal, disk
<1>3. PICK row : row = [cert[On(w)] EXCEPT !.status = "ACTIVE"]
  OBVIOUS
<1>4. /\ row.status = "ACTIVE" /\ row.provider = cert[On(w)].provider
      /\ row.ordered = cert[On(w)].ordered
  BY <1>1, <1>3 DEF CertRow
<1>5. FinishJob(w, row, "retry")
  BY <1>2, <1>3
<1>6. /\ \/ Finished(w, "ACTIVE") /\ cert'[On(w)].ordered = cert[On(w)].ordered
         \/ Unfinished(w, "retry")
      /\ onDisk' = onDisk
      /\ wiped' = wiped /\ skipped' = skipped
      /\ certCut' = certCut
      /\ certCrowded' = certCrowded
  BY <1>4, <1>5, JobFinishes
<1>7. /\ certHandler[w].pc = "saveRenewal"
  BY DEF SaveCertRenewal, CertAt, At, disk
<1>8. QED
  BY <1>6, <1>7

LEMMA CancelCertEffect ==
    ASSUME CertTypeOK, NEW w \in Workers, CancelCert(w), On(w) \in Certs
    PROVE  /\ certHandler'[w].pc = "retry"
           /\ certHandler'[w].c = certHandler[w].c
           /\ certHandler'[w].job = certHandler[w].job
           /\ \A v \in Workers \ {w} : certHandler'[v] = certHandler[v]
           /\ certHandler[w].pc = "cancel"
           /\ \/ cert' = cert
              \/ /\ cert'[On(w)].status = "CANCELLED"
                 /\ cert'[On(w)].provider = cert[On(w)].provider
                 /\ cert'[On(w)].ordered = cert[On(w)].ordered
           /\ \A c \in Certs \ {On(w)} : cert'[c] = cert[c]
           /\ onDisk' = onDisk
           /\ certQueue' = certQueue
           /\ revived' = revived
           /\ wiped' = wiped /\ skipped' = skipped
           /\ certCut' = certCut
           /\ certCrowded' = certCrowded
<1>1. /\ certHandler'[w].pc = "retry"
      /\ certHandler'[w].c = certHandler[w].c
      /\ certHandler'[w].job = certHandler[w].job
      /\ \A v \in Workers \ {w} : certHandler'[v] = certHandler[v]
  BY CertGoes DEF CancelCert
<1>2. /\ certHandler[w].pc = "cancel"
      /\ \/ cert' = cert
         \/ /\ cert'[On(w)].status = "CANCELLED"
            /\ cert'[On(w)].provider = cert[On(w)].provider
            /\ cert'[On(w)].ordered = cert[On(w)].ordered
      /\ \A c \in Certs \ {On(w)} : cert'[c] = cert[c]
      /\ onDisk' = onDisk
      /\ certQueue' = certQueue
      /\ revived' = revived
      /\ wiped' = wiped /\ skipped' = skipped
      /\ certCut' = certCut
      /\ certCrowded' = certCrowded
  BY CertTypes DEF CancelCert, CertAt, At, Exists, CertTypeOK, disk, certHistories
<1>3. QED
  BY <1>1, <1>2

LEMMA RetryCertJobEffect ==
    ASSUME CertTypeOK, NEW w \in Workers, RetryCertJob(w)
    PROVE  /\ certHandler'[w].pc = "idle"
           /\ certHandler'[w].c = None
           /\ certHandler'[w].job = None
           /\ \A v \in Workers \ {w} : certHandler'[v] = certHandler[v]
           /\ certHandler[w].pc = "retry"
           /\ certHandler[w].job \in Jobs =>
                  \/ certQueue'[certHandler[w].job].state = "none"
                  \/ certQueue'[certHandler[w].job].on = certQueue[certHandler[w].job].on
           /\ \A i \in Jobs \ {certHandler[w].job} : certQueue'[i] = certQueue[i]
           /\ cert' = cert
           /\ onDisk' = onDisk
           /\ revived' = revived
           /\ wiped' = wiped /\ skipped' = skipped
           /\ certCut' = certCut
           /\ certCrowded' = certCrowded
<1>1. /\ certHandler'[w].pc = "idle"
      /\ certHandler'[w].c = None
      /\ certHandler'[w].job = None
      /\ \A v \in Workers \ {w} : certHandler'[v] = certHandler[v]
  BY CertReturns DEF RetryCertJob
<1>2. /\ certHandler[w].pc = "retry"
      /\ certHandler[w].job \in Jobs =>
             \/ certQueue'[certHandler[w].job].state = "none"
             \/ certQueue'[certHandler[w].job].on = certQueue[certHandler[w].job].on
      /\ \A i \in Jobs \ {certHandler[w].job} : certQueue'[i] = certQueue[i]
      /\ cert' = cert
      /\ onDisk' = onDisk
      /\ revived' = revived
      /\ wiped' = wiped /\ skipped' = skipped
      /\ certCut' = certCut
      /\ certCrowded' = certCrowded
  BY CertTypes DEF RetryCertJob, CertAt, At, AfterFailure, NoJob, CertTypeOK, CertJob,
      disk, certHistories
<1>3. QED
  BY <1>1, <1>2

LEMMA RenewCertEffect ==
    ASSUME CertTypeOK, NEW w \in Workers, RenewCert(w)
    PROVE  /\ certHandler'[w].pc = "saveRenewal"
           /\ certHandler'[w].c = certHandler[w].c
           /\ certHandler'[w].job = certHandler[w].job
           /\ \A v \in Workers \ {w} : certHandler'[v] = certHandler[v]
           /\ certHandler[w].pc = "renew"
           /\ onDisk => onDisk'
           /\ ~cert[On(w)].ordered => onDisk'
           /\ cert' = cert
           /\ certQueue' = certQueue
           /\ revived' = revived
           /\ wiped' = wiped /\ skipped' = skipped
           /\ certCut' = certCut
           /\ certCrowded' = certCrowded
<1>1. /\ certHandler'[w].pc = "saveRenewal"
      /\ certHandler'[w].c = certHandler[w].c
      /\ certHandler'[w].job = certHandler[w].job
      /\ \A v \in Workers \ {w} : certHandler'[v] = certHandler[v]
  BY CertGoes DEF RenewCert
<1>2. /\ certHandler[w].pc = "renew"
      /\ onDisk => onDisk'
      /\ ~cert[On(w)].ordered => onDisk'
      /\ cert' = cert
      /\ certQueue' = certQueue
      /\ revived' = revived
      /\ wiped' = wiped /\ skipped' = skipped
      /\ certCut' = certCut
      /\ certCrowded' = certCrowded
  BY DEF RenewCert, CertAt, At, disk, certHistories
<1>3. QED
  BY <1>1, <1>2

LEMMA RenewalFailsEffect ==
    ASSUME CertTypeOK, NEW w \in Workers, RenewalFails(w)
    PROVE  /\ certHandler'[w].pc = "retry"
           /\ certHandler'[w].c = certHandler[w].c
           /\ certHandler'[w].job = certHandler[w].job
           /\ \A v \in Workers \ {w} : certHandler'[v] = certHandler[v]
           /\ certHandler[w].pc = "renew"
           /\ cert' = cert
           /\ onDisk' = onDisk
           /\ certQueue' = certQueue
           /\ revived' = revived
           /\ wiped' = wiped /\ skipped' = skipped
           /\ certCut' = certCut
           /\ certCrowded' = certCrowded
<1>1. /\ certHandler'[w].pc = "retry"
      /\ certHandler'[w].c = certHandler[w].c
      /\ certHandler'[w].job = certHandler[w].job
      /\ \A v \in Workers \ {w} : certHandler'[v] = certHandler[v]
  BY CertGoes DEF RenewalFails
<1>2. /\ certHandler[w].pc = "renew"
      /\ cert' = cert
      /\ onDisk' = onDisk
      /\ certQueue' = certQueue
      /\ revived' = revived
      /\ wiped' = wiped /\ skipped' = skipped
      /\ certCut' = certCut
      /\ certCrowded' = certCrowded
  BY DEF RenewalFails, CertAt, At, CertPasses, disk, certHistories
<1>3. QED
  BY <1>1, <1>2

LEMMA CertBreaksOffEffect ==
    ASSUME CertTypeOK, NEW w \in Workers, CertBreaksOff(w)
    PROVE  /\ certHandler'[w].pc = "idle"
           /\ certHandler'[w].c = None
           /\ certHandler'[w].job = None
           /\ \A v \in Workers \ {w} : certHandler'[v] = certHandler[v]
           /\ certHandler[w].pc # "idle"
           /\ \A i \in Jobs : certQueue'[i].on = certQueue[i].on
           /\ \A i \in Jobs : i # certHandler[w].job => certQueue'[i] = certQueue[i]
           /\ certCut'
           /\ cert' = cert
           /\ onDisk' = onDisk
           /\ revived' = revived
           /\ wiped' = wiped /\ skipped' = skipped
           /\ certCrowded' = certCrowded
<1>1. /\ certHandler'[w].pc = "idle"
      /\ certHandler'[w].c = None
      /\ certHandler'[w].job = None
      /\ \A v \in Workers \ {w} : certHandler'[v] = certHandler[v]
  BY CertReturns DEF CertBreaksOff
<1>2. /\ certHandler[w].pc # "idle"
      /\ \A i \in Jobs : certQueue'[i].on = certQueue[i].on
      /\ \A i \in Jobs : i # certHandler[w].job => certQueue'[i] = certQueue[i]
      /\ certCut'
      /\ cert' = cert
      /\ onDisk' = onDisk
      /\ revived' = revived
      /\ wiped' = wiped /\ skipped' = skipped
      /\ certCrowded' = certCrowded
  BY CertTypes DEF CertBreaksOff, CertAt, At, CertTypeOK, CertJob, disk
<1>3. QED
  BY <1>1, <1>2

--------------------------------------------------------------------------------
\* Types.

LEMMA IssueCertificateType ==
    ASSUME CertTypeOK, CertInv, NEW w \in Workers, NEW provider \in Provider,
        IssueCertificate(w, provider)
    PROVE  CertTypeOK'
<1>1. cert' \in [Certs -> CertRow]
  BY CertTypes DEF IssueCertificate, StartCert, CertTypeOK, CertRow, CertStatus, disk
<1>2. certQueue' \in [Jobs -> CertJob]
  BY CertTypes, CertQueueTypes DEF IssueCertificate, StartCert, CertTypeOK, disk
<1>3. certHandler' \in [Workers -> HandlerRecord]
  BY CertTypes DEF IssueCertificate, StartCert, IdleCert, CertTypeOK, HandlerRecord,
      CertSteps
<1>4. /\ onDisk' \in BOOLEAN /\ revived' \in BOOLEAN /\ wiped' \in BOOLEAN
      /\ certCut' \in BOOLEAN /\ certCrowded' \in BOOLEAN
      /\ known' \in BOOLEAN /\ skipped' \in BOOLEAN /\ unshown' \in BOOLEAN
  BY CertTypes DEF IssueCertificate, StartCert, disk
<1>5. certFaults' \in 0..MaxCertFaults
  BY CertTypes DEF IssueCertificate, StartCert, disk
<1>6. QED
  BY <1>1, <1>2, <1>3, <1>4, <1>5 DEF CertTypeOK, CertRow, HandlerRecord

LEMMA RenewCertificateType ==
    ASSUME CertTypeOK, CertInv, NEW w \in Workers, NEW c \in Certs, RenewCertificate(w, c)
    PROVE  CertTypeOK'
<1>1. cert' \in [Certs -> CertRow]
  BY CertTypes DEF RenewCertificate, Exists, StartCert, CertTypeOK, CertRow, CertStatus,
      disk
<1>2. certQueue' \in [Jobs -> CertJob]
  BY CertTypes, CertQueueTypes DEF RenewCertificate, Exists, StartCert, CertTypeOK, disk
<1>3. certHandler' \in [Workers -> HandlerRecord]
  BY CertTypes DEF RenewCertificate, StartCert, IdleCert, CertTypeOK, HandlerRecord,
      CertSteps
<1>4. /\ onDisk' \in BOOLEAN /\ revived' \in BOOLEAN /\ wiped' \in BOOLEAN
      /\ certCut' \in BOOLEAN /\ certCrowded' \in BOOLEAN
      /\ known' \in BOOLEAN /\ skipped' \in BOOLEAN /\ unshown' \in BOOLEAN
  BY CertTypes DEF RenewCertificate, Exists, StartCert, disk
<1>5. certFaults' \in 0..MaxCertFaults
  BY CertTypes DEF RenewCertificate, Exists, StartCert, disk
<1>6. QED
  BY <1>1, <1>2, <1>3, <1>4, <1>5 DEF CertTypeOK, CertRow, HandlerRecord

LEMMA RevokeCertificateType ==
    ASSUME CertTypeOK, CertInv, NEW w \in Workers, NEW c \in Certs, RevokeCertificate(w, c)
    PROVE  CertTypeOK'
<1>1. cert' \in [Certs -> CertRow]
  BY CertTypes DEF RevokeCertificate, Exists, StartCert, CertTypeOK, CertRow, CertStatus,
      disk
<1>2. certQueue' \in [Jobs -> CertJob]
  BY CertTypes, CertQueueTypes DEF RevokeCertificate, Exists, StartCert, CertTypeOK, disk
<1>3. certHandler' \in [Workers -> HandlerRecord]
  BY CertTypes DEF RevokeCertificate, StartCert, IdleCert, CertTypeOK, HandlerRecord,
      CertSteps
<1>4. /\ onDisk' \in BOOLEAN /\ revived' \in BOOLEAN /\ wiped' \in BOOLEAN
      /\ certCut' \in BOOLEAN /\ certCrowded' \in BOOLEAN
      /\ known' \in BOOLEAN /\ skipped' \in BOOLEAN /\ unshown' \in BOOLEAN
  BY CertTypes DEF RevokeCertificate, Exists, StartCert, disk
<1>5. certFaults' \in 0..MaxCertFaults
  BY CertTypes DEF RevokeCertificate, Exists, StartCert, disk
<1>6. QED
  BY <1>1, <1>2, <1>3, <1>4, <1>5 DEF CertTypeOK, CertRow, HandlerRecord

LEMMA DeleteCertificateType ==
    ASSUME CertTypeOK, CertInv, NEW w \in Workers, NEW c \in Certs, DeleteCertificate(w, c)
    PROVE  CertTypeOK'
<1>1. cert' \in [Certs -> CertRow]
  BY CertTypes DEF DeleteCertificate, Exists, StartCert, CertTypeOK, CertRow, CertStatus,
      disk
<1>2. certQueue' \in [Jobs -> CertJob]
  BY CertTypes, CertQueueTypes DEF DeleteCertificate, Exists, StartCert, CertTypeOK, disk
<1>3. certHandler' \in [Workers -> HandlerRecord]
  BY CertTypes DEF DeleteCertificate, StartCert, IdleCert, CertTypeOK, HandlerRecord,
      CertSteps
<1>4. /\ onDisk' \in BOOLEAN /\ revived' \in BOOLEAN /\ wiped' \in BOOLEAN
      /\ certCut' \in BOOLEAN /\ certCrowded' \in BOOLEAN
      /\ known' \in BOOLEAN /\ skipped' \in BOOLEAN /\ unshown' \in BOOLEAN
  BY CertTypes DEF DeleteCertificate, Exists, StartCert, disk
<1>5. certFaults' \in 0..MaxCertFaults
  BY CertTypes DEF DeleteCertificate, Exists, StartCert, disk
<1>6. QED
  BY <1>1, <1>2, <1>3, <1>4, <1>5 DEF CertTypeOK, CertRow, HandlerRecord

LEMMA TakeIssueType ==
    ASSUME CertTypeOK, CertInv, NEW w \in Workers, NEW j \in Jobs, TakeIssue(w, j)
    PROVE  CertTypeOK'
<1>1. cert' \in [Certs -> CertRow]
  BY CertTypes DEF TakeIssue, StartCert, Exists, CertTypeOK, CertRow, CertStatus, disk
<1>2. certQueue' \in [Jobs -> CertJob]
  BY CertTypes, CertQueueTypes DEF TakeIssue, StartCert, Exists, CertTypeOK, CertJob, disk
<1>3. certHandler' \in [Workers -> HandlerRecord]
  BY CertTypes DEF TakeIssue, StartCert, CertTypeOK, HandlerRecord, CertSteps, CertJob
<1>4. /\ onDisk' \in BOOLEAN /\ revived' \in BOOLEAN /\ wiped' \in BOOLEAN
      /\ certCut' \in BOOLEAN /\ certCrowded' \in BOOLEAN
      /\ known' \in BOOLEAN /\ skipped' \in BOOLEAN /\ unshown' \in BOOLEAN
  BY CertTypes DEF TakeIssue, StartCert, Exists, disk
<1>5. certFaults' \in 0..MaxCertFaults
  BY CertTypes DEF TakeIssue, StartCert, Exists, disk
<1>6. QED
  BY <1>1, <1>2, <1>3, <1>4, <1>5 DEF CertTypeOK, CertRow, HandlerRecord

LEMMA TakeRenewalType ==
    ASSUME CertTypeOK, CertInv, NEW w \in Workers, NEW j \in Jobs, TakeRenewal(w, j)
    PROVE  CertTypeOK'
<1>1. cert' \in [Certs -> CertRow]
  BY CertTypes DEF TakeRenewal, StartCert, CertTypeOK, CertRow, CertStatus, disk
<1>2. certQueue' \in [Jobs -> CertJob]
  BY CertTypes, CertQueueTypes DEF TakeRenewal, StartCert, CertTypeOK, CertJob, disk
<1>3. certHandler' \in [Workers -> HandlerRecord]
  BY CertTypes DEF TakeRenewal, StartCert, IdleCert, CertTypeOK, HandlerRecord,
      CertSteps, CertJob
<1>4. /\ onDisk' \in BOOLEAN /\ revived' \in BOOLEAN /\ wiped' \in BOOLEAN
      /\ certCut' \in BOOLEAN /\ certCrowded' \in BOOLEAN
      /\ known' \in BOOLEAN /\ skipped' \in BOOLEAN /\ unshown' \in BOOLEAN
  BY CertTypes DEF TakeRenewal, StartCert, disk
<1>5. certFaults' \in 0..MaxCertFaults
  BY CertTypes DEF TakeRenewal, StartCert, disk
<1>6. QED
  BY <1>1, <1>2, <1>3, <1>4, <1>5 DEF CertTypeOK, CertRow, HandlerRecord

LEMMA CreateCertType ==
    ASSUME CertTypeOK, CertInv, NEW w \in Workers, CreateCert(w)
    PROVE  CertTypeOK'
<1>1. cert' \in [Certs -> CertRow]
  BY CertTypes DEF CreateCert, Fresh, disk, certHistories, CertTypeOK, CertRow, CertStatus
<1>2. certQueue' \in [Jobs -> CertJob]
  BY CertTypes, CertQueueTypes DEF CreateCert, Fresh, disk, certHistories, CertTypeOK
<1>3. certHandler' \in [Workers -> HandlerRecord]
  <2>1. PICK c \in Certs : certHandler' = [certHandler EXCEPT ![w] = [@ EXCEPT !.pc = "queue",
                                                                            !.c = c]]
    BY DEF CreateCert, Fresh, disk
  <2>2. [certHandler[w] EXCEPT !.pc = "queue", !.c = c] \in HandlerRecord
    BY DEF CertTypeOK, HandlerRecord, CertSteps
  <2>3. QED
    BY <2>1, <2>2 DEF CertTypeOK, HandlerRecord
<1>4. /\ onDisk' \in BOOLEAN /\ revived' \in BOOLEAN /\ wiped' \in BOOLEAN
      /\ certCut' \in BOOLEAN /\ certCrowded' \in BOOLEAN
      /\ known' \in BOOLEAN /\ skipped' \in BOOLEAN /\ unshown' \in BOOLEAN
  BY CertTypes DEF CreateCert, Fresh, disk, certHistories
<1>5. certFaults' \in 0..MaxCertFaults
  BY CertTypes DEF CreateCert, Fresh, disk, certHistories
<1>6. QED
  BY <1>1, <1>2, <1>3, <1>4, <1>5 DEF CertTypeOK, CertRow, HandlerRecord

LEMMA QueueIssueType ==
    ASSUME CertTypeOK, CertInv, NEW w \in Workers, QueueIssue(w)
    PROVE  CertTypeOK'
<1>1. cert' \in [Certs -> CertRow]
  BY CertTypes DEF QueueIssue, AddCertJob, On, disk, certHistories, CertTypeOK, CertRow,
      CertStatus
<1>2. certQueue' \in [Jobs -> CertJob]
  BY CertTypes, CertQueueTypes, JobsAssumption DEF QueueIssue, AddCertJob, On, Free,
      QueuedJob, disk, certHistories, CertTypeOK, CertJob
<1>3. certHandler' \in [Workers -> HandlerRecord]
  BY CertHandlerTypes DEF QueueIssue, CertSteps
<1>4. /\ onDisk' \in BOOLEAN /\ revived' \in BOOLEAN /\ wiped' \in BOOLEAN
      /\ certCut' \in BOOLEAN /\ certCrowded' \in BOOLEAN
      /\ known' \in BOOLEAN /\ skipped' \in BOOLEAN /\ unshown' \in BOOLEAN
  BY CertTypes DEF QueueIssue, AddCertJob, On, disk, certHistories
<1>5. certFaults' \in 0..MaxCertFaults
  BY CertTypes DEF QueueIssue, AddCertJob, On, disk, certHistories
<1>6. QED
  BY <1>1, <1>2, <1>3, <1>4, <1>5 DEF CertTypeOK, CertRow, HandlerRecord

LEMMA QueueRenewalType ==
    ASSUME CertTypeOK, CertInv, NEW w \in Workers, QueueRenewal(w)
    PROVE  CertTypeOK'
<1>1. cert' \in [Certs -> CertRow]
  BY CertTypes DEF QueueRenewal, AddCertJob, On, disk, certHistories, CertTypeOK, CertRow,
      CertStatus
<1>2. certQueue' \in [Jobs -> CertJob]
  BY CertTypes, CertQueueTypes, JobsAssumption DEF QueueRenewal, AddCertJob, On, Free,
      QueuedJob, disk, certHistories, CertTypeOK, CertJob
<1>3. certHandler' \in [Workers -> HandlerRecord]
  BY CertHandlerTypes DEF QueueRenewal, CertSteps
<1>4. /\ onDisk' \in BOOLEAN /\ revived' \in BOOLEAN /\ wiped' \in BOOLEAN
      /\ certCut' \in BOOLEAN /\ certCrowded' \in BOOLEAN
      /\ known' \in BOOLEAN /\ skipped' \in BOOLEAN /\ unshown' \in BOOLEAN
  BY CertTypes DEF QueueRenewal, AddCertJob, On, disk, certHistories
<1>5. certFaults' \in 0..MaxCertFaults
  BY CertTypes DEF QueueRenewal, AddCertJob, On, disk, certHistories
<1>6. QED
  BY <1>1, <1>2, <1>3, <1>4, <1>5 DEF CertTypeOK, CertRow, HandlerRecord

LEMMA RevokeAtAcmeType ==
    ASSUME CertTypeOK, CertInv, NEW w \in Workers, RevokeAtAcme(w)
    PROVE  CertTypeOK'
<1>1. cert' \in [Certs -> CertRow]
  BY CertTypes DEF RevokeAtAcme, RemoveFiles, On, Exists, CertTypeOK, CertRow,
      CertStatus, disk
<1>2. certQueue' \in [Jobs -> CertJob]
  BY CertTypes, CertQueueTypes DEF RevokeAtAcme, RemoveFiles, On, Exists, CertTypeOK, disk
<1>3. certHandler' \in [Workers -> HandlerRecord]
  BY CertHandlerTypes DEF RevokeAtAcme, CertSteps
<1>4. /\ onDisk' \in BOOLEAN /\ revived' \in BOOLEAN /\ wiped' \in BOOLEAN
      /\ certCut' \in BOOLEAN /\ certCrowded' \in BOOLEAN
      /\ known' \in BOOLEAN /\ skipped' \in BOOLEAN /\ unshown' \in BOOLEAN
  BY CertTypes DEF RevokeAtAcme, RemoveFiles, On, Exists, disk
<1>5. certFaults' \in 0..MaxCertFaults
  BY CertTypes DEF RevokeAtAcme, RemoveFiles, On, Exists, disk
<1>6. QED
  BY <1>1, <1>2, <1>3, <1>4, <1>5 DEF CertTypeOK, CertRow, HandlerRecord

LEMMA UnlinkFilesType ==
    ASSUME CertTypeOK, CertInv, NEW w \in Workers, UnlinkFiles(w)
    PROVE  CertTypeOK'
<1>1. cert' \in [Certs -> CertRow]
  BY CertTypes DEF UnlinkFiles, RemoveFiles, On, Exists, CertTypeOK, CertRow, CertStatus,
      disk
<1>2. certQueue' \in [Jobs -> CertJob]
  BY CertTypes, CertQueueTypes DEF UnlinkFiles, RemoveFiles, On, Exists, CertTypeOK, disk
<1>3. certHandler' \in [Workers -> HandlerRecord]
  BY CertHandlerTypes DEF UnlinkFiles, CertSteps
<1>4. /\ onDisk' \in BOOLEAN /\ revived' \in BOOLEAN /\ wiped' \in BOOLEAN
      /\ certCut' \in BOOLEAN /\ certCrowded' \in BOOLEAN
      /\ known' \in BOOLEAN /\ skipped' \in BOOLEAN /\ unshown' \in BOOLEAN
  BY CertTypes DEF UnlinkFiles, RemoveFiles, On, Exists, disk
<1>5. certFaults' \in 0..MaxCertFaults
  BY CertTypes DEF UnlinkFiles, RemoveFiles, On, Exists, disk
<1>6. QED
  BY <1>1, <1>2, <1>3, <1>4, <1>5 DEF CertTypeOK, CertRow, HandlerRecord

LEMMA MarkRevokedType ==
    ASSUME CertTypeOK, CertInv, NEW w \in Workers, MarkRevoked(w)
    PROVE  CertTypeOK'
<1>1. cert' \in [Certs -> CertRow]
  BY CertTypes DEF MarkRevoked, Exists, On, disk, certHistories, CertTypeOK, CertRow,
      CertStatus
<1>2. certQueue' \in [Jobs -> CertJob]
  BY CertTypes, CertQueueTypes DEF MarkRevoked, Exists, On, disk, certHistories, CertTypeOK
<1>3. certHandler' \in [Workers -> HandlerRecord]
  BY CertHandlerTypes DEF MarkRevoked, CertSteps
<1>4. /\ onDisk' \in BOOLEAN /\ revived' \in BOOLEAN /\ wiped' \in BOOLEAN
      /\ certCut' \in BOOLEAN /\ certCrowded' \in BOOLEAN
      /\ known' \in BOOLEAN /\ skipped' \in BOOLEAN /\ unshown' \in BOOLEAN
  BY CertTypes DEF MarkRevoked, Exists, On, disk, certHistories
<1>5. certFaults' \in 0..MaxCertFaults
  BY CertTypes DEF MarkRevoked, Exists, On, disk, certHistories
<1>6. QED
  BY <1>1, <1>2, <1>3, <1>4, <1>5 DEF CertTypeOK, CertRow, HandlerRecord

LEMMA RemoveCertType ==
    ASSUME CertTypeOK, CertInv, NEW w \in Workers, RemoveCert(w)
    PROVE  CertTypeOK'
<1>1. cert' \in [Certs -> CertRow]
  BY CertTypes DEF RemoveCert, On, disk, certHistories, CertTypeOK, CertRow, CertStatus
<1>2. certQueue' \in [Jobs -> CertJob]
  BY CertTypes, CertQueueTypes DEF RemoveCert, On, disk, certHistories, CertTypeOK
<1>3. certHandler' \in [Workers -> HandlerRecord]
  BY CertHandlerTypes DEF RemoveCert, CertSteps
<1>4. /\ onDisk' \in BOOLEAN /\ revived' \in BOOLEAN /\ wiped' \in BOOLEAN
      /\ certCut' \in BOOLEAN /\ certCrowded' \in BOOLEAN
      /\ known' \in BOOLEAN /\ skipped' \in BOOLEAN /\ unshown' \in BOOLEAN
  BY CertTypes DEF RemoveCert, On, disk, certHistories
<1>5. certFaults' \in 0..MaxCertFaults
  BY CertTypes DEF RemoveCert, On, disk, certHistories
<1>6. QED
  BY <1>1, <1>2, <1>3, <1>4, <1>5 DEF CertTypeOK, CertRow, HandlerRecord

LEMMA AcmeIssueType ==
    ASSUME CertTypeOK, CertInv, NEW w \in Workers, AcmeIssue(w)
    PROVE  CertTypeOK'
<1>1. cert' \in [Certs -> CertRow]
  BY CertTypes DEF AcmeIssue, disk, certHistories, CertTypeOK, CertRow, CertStatus
<1>2. certQueue' \in [Jobs -> CertJob]
  BY CertTypes, CertQueueTypes DEF AcmeIssue, disk, certHistories, CertTypeOK
<1>3. certHandler' \in [Workers -> HandlerRecord]
  BY CertHandlerTypes DEF AcmeIssue, CertSteps
<1>4. /\ onDisk' \in BOOLEAN /\ revived' \in BOOLEAN /\ wiped' \in BOOLEAN
      /\ certCut' \in BOOLEAN /\ certCrowded' \in BOOLEAN
      /\ known' \in BOOLEAN /\ skipped' \in BOOLEAN /\ unshown' \in BOOLEAN
  BY CertTypes DEF AcmeIssue, disk, certHistories
<1>5. certFaults' \in 0..MaxCertFaults
  BY CertTypes DEF AcmeIssue, disk, certHistories
<1>6. QED
  BY <1>1, <1>2, <1>3, <1>4, <1>5 DEF CertTypeOK, CertRow, HandlerRecord

LEMMA AcmeSkipsType ==
    ASSUME CertTypeOK, CertInv, NEW w \in Workers, AcmeSkips(w)
    PROVE  CertTypeOK'
<1>1. cert' \in [Certs -> CertRow]
  BY CertTypes DEF AcmeSkips, disk, certHistories, CertTypeOK, CertRow, CertStatus
<1>2. certQueue' \in [Jobs -> CertJob]
  BY CertTypes, CertQueueTypes DEF AcmeSkips, disk, certHistories, CertTypeOK
<1>3. certHandler' \in [Workers -> HandlerRecord]
  BY CertHandlerTypes DEF AcmeSkips, CertSteps
<1>4. /\ onDisk' \in BOOLEAN /\ revived' \in BOOLEAN /\ wiped' \in BOOLEAN
      /\ certCut' \in BOOLEAN /\ certCrowded' \in BOOLEAN
      /\ known' \in BOOLEAN /\ skipped' \in BOOLEAN /\ unshown' \in BOOLEAN
  BY CertTypes DEF AcmeSkips, disk, certHistories
<1>5. certFaults' \in 0..MaxCertFaults
  BY CertTypes DEF AcmeSkips, disk, certHistories
<1>6. QED
  BY <1>1, <1>2, <1>3, <1>4, <1>5 DEF CertTypeOK, CertRow, HandlerRecord

LEMMA IssueFailsType ==
    ASSUME CertTypeOK, CertInv, NEW w \in Workers, IssueFails(w)
    PROVE  CertTypeOK'
<1>1. cert' \in [Certs -> CertRow]
  BY CertTypes DEF IssueFails, CertPasses, disk, certHistories, CertTypeOK, CertRow,
      CertStatus
<1>2. certQueue' \in [Jobs -> CertJob]
  BY CertTypes, CertQueueTypes DEF IssueFails, CertPasses, disk, certHistories, CertTypeOK
<1>3. certHandler' \in [Workers -> HandlerRecord]
  BY CertHandlerTypes DEF IssueFails, CertSteps
<1>4. /\ onDisk' \in BOOLEAN /\ revived' \in BOOLEAN /\ wiped' \in BOOLEAN
      /\ certCut' \in BOOLEAN /\ certCrowded' \in BOOLEAN
      /\ known' \in BOOLEAN /\ skipped' \in BOOLEAN /\ unshown' \in BOOLEAN
  BY CertTypes DEF IssueFails, CertPasses, disk, certHistories
<1>5. certFaults' \in 0..MaxCertFaults
  BY CertTypes DEF IssueFails, CertPasses, disk, certHistories
<1>6. QED
  BY <1>1, <1>2, <1>3, <1>4, <1>5 DEF CertTypeOK, CertRow, HandlerRecord

LEMMA CertNotSavedType ==
    ASSUME CertTypeOK, CertInv, NEW w \in Workers, CertNotSaved(w)
    PROVE  CertTypeOK'
<1>1. cert' \in [Certs -> CertRow]
  BY CertTypes DEF CertNotSaved, CertTypeOK, CertRow, CertStatus, disk
<1>2. certQueue' \in [Jobs -> CertJob]
  BY CertTypes, CertQueueTypes DEF CertNotSaved, CertTypeOK, disk
<1>3. certHandler' \in [Workers -> HandlerRecord]
  BY CertHandlerTypes DEF CertNotSaved, CertSteps
<1>4. /\ onDisk' \in BOOLEAN /\ revived' \in BOOLEAN /\ wiped' \in BOOLEAN
      /\ certCut' \in BOOLEAN /\ certCrowded' \in BOOLEAN
      /\ known' \in BOOLEAN /\ skipped' \in BOOLEAN /\ unshown' \in BOOLEAN
  BY CertTypes DEF CertNotSaved, CertFault, disk
<1>5. certFaults' \in 0..MaxCertFaults
  BY CertTypes DEF CertNotSaved, CertFault, disk
<1>6. QED
  BY <1>1, <1>2, <1>3, <1>4, <1>5 DEF CertTypeOK, CertRow, HandlerRecord

LEMMA ActivateCertType ==
    ASSUME CertTypeOK, CertInv, NEW w \in Workers, ActivateCert(w)
    PROVE  CertTypeOK'
<1>1. cert' \in [Certs -> CertRow]
  BY CertTypes DEF ActivateCert, FinishJob, On, Exists, CertTypeOK, CertRow, CertStatus,
      disk
<1>2. certQueue' \in [Jobs -> CertJob]
  BY CertTypes, CertQueueTypes DEF ActivateCert, FinishJob, On, Exists, CertTypeOK, disk
<1>3. certHandler' \in [Workers -> HandlerRecord]
  BY CertHandlerTypes DEF ActivateCert, FinishJob, CertSteps, CertTypeOK, HandlerRecord
<1>4. /\ onDisk' \in BOOLEAN /\ revived' \in BOOLEAN /\ wiped' \in BOOLEAN
      /\ certCut' \in BOOLEAN /\ certCrowded' \in BOOLEAN
      /\ known' \in BOOLEAN /\ skipped' \in BOOLEAN /\ unshown' \in BOOLEAN
  BY CertTypes DEF ActivateCert, FinishJob, On, Exists, disk
<1>5. certFaults' \in 0..MaxCertFaults
  BY CertTypes DEF ActivateCert, FinishJob, On, Exists, disk
<1>6. QED
  BY <1>1, <1>2, <1>3, <1>4, <1>5 DEF CertTypeOK, CertRow, HandlerRecord

LEMMA SaveCertOrderType ==
    ASSUME CertTypeOK, CertInv, NEW w \in Workers, SaveCertOrder(w)
    PROVE  CertTypeOK'
<1>1. cert' \in [Certs -> CertRow]
  <2>1. CASE Exists(On(w))
    <3>1. cert' = [cert EXCEPT ![On(w)] = [cert[On(w)] EXCEPT !.status = "PENDING_VALIDATION",
                                                             !.ordered = TRUE]]
      BY <2>1 DEF SaveCertOrder, FinishJob
    <3>2. On(w) \in Certs
      BY DEF SaveCertOrder, CertAt, At, CertInv, CertsInHand
    <3>3. [cert[On(w)] EXCEPT !.status = "PENDING_VALIDATION", !.ordered = TRUE] \in CertRow
      BY <3>2 DEF CertTypeOK, CertRow, CertStatus
    <3>4. QED
      BY <3>1, <3>3 DEF CertTypeOK, CertRow, disk
  <2>2. CASE ~Exists(On(w))
    BY <2>2 DEF SaveCertOrder, FinishJob, CertTypeOK, CertRow, disk
  <2>3. QED
    BY <2>1, <2>2
<1>2. certQueue' \in [Jobs -> CertJob]
  BY CertTypes, CertQueueTypes DEF SaveCertOrder, FinishJob, On, Exists, CertTypeOK, disk
<1>3. certHandler' \in [Workers -> HandlerRecord]
  BY CertHandlerTypes DEF SaveCertOrder, FinishJob, CertSteps, CertTypeOK, HandlerRecord
<1>4. /\ onDisk' \in BOOLEAN /\ revived' \in BOOLEAN /\ wiped' \in BOOLEAN
      /\ certCut' \in BOOLEAN /\ certCrowded' \in BOOLEAN
      /\ known' \in BOOLEAN /\ skipped' \in BOOLEAN /\ unshown' \in BOOLEAN
  BY CertTypes DEF SaveCertOrder, FinishJob, On, Exists, disk
<1>5. certFaults' \in 0..MaxCertFaults
  BY CertTypes DEF SaveCertOrder, FinishJob, On, Exists, disk
<1>6. QED
  BY <1>1, <1>2, <1>3, <1>4, <1>5 DEF CertTypeOK, CertRow, HandlerRecord

LEMMA SaveCertRenewalType ==
    ASSUME CertTypeOK, CertInv, NEW w \in Workers, SaveCertRenewal(w)
    PROVE  CertTypeOK'
<1>1. cert' \in [Certs -> CertRow]
  BY CertTypes DEF SaveCertRenewal, FinishJob, On, Exists, CertTypeOK, CertRow,
      CertStatus, disk
<1>2. certQueue' \in [Jobs -> CertJob]
  BY CertTypes, CertQueueTypes DEF SaveCertRenewal, FinishJob, On, Exists, CertTypeOK, disk
<1>3. certHandler' \in [Workers -> HandlerRecord]
  BY CertHandlerTypes DEF SaveCertRenewal, FinishJob, CertSteps, CertTypeOK, HandlerRecord
<1>4. /\ onDisk' \in BOOLEAN /\ revived' \in BOOLEAN /\ wiped' \in BOOLEAN
      /\ certCut' \in BOOLEAN /\ certCrowded' \in BOOLEAN
      /\ known' \in BOOLEAN /\ skipped' \in BOOLEAN /\ unshown' \in BOOLEAN
  BY CertTypes DEF SaveCertRenewal, FinishJob, On, Exists, disk
<1>5. certFaults' \in 0..MaxCertFaults
  BY CertTypes DEF SaveCertRenewal, FinishJob, On, Exists, disk
<1>6. QED
  BY <1>1, <1>2, <1>3, <1>4, <1>5 DEF CertTypeOK, CertRow, HandlerRecord

LEMMA CancelCertType ==
    ASSUME CertTypeOK, CertInv, NEW w \in Workers, CancelCert(w)
    PROVE  CertTypeOK'
<1>1. cert' \in [Certs -> CertRow]
  BY CertTypes DEF CancelCert, Exists, On, disk, certHistories, CertTypeOK, CertRow,
      CertStatus
<1>2. certQueue' \in [Jobs -> CertJob]
  BY CertTypes, CertQueueTypes DEF CancelCert, Exists, On, disk, certHistories, CertTypeOK
<1>3. certHandler' \in [Workers -> HandlerRecord]
  BY CertHandlerTypes DEF CancelCert, CertSteps
<1>4. /\ onDisk' \in BOOLEAN /\ revived' \in BOOLEAN /\ wiped' \in BOOLEAN
      /\ certCut' \in BOOLEAN /\ certCrowded' \in BOOLEAN
      /\ known' \in BOOLEAN /\ skipped' \in BOOLEAN /\ unshown' \in BOOLEAN
  BY CertTypes DEF CancelCert, Exists, On, disk, certHistories
<1>5. certFaults' \in 0..MaxCertFaults
  BY CertTypes DEF CancelCert, CertFault
<1>6. QED
  BY <1>1, <1>2, <1>3, <1>4, <1>5 DEF CertTypeOK, CertRow, HandlerRecord

LEMMA RetryCertJobType ==
    ASSUME CertTypeOK, CertInv, NEW w \in Workers, RetryCertJob(w)
    PROVE  CertTypeOK'
<1>1. cert' \in [Certs -> CertRow]
  BY CertTypes DEF RetryCertJob, disk, certHistories, CertTypeOK, CertRow, CertStatus
<1>2. certQueue' \in [Jobs -> CertJob]
  BY CertTypes, CertQueueTypes DEF RetryCertJob, disk, certHistories, CertTypeOK
<1>3. certHandler' \in [Workers -> HandlerRecord]
  BY CertHandlerTypes DEF RetryCertJob, CertSteps
<1>4. /\ onDisk' \in BOOLEAN /\ revived' \in BOOLEAN /\ wiped' \in BOOLEAN
      /\ certCut' \in BOOLEAN /\ certCrowded' \in BOOLEAN
      /\ known' \in BOOLEAN /\ skipped' \in BOOLEAN /\ unshown' \in BOOLEAN
  BY CertTypes DEF RetryCertJob, disk, certHistories
<1>5. certFaults' \in 0..MaxCertFaults
  BY CertTypes DEF RetryCertJob, disk, certHistories
<1>6. QED
  BY <1>1, <1>2, <1>3, <1>4, <1>5 DEF CertTypeOK, CertRow, HandlerRecord

LEMMA RenewCertType ==
    ASSUME CertTypeOK, CertInv, NEW w \in Workers, RenewCert(w)
    PROVE  CertTypeOK'
<1>1. cert' \in [Certs -> CertRow]
  BY CertTypes DEF RenewCert, On, disk, certHistories, CertTypeOK, CertRow, CertStatus
<1>2. certQueue' \in [Jobs -> CertJob]
  BY CertTypes, CertQueueTypes DEF RenewCert, On, disk, certHistories, CertTypeOK
<1>3. certHandler' \in [Workers -> HandlerRecord]
  BY CertHandlerTypes DEF RenewCert, CertSteps
<1>4. /\ onDisk' \in BOOLEAN /\ revived' \in BOOLEAN /\ wiped' \in BOOLEAN
      /\ certCut' \in BOOLEAN /\ certCrowded' \in BOOLEAN
      /\ known' \in BOOLEAN /\ skipped' \in BOOLEAN /\ unshown' \in BOOLEAN
  BY CertTypes DEF RenewCert, On, disk, certHistories
<1>5. certFaults' \in 0..MaxCertFaults
  BY CertTypes DEF RenewCert, On, disk, certHistories
<1>6. QED
  BY <1>1, <1>2, <1>3, <1>4, <1>5 DEF CertTypeOK, CertRow, HandlerRecord

LEMMA RenewalFailsType ==
    ASSUME CertTypeOK, CertInv, NEW w \in Workers, RenewalFails(w)
    PROVE  CertTypeOK'
<1>1. cert' \in [Certs -> CertRow]
  BY CertTypes DEF RenewalFails, CertPasses, disk, certHistories, CertTypeOK, CertRow,
      CertStatus
<1>2. certQueue' \in [Jobs -> CertJob]
  BY CertTypes, CertQueueTypes DEF RenewalFails, CertPasses, disk, certHistories, CertTypeOK
<1>3. certHandler' \in [Workers -> HandlerRecord]
  BY CertHandlerTypes DEF RenewalFails, CertSteps
<1>4. /\ onDisk' \in BOOLEAN /\ revived' \in BOOLEAN /\ wiped' \in BOOLEAN
      /\ certCut' \in BOOLEAN /\ certCrowded' \in BOOLEAN
      /\ known' \in BOOLEAN /\ skipped' \in BOOLEAN /\ unshown' \in BOOLEAN
  BY CertTypes DEF RenewalFails, CertPasses, disk, certHistories
<1>5. certFaults' \in 0..MaxCertFaults
  BY CertTypes DEF RenewalFails, CertPasses, disk, certHistories
<1>6. QED
  BY <1>1, <1>2, <1>3, <1>4, <1>5 DEF CertTypeOK, CertRow, HandlerRecord

LEMMA CertBreaksOffType ==
    ASSUME CertTypeOK, CertInv, NEW w \in Workers, CertBreaksOff(w)
    PROVE  CertTypeOK'
<1>1. cert' \in [Certs -> CertRow]
  BY CertTypes DEF CertBreaksOff, CertTypeOK, CertRow, CertStatus, disk
<1>2. certQueue' \in [Jobs -> CertJob]
  BY CertTypes, CertQueueTypes DEF CertBreaksOff, CertTypeOK, CertJob, disk
<1>3. certHandler' \in [Workers -> HandlerRecord]
  BY CertHandlerTypes DEF CertBreaksOff, CertSteps
<1>4. /\ onDisk' \in BOOLEAN /\ revived' \in BOOLEAN /\ wiped' \in BOOLEAN
      /\ certCut' \in BOOLEAN /\ certCrowded' \in BOOLEAN
      /\ known' \in BOOLEAN /\ skipped' \in BOOLEAN /\ unshown' \in BOOLEAN
  BY CertTypes DEF CertBreaksOff, CertFault, disk
<1>5. certFaults' \in 0..MaxCertFaults
  BY CertTypes DEF CertBreaksOff, CertFault, disk
<1>6. QED
  BY <1>1, <1>2, <1>3, <1>4, <1>5 DEF CertTypeOK, CertRow, HandlerRecord

--------------------------------------------------------------------------------
\* The invariant.

LEMMA IssueCertificateKeeps ==
    ASSUME CertTypeOK, CertInv, NEW w \in Workers, NEW provider \in Provider,
        IssueCertificate(w, provider)
    PROVE  CertInv'
<1> USE CertAssumption, JobsAssumption DEF CertAt, At, On
<1>1. /\ CertJobsInHand /\ CertsInHand /\ OnlyResellerOrders /\ FilesInHand
             /\ ActiveIsReadable
      /\ ~certCrowded => CertTurns
  BY DEF CertInv
<1>2. CertJobsInHand'
  BY <1>1, CertTypes, IssueCertificateEffect DEF CertsInHand, CertJobsInHand
<1>3. CertsInHand'
  BY <1>1, CertTypes, IssueCertificateEffect DEF CertJobsInHand, CertsInHand
<1>4. OnlyResellerOrders'
  BY <1>1, CertTypes, IssueCertificateEffect DEF CertsInHand, CertJobsInHand,
      OnlyResellerOrders
<1>5. FilesInHand'
  BY <1>1, CertTypes, IssueCertificateEffect DEF CertsInHand, OnlyResellerOrders,
      FilesInHand
<1>6. ActiveIsReadable'
  BY <1>1, CertTypes, IssueCertificateEffect DEF FilesInHand, CertsInHand, ActiveIsReadable
<1>7. (~certCrowded => CertTurns)'
  <2> SUFFICES ASSUME ~certCrowded'
               PROVE  CertTurns'
    OBVIOUS
  <2>1. QED
    BY <1>1, CertTypes, IssueCertificateEffect DEF CertTurns, CertsInHand, Busy,
        LiveCert, Closed
<1>8. QED
  BY <1>2, <1>3, <1>4, <1>5, <1>6, <1>7 DEF CertInv

LEMMA RenewCertificateKeeps ==
    ASSUME CertTypeOK, CertInv, NEW w \in Workers, NEW c \in Certs, RenewCertificate(w, c)
    PROVE  CertInv'
<1> USE CertAssumption, JobsAssumption DEF CertAt, At, On
<1>1. /\ CertJobsInHand /\ CertsInHand /\ OnlyResellerOrders /\ FilesInHand
             /\ ActiveIsReadable
      /\ ~certCrowded => CertTurns
  BY DEF CertInv
<1>2. CertJobsInHand'
  BY <1>1, CertTypes, RenewCertificateEffect DEF CertsInHand, CertJobsInHand
<1>3. CertsInHand'
  BY <1>1, CertTypes, RenewCertificateEffect DEF CertJobsInHand, CertsInHand
<1>4. OnlyResellerOrders'
  BY <1>1, CertTypes, RenewCertificateEffect DEF CertsInHand, CertJobsInHand,
      OnlyResellerOrders
<1>5. FilesInHand'
  BY <1>1, CertTypes, RenewCertificateEffect DEF CertsInHand, OnlyResellerOrders,
      FilesInHand
<1>6. ActiveIsReadable'
  BY <1>1, CertTypes, RenewCertificateEffect DEF FilesInHand, CertsInHand, ActiveIsReadable
<1>7. (~certCrowded => CertTurns)'
  <2> SUFFICES ASSUME ~certCrowded'
               PROVE  CertTurns'
    OBVIOUS
  <2>1. QED
    BY <1>1, CertTypes, RenewCertificateEffect DEF CertTurns, CertsInHand, Busy,
        LiveCert, Closed
<1>8. QED
  BY <1>2, <1>3, <1>4, <1>5, <1>6, <1>7 DEF CertInv

LEMMA RevokeCertificateKeeps ==
    ASSUME CertTypeOK, CertInv, NEW w \in Workers, NEW c \in Certs, RevokeCertificate(w, c)
    PROVE  CertInv'
<1> USE CertAssumption, JobsAssumption DEF CertAt, At, On
<1>1. /\ CertJobsInHand /\ CertsInHand /\ OnlyResellerOrders /\ FilesInHand
             /\ ActiveIsReadable
      /\ ~certCrowded => CertTurns
  BY DEF CertInv
<1>2. CertJobsInHand'
  BY <1>1, CertTypes, RevokeCertificateEffect DEF CertsInHand, CertJobsInHand
<1>3. CertsInHand'
  BY <1>1, CertTypes, RevokeCertificateEffect DEF CertJobsInHand, CertsInHand
<1>4. OnlyResellerOrders'
  BY <1>1, CertTypes, RevokeCertificateEffect DEF CertsInHand, CertJobsInHand,
      OnlyResellerOrders
<1>5. FilesInHand'
  BY <1>1, CertTypes, RevokeCertificateEffect DEF CertsInHand, OnlyResellerOrders,
      FilesInHand
<1>6. ActiveIsReadable'
  BY <1>1, CertTypes, RevokeCertificateEffect DEF FilesInHand, CertsInHand, ActiveIsReadable
<1>7. (~certCrowded => CertTurns)'
  <2> SUFFICES ASSUME ~certCrowded'
               PROVE  CertTurns'
    OBVIOUS
  <2>1. QED
    BY <1>1, CertTypes, RevokeCertificateEffect DEF CertTurns, CertsInHand, Busy,
        LiveCert, Closed
<1>8. QED
  BY <1>2, <1>3, <1>4, <1>5, <1>6, <1>7 DEF CertInv

LEMMA DeleteCertificateKeeps ==
    ASSUME CertTypeOK, CertInv, NEW w \in Workers, NEW c \in Certs, DeleteCertificate(w, c)
    PROVE  CertInv'
<1> USE CertAssumption, JobsAssumption DEF CertAt, At, On
<1>1. /\ CertJobsInHand /\ CertsInHand /\ OnlyResellerOrders /\ FilesInHand
             /\ ActiveIsReadable
      /\ ~certCrowded => CertTurns
  BY DEF CertInv
<1>2. CertJobsInHand'
  BY <1>1, CertTypes, DeleteCertificateEffect DEF CertsInHand, CertJobsInHand
<1>3. CertsInHand'
  BY <1>1, CertTypes, DeleteCertificateEffect DEF CertJobsInHand, CertsInHand
<1>4. OnlyResellerOrders'
  BY <1>1, CertTypes, DeleteCertificateEffect DEF CertsInHand, CertJobsInHand,
      OnlyResellerOrders
<1>5. FilesInHand'
  BY <1>1, CertTypes, DeleteCertificateEffect DEF CertsInHand, OnlyResellerOrders,
      FilesInHand
<1>6. ActiveIsReadable'
  BY <1>1, CertTypes, DeleteCertificateEffect DEF FilesInHand, CertsInHand, ActiveIsReadable
<1>7. (~certCrowded => CertTurns)'
  <2> SUFFICES ASSUME ~certCrowded'
               PROVE  CertTurns'
    OBVIOUS
  <2>1. QED
    BY <1>1, CertTypes, DeleteCertificateEffect DEF CertTurns, CertsInHand, Busy,
        LiveCert, Closed
<1>8. QED
  BY <1>2, <1>3, <1>4, <1>5, <1>6, <1>7 DEF CertInv

LEMMA TakeIssueKeeps ==
    ASSUME CertTypeOK, CertInv, NEW w \in Workers, NEW j \in Jobs, TakeIssue(w, j)
    PROVE  CertInv'
<1> USE CertAssumption, JobsAssumption DEF CertAt, At, On
<1>1. /\ CertJobsInHand /\ CertsInHand /\ OnlyResellerOrders /\ FilesInHand
             /\ ActiveIsReadable
      /\ ~certCrowded => CertTurns
  BY DEF CertInv
<1>2. CertJobsInHand'
  BY <1>1, CertTypes, TakeIssueEffect DEF CertsInHand, CertJobsInHand
<1>3. CertsInHand'
  BY <1>1, CertTypes, TakeIssueEffect DEF CertJobsInHand, CertsInHand
<1>4. OnlyResellerOrders'
  BY <1>1, CertTypes, TakeIssueEffect DEF CertsInHand, CertJobsInHand, OnlyResellerOrders
<1>5. FilesInHand'
  BY <1>1, CertTypes, TakeIssueEffect DEF CertsInHand, OnlyResellerOrders, FilesInHand
<1>6. ActiveIsReadable'
  BY <1>1, CertTypes, TakeIssueEffect DEF FilesInHand, CertsInHand, ActiveIsReadable
<1>7. (~certCrowded => CertTurns)'
  <2> SUFFICES ASSUME ~certCrowded'
               PROVE  CertTurns'
    OBVIOUS
  <2>1. QED
    BY <1>1, CertTypes, TakeIssueEffect DEF CertTurns, CertsInHand, Busy, LiveCert, Closed
<1>8. QED
  BY <1>2, <1>3, <1>4, <1>5, <1>6, <1>7 DEF CertInv

LEMMA TakeRenewalKeeps ==
    ASSUME CertTypeOK, CertInv, NEW w \in Workers, NEW j \in Jobs, TakeRenewal(w, j)
    PROVE  CertInv'
<1> USE CertAssumption, JobsAssumption DEF CertAt, At, On
<1>1. /\ CertJobsInHand /\ CertsInHand /\ OnlyResellerOrders /\ FilesInHand
             /\ ActiveIsReadable
      /\ ~certCrowded => CertTurns
  BY DEF CertInv
<1>2. CertJobsInHand'
  BY <1>1, CertTypes, TakeRenewalEffect DEF CertsInHand, CertJobsInHand
<1>3. CertsInHand'
  BY <1>1, CertTypes, TakeRenewalEffect DEF CertJobsInHand, CertsInHand
<1>4. OnlyResellerOrders'
  BY <1>1, CertTypes, TakeRenewalEffect DEF CertsInHand, CertJobsInHand, OnlyResellerOrders
<1>5. FilesInHand'
  BY <1>1, CertTypes, TakeRenewalEffect DEF CertsInHand, OnlyResellerOrders, FilesInHand
<1>6. ActiveIsReadable'
  BY <1>1, CertTypes, TakeRenewalEffect DEF FilesInHand, CertsInHand, ActiveIsReadable
<1>7. (~certCrowded => CertTurns)'
  <2> SUFFICES ASSUME ~certCrowded'
               PROVE  CertTurns'
    OBVIOUS
  <2>1. QED
    BY <1>1, CertTypes, TakeRenewalEffect DEF CertTurns, CertsInHand, Busy, LiveCert, Closed
<1>8. QED
  BY <1>2, <1>3, <1>4, <1>5, <1>6, <1>7 DEF CertInv

LEMMA CreateCertKeeps ==
    ASSUME CertTypeOK, CertInv, NEW w \in Workers, CreateCert(w)
    PROVE  CertInv'
<1> USE CertAssumption, JobsAssumption DEF CertAt, At, On
<1>1. /\ CertJobsInHand /\ CertsInHand /\ OnlyResellerOrders /\ FilesInHand
             /\ ActiveIsReadable
      /\ ~certCrowded => CertTurns
  BY DEF CertInv
<1>2. /\ certHandler[w].pc = "create"
      /\ certHandler'[w].job = certHandler[w].job
      /\ \A v \in Workers \ {w} : certHandler'[v] = certHandler[v]
      /\ onDisk' = onDisk /\ certQueue' = certQueue /\ revived' = revived
      /\ wiped' = wiped /\ skipped' = skipped /\ certCut' = certCut
      /\ certCrowded' = certCrowded
  BY CreateCertEffect
<1>3. PICK c \in Certs :
            /\ cert[c].status = "NONE"
            /\ cert'[c].status = "PENDING_ISSUANCE" /\ cert'[c].ordered = FALSE
            /\ \A d \in Certs \ {c} : cert'[d] = cert[d]
            /\ certHandler'[w].pc = "queue" /\ certHandler'[w].c = c
  BY CreateCertEffect
<1>4. ~cert'[c].ordered
  BY <1>3
<1>5. CertJobsInHand'
  BY <1>1, CertTypes, <1>2, <1>3, <1>4 DEF CertsInHand, CertJobsInHand
<1>6. CertsInHand'
  BY <1>1, CertTypes, <1>2, <1>3, <1>4 DEF CertJobsInHand, CertsInHand
<1>7. OnlyResellerOrders'
  BY <1>1, CertTypes, <1>2, <1>3, <1>4 DEF CertsInHand, CertJobsInHand, OnlyResellerOrders
<1>8. FilesInHand'
  BY <1>1, CertTypes, <1>2, <1>3, <1>4 DEF CertsInHand, OnlyResellerOrders, FilesInHand
<1>9. ActiveIsReadable'
  BY <1>1, CertTypes, <1>2, <1>3, <1>4 DEF FilesInHand, CertsInHand, ActiveIsReadable
<1>10. (~certCrowded => CertTurns)'
  <2> SUFFICES ASSUME ~certCrowded'
               PROVE  CertTurns'
    OBVIOUS
  <2>1. QED
    BY <1>1, CertTypes, <1>2, <1>3, <1>4 DEF CertTurns, CertsInHand, Busy, LiveCert, Closed
<1>11. QED
  BY <1>5, <1>6, <1>7, <1>8, <1>9, <1>10 DEF CertInv

LEMMA QueueIssueKeeps ==
    ASSUME CertTypeOK, CertInv, NEW w \in Workers, QueueIssue(w)
    PROVE  CertInv'
<1> USE CertAssumption, JobsAssumption DEF CertAt, At, On
<1>1. /\ CertJobsInHand /\ CertsInHand /\ OnlyResellerOrders /\ FilesInHand
             /\ ActiveIsReadable
      /\ ~certCrowded => CertTurns
  BY DEF CertInv
<1>2. CertJobsInHand'
  BY <1>1, CertTypes, QueueIssueEffect DEF CertsInHand, CertJobsInHand
<1>3. CertsInHand'
  BY <1>1, CertTypes, QueueIssueEffect DEF CertJobsInHand, CertsInHand
<1>4. OnlyResellerOrders'
  BY <1>1, CertTypes, QueueIssueEffect DEF CertsInHand, CertJobsInHand, OnlyResellerOrders
<1>5. FilesInHand'
  BY <1>1, CertTypes, QueueIssueEffect DEF CertsInHand, OnlyResellerOrders, FilesInHand
<1>6. ActiveIsReadable'
  BY <1>1, CertTypes, QueueIssueEffect DEF FilesInHand, CertsInHand, ActiveIsReadable
<1>7. (~certCrowded => CertTurns)'
  <2> SUFFICES ASSUME ~certCrowded'
               PROVE  CertTurns'
    OBVIOUS
  <2>1. QED
    BY <1>1, CertTypes, QueueIssueEffect DEF CertTurns, CertsInHand, Busy, LiveCert, Closed
<1>8. QED
  BY <1>2, <1>3, <1>4, <1>5, <1>6, <1>7 DEF CertInv

LEMMA QueueRenewalKeeps ==
    ASSUME CertTypeOK, CertInv, NEW w \in Workers, QueueRenewal(w)
    PROVE  CertInv'
<1> USE CertAssumption, JobsAssumption DEF CertAt, At, On
<1>1. /\ CertJobsInHand /\ CertsInHand /\ OnlyResellerOrders /\ FilesInHand
             /\ ActiveIsReadable
      /\ ~certCrowded => CertTurns
  BY DEF CertInv
<1>2. CertJobsInHand'
  BY <1>1, CertTypes, QueueRenewalEffect DEF CertsInHand, CertJobsInHand
<1>3. CertsInHand'
  BY <1>1, CertTypes, QueueRenewalEffect DEF CertJobsInHand, CertsInHand
<1>4. OnlyResellerOrders'
  BY <1>1, CertTypes, QueueRenewalEffect DEF CertsInHand, CertJobsInHand, OnlyResellerOrders
<1>5. FilesInHand'
  BY <1>1, CertTypes, QueueRenewalEffect DEF CertsInHand, OnlyResellerOrders, FilesInHand
<1>6. ActiveIsReadable'
  BY <1>1, CertTypes, QueueRenewalEffect DEF FilesInHand, CertsInHand, ActiveIsReadable
<1>7. (~certCrowded => CertTurns)'
  <2> SUFFICES ASSUME ~certCrowded'
               PROVE  CertTurns'
    OBVIOUS
  <2>1. QED
    BY <1>1, CertTypes, QueueRenewalEffect DEF CertTurns, CertsInHand, Busy, LiveCert,
        Closed
<1>8. QED
  BY <1>2, <1>3, <1>4, <1>5, <1>6, <1>7 DEF CertInv

LEMMA RevokeAtAcmeKeeps ==
    ASSUME CertTypeOK, CertInv, NEW w \in Workers, RevokeAtAcme(w)
    PROVE  CertInv'
<1> USE CertAssumption, JobsAssumption DEF CertAt, At, On
<1>1. /\ CertJobsInHand /\ CertsInHand /\ OnlyResellerOrders /\ FilesInHand
             /\ ActiveIsReadable
      /\ ~certCrowded => CertTurns
  BY DEF CertInv
<1>2. CertJobsInHand'
  BY <1>1, CertTypes, RevokeAtAcmeEffect DEF CertsInHand, CertJobsInHand
<1>3. CertsInHand'
  BY <1>1, CertTypes, RevokeAtAcmeEffect DEF CertJobsInHand, CertsInHand
<1>4. OnlyResellerOrders'
  BY <1>1, CertTypes, RevokeAtAcmeEffect DEF CertsInHand, CertJobsInHand, OnlyResellerOrders
<1>5. FilesInHand'
  BY <1>1, CertTypes, RevokeAtAcmeEffect DEF CertsInHand, OnlyResellerOrders, FilesInHand
<1>6. ActiveIsReadable'
  BY <1>1, CertTypes, RevokeAtAcmeEffect DEF FilesInHand, CertsInHand, ActiveIsReadable
<1>7. (~certCrowded => CertTurns)'
  <2> SUFFICES ASSUME ~certCrowded'
               PROVE  CertTurns'
    OBVIOUS
  <2>1. QED
    BY <1>1, CertTypes, RevokeAtAcmeEffect DEF CertTurns, CertsInHand, Busy, LiveCert,
        Closed
<1>8. QED
  BY <1>2, <1>3, <1>4, <1>5, <1>6, <1>7 DEF CertInv

LEMMA UnlinkFilesKeeps ==
    ASSUME CertTypeOK, CertInv, NEW w \in Workers, UnlinkFiles(w)
    PROVE  CertInv'
<1> USE CertAssumption, JobsAssumption DEF CertAt, At, On
<1>1. /\ CertJobsInHand /\ CertsInHand /\ OnlyResellerOrders /\ FilesInHand
             /\ ActiveIsReadable
      /\ ~certCrowded => CertTurns
  BY DEF CertInv
<1>2. CertJobsInHand'
  BY <1>1, CertTypes, UnlinkFilesEffect DEF CertsInHand, CertJobsInHand
<1>3. CertsInHand'
  BY <1>1, CertTypes, UnlinkFilesEffect DEF CertJobsInHand, CertsInHand
<1>4. OnlyResellerOrders'
  BY <1>1, CertTypes, UnlinkFilesEffect DEF CertsInHand, CertJobsInHand, OnlyResellerOrders
<1>5. FilesInHand'
  BY <1>1, CertTypes, UnlinkFilesEffect DEF CertsInHand, OnlyResellerOrders, FilesInHand
<1>6. ActiveIsReadable'
  BY <1>1, CertTypes, UnlinkFilesEffect DEF FilesInHand, CertsInHand, ActiveIsReadable
<1>7. (~certCrowded => CertTurns)'
  <2> SUFFICES ASSUME ~certCrowded'
               PROVE  CertTurns'
    OBVIOUS
  <2>1. QED
    BY <1>1, CertTypes, UnlinkFilesEffect DEF CertTurns, CertsInHand, Busy, LiveCert, Closed
<1>8. QED
  BY <1>2, <1>3, <1>4, <1>5, <1>6, <1>7 DEF CertInv

LEMMA MarkRevokedKeeps ==
    ASSUME CertTypeOK, CertInv, NEW w \in Workers, MarkRevoked(w)
    PROVE  CertInv'
<1> USE CertAssumption, JobsAssumption DEF CertAt, At, On
<1>1. /\ CertJobsInHand /\ CertsInHand /\ OnlyResellerOrders /\ FilesInHand
             /\ ActiveIsReadable
      /\ ~certCrowded => CertTurns
  BY DEF CertInv
<1>2. On(w) \in Certs
  BY <1>1 DEF MarkRevoked, CertsInHand
<1>3. CertJobsInHand'
  BY <1>1, CertTypes, MarkRevokedEffect, <1>2 DEF CertsInHand, CertJobsInHand
<1>4. CertsInHand'
  BY <1>1, CertTypes, MarkRevokedEffect, <1>2 DEF CertJobsInHand, CertsInHand
<1>5. OnlyResellerOrders'
  BY <1>1, CertTypes, MarkRevokedEffect, <1>2 DEF CertsInHand, CertJobsInHand,
      OnlyResellerOrders
<1>6. FilesInHand'
  BY <1>1, CertTypes, MarkRevokedEffect, <1>2 DEF CertsInHand, OnlyResellerOrders,
      FilesInHand
<1>7. ActiveIsReadable'
  BY <1>1, CertTypes, MarkRevokedEffect, <1>2 DEF FilesInHand, CertsInHand, ActiveIsReadable
<1>8. (~certCrowded => CertTurns)'
  <2> SUFFICES ASSUME ~certCrowded'
               PROVE  CertTurns'
    OBVIOUS
  <2>1. QED
    BY <1>1, CertTypes, MarkRevokedEffect, <1>2 DEF CertTurns, CertsInHand, Busy,
        LiveCert, Closed
<1>9. QED
  BY <1>3, <1>4, <1>5, <1>6, <1>7, <1>8 DEF CertInv

LEMMA RemoveCertKeeps ==
    ASSUME CertTypeOK, CertInv, NEW w \in Workers, RemoveCert(w)
    PROVE  CertInv'
<1> USE CertAssumption, JobsAssumption DEF CertAt, At, On
<1>1. /\ CertJobsInHand /\ CertsInHand /\ OnlyResellerOrders /\ FilesInHand
             /\ ActiveIsReadable
      /\ ~certCrowded => CertTurns
  BY DEF CertInv
<1>2. On(w) \in Certs
  BY <1>1 DEF RemoveCert, CertsInHand
<1>3. CertJobsInHand'
  BY <1>1, CertTypes, RemoveCertEffect, <1>2 DEF CertsInHand, CertJobsInHand
<1>4. CertsInHand'
  BY <1>1, CertTypes, RemoveCertEffect, <1>2 DEF CertJobsInHand, CertsInHand
<1>5. OnlyResellerOrders'
  BY <1>1, CertTypes, RemoveCertEffect, <1>2 DEF CertsInHand, CertJobsInHand,
      OnlyResellerOrders
<1>6. FilesInHand'
  BY <1>1, CertTypes, RemoveCertEffect, <1>2 DEF CertsInHand, OnlyResellerOrders,
      FilesInHand
<1>7. ActiveIsReadable'
  BY <1>1, CertTypes, RemoveCertEffect, <1>2 DEF FilesInHand, CertsInHand, ActiveIsReadable
<1>8. (~certCrowded => CertTurns)'
  <2> SUFFICES ASSUME ~certCrowded'
               PROVE  CertTurns'
    OBVIOUS
  <2>1. QED
    BY <1>1, CertTypes, RemoveCertEffect, <1>2 DEF CertTurns, CertsInHand, Busy,
        LiveCert, Closed
<1>9. QED
  BY <1>3, <1>4, <1>5, <1>6, <1>7, <1>8 DEF CertInv

LEMMA AcmeIssueKeeps ==
    ASSUME CertTypeOK, CertInv, NEW w \in Workers, AcmeIssue(w)
    PROVE  CertInv'
<1> USE CertAssumption, JobsAssumption DEF CertAt, At, On
<1>1. /\ CertJobsInHand /\ CertsInHand /\ OnlyResellerOrders /\ FilesInHand
             /\ ActiveIsReadable
      /\ ~certCrowded => CertTurns
  BY DEF CertInv
<1>2. CertJobsInHand'
  BY <1>1, CertTypes, AcmeIssueEffect DEF CertsInHand, CertJobsInHand
<1>3. CertsInHand'
  BY <1>1, CertTypes, AcmeIssueEffect DEF CertJobsInHand, CertsInHand
<1>4. OnlyResellerOrders'
  BY <1>1, CertTypes, AcmeIssueEffect DEF CertsInHand, CertJobsInHand, OnlyResellerOrders
<1>5. FilesInHand'
  BY <1>1, CertTypes, AcmeIssueEffect DEF CertsInHand, OnlyResellerOrders, FilesInHand
<1>6. ActiveIsReadable'
  BY <1>1, CertTypes, AcmeIssueEffect DEF FilesInHand, CertsInHand, ActiveIsReadable
<1>7. (~certCrowded => CertTurns)'
  <2> SUFFICES ASSUME ~certCrowded'
               PROVE  CertTurns'
    OBVIOUS
  <2>1. QED
    BY <1>1, CertTypes, AcmeIssueEffect DEF CertTurns, CertsInHand, Busy, LiveCert, Closed
<1>8. QED
  BY <1>2, <1>3, <1>4, <1>5, <1>6, <1>7 DEF CertInv

LEMMA AcmeSkipsKeeps ==
    ASSUME CertTypeOK, CertInv, NEW w \in Workers, AcmeSkips(w)
    PROVE  CertInv'
<1> USE CertAssumption, JobsAssumption DEF CertAt, At, On
<1>1. /\ CertJobsInHand /\ CertsInHand /\ OnlyResellerOrders /\ FilesInHand
             /\ ActiveIsReadable
      /\ ~certCrowded => CertTurns
  BY DEF CertInv
<1>2. CertJobsInHand'
  BY <1>1, CertTypes, AcmeSkipsEffect DEF CertsInHand, CertJobsInHand
<1>3. CertsInHand'
  BY <1>1, CertTypes, AcmeSkipsEffect DEF CertJobsInHand, CertsInHand
<1>4. OnlyResellerOrders'
  BY <1>1, CertTypes, AcmeSkipsEffect DEF CertsInHand, CertJobsInHand, OnlyResellerOrders
<1>5. FilesInHand'
  BY <1>1, CertTypes, AcmeSkipsEffect DEF CertsInHand, OnlyResellerOrders, FilesInHand
<1>6. ActiveIsReadable'
  BY <1>1, CertTypes, AcmeSkipsEffect DEF FilesInHand, CertsInHand, ActiveIsReadable
<1>7. (~certCrowded => CertTurns)'
  <2> SUFFICES ASSUME ~certCrowded'
               PROVE  CertTurns'
    OBVIOUS
  <2>1. QED
    BY <1>1, CertTypes, AcmeSkipsEffect DEF CertTurns, CertsInHand, Busy, LiveCert, Closed
<1>8. QED
  BY <1>2, <1>3, <1>4, <1>5, <1>6, <1>7 DEF CertInv

LEMMA IssueFailsKeeps ==
    ASSUME CertTypeOK, CertInv, NEW w \in Workers, IssueFails(w)
    PROVE  CertInv'
<1> USE CertAssumption, JobsAssumption DEF CertAt, At, On
<1>1. /\ CertJobsInHand /\ CertsInHand /\ OnlyResellerOrders /\ FilesInHand
             /\ ActiveIsReadable
      /\ ~certCrowded => CertTurns
  BY DEF CertInv
<1>2. CertJobsInHand'
  BY <1>1, CertTypes, IssueFailsEffect DEF CertsInHand, CertJobsInHand
<1>3. CertsInHand'
  BY <1>1, CertTypes, IssueFailsEffect DEF CertJobsInHand, CertsInHand
<1>4. OnlyResellerOrders'
  BY <1>1, CertTypes, IssueFailsEffect DEF CertsInHand, CertJobsInHand, OnlyResellerOrders
<1>5. FilesInHand'
  BY <1>1, CertTypes, IssueFailsEffect DEF CertsInHand, OnlyResellerOrders, FilesInHand
<1>6. ActiveIsReadable'
  BY <1>1, CertTypes, IssueFailsEffect DEF FilesInHand, CertsInHand, ActiveIsReadable
<1>7. (~certCrowded => CertTurns)'
  <2> SUFFICES ASSUME ~certCrowded'
               PROVE  CertTurns'
    OBVIOUS
  <2>1. QED
    BY <1>1, CertTypes, IssueFailsEffect DEF CertTurns, CertsInHand, Busy, LiveCert, Closed
<1>8. QED
  BY <1>2, <1>3, <1>4, <1>5, <1>6, <1>7 DEF CertInv

LEMMA CertNotSavedKeeps ==
    ASSUME CertTypeOK, CertInv, NEW w \in Workers, CertNotSaved(w)
    PROVE  CertInv'
<1> USE CertAssumption, JobsAssumption DEF CertAt, At, On
<1>1. /\ CertJobsInHand /\ CertsInHand /\ OnlyResellerOrders /\ FilesInHand
             /\ ActiveIsReadable
      /\ ~certCrowded => CertTurns
  BY DEF CertInv
<1>2. CertJobsInHand'
  BY <1>1, CertTypes, CertNotSavedEffect DEF CertsInHand, CertJobsInHand
<1>3. CertsInHand'
  BY <1>1, CertTypes, CertNotSavedEffect DEF CertJobsInHand, CertsInHand
<1>4. OnlyResellerOrders'
  BY <1>1, CertTypes, CertNotSavedEffect DEF CertsInHand, CertJobsInHand, OnlyResellerOrders
<1>5. FilesInHand'
  BY <1>1, CertTypes, CertNotSavedEffect DEF CertsInHand, OnlyResellerOrders, FilesInHand
<1>6. ActiveIsReadable'
  BY <1>1, CertTypes, CertNotSavedEffect DEF FilesInHand, CertsInHand, ActiveIsReadable
<1>7. (~certCrowded => CertTurns)'
  <2> SUFFICES ASSUME ~certCrowded'
               PROVE  CertTurns'
    OBVIOUS
  <2>1. QED
    BY <1>1, CertTypes, CertNotSavedEffect DEF CertTurns, CertsInHand, Busy, LiveCert,
        Closed
<1>8. QED
  BY <1>2, <1>3, <1>4, <1>5, <1>6, <1>7 DEF CertInv

LEMMA ActivateCertKeeps ==
    ASSUME CertTypeOK, CertInv, NEW w \in Workers, ActivateCert(w)
    PROVE  CertInv'
<1> USE CertAssumption, JobsAssumption DEF CertAt, At, On
<1>1. /\ CertJobsInHand /\ CertsInHand /\ OnlyResellerOrders /\ FilesInHand
             /\ ActiveIsReadable
      /\ ~certCrowded => CertTurns
  BY DEF CertInv
<1>2. On(w) \in Certs
  BY <1>1 DEF ActivateCert, CertsInHand
<1>3. \/ Finished(w, "ACTIVE") /\ cert'[On(w)].ordered = cert[On(w)].ordered
      \/ Unfinished(w, "cancel")
  BY <1>2, ActivateCertEffect
<1>4. \/ /\ cert[On(w)].status \notin {"NONE", "GONE"}
         /\ cert'[On(w)].status = "ACTIVE"
         /\ cert'[On(w)].provider = cert[On(w)].provider
         /\ cert'[On(w)].ordered = cert[On(w)].ordered
         /\ \A c \in Certs \ {On(w)} : cert'[c] = cert[c]
         /\ revived' = (revived \/ cert[On(w)].status \in Closed)
         /\ certHandler'[w].pc = "idle"
         /\ certHandler'[w].c = None
         /\ certHandler'[w].job = None
         /\ \A v \in Workers \ {w} : certHandler'[v] = certHandler[v]
         /\ \A i \in Jobs \ {certHandler[w].job} : certQueue'[i] = certQueue[i]
         /\ certHandler[w].job \in Jobs => certQueue'[certHandler[w].job].state = "none"
      \/ /\ cert' = cert /\ certQueue' = certQueue /\ revived' = revived
         /\ certHandler'[w].pc = "cancel"
         /\ certHandler'[w].c = certHandler[w].c
         /\ certHandler'[w].job = certHandler[w].job
         /\ \A v \in Workers \ {w} : certHandler'[v] = certHandler[v]
  <2>1. CASE Finished(w, "ACTIVE") /\ cert'[On(w)].ordered = cert[On(w)].ordered
    <3>1. /\ certHandler'[w].pc = "idle"
          /\ certHandler'[w].c = None
          /\ certHandler'[w].job = None
          /\ \A v \in Workers \ {w} : certHandler'[v] = certHandler[v]
      BY <2>1, CertReturns DEF Finished
    <3>2. /\ \A i \in Jobs \ {certHandler[w].job} : certQueue'[i] = certQueue[i]
          /\ certHandler[w].job \in Jobs => certQueue'[certHandler[w].job].state = "none"
      BY <2>1 DEF Finished, CertTypeOK, NoJob
    <3>3. QED
      BY <2>1, <3>1, <3>2 DEF Finished
  <2>2. CASE Unfinished(w, "cancel")
    BY <2>2, CertGoes DEF Unfinished
  <2>3. QED
    BY <1>3, <2>1, <2>2
<1>5. CertJobsInHand'
  BY <1>1, CertTypes, ActivateCertEffect, <1>2, <1>4 DEF CertsInHand, CertJobsInHand
<1>6. CertsInHand'
  BY <1>1, CertTypes, ActivateCertEffect, <1>2, <1>4 DEF CertJobsInHand, CertsInHand
<1>7. OnlyResellerOrders'
  BY <1>1, CertTypes, ActivateCertEffect, <1>2, <1>4 DEF CertsInHand, CertJobsInHand,
      OnlyResellerOrders
<1>8. FilesInHand'
  BY <1>1, CertTypes, ActivateCertEffect, <1>2, <1>4 DEF CertsInHand, OnlyResellerOrders,
      FilesInHand
<1>9. ActiveIsReadable'
  BY <1>1, CertTypes, ActivateCertEffect, <1>2, <1>4 DEF FilesInHand, CertsInHand,
      ActiveIsReadable
<1>10. (~certCrowded => CertTurns)'
  <2> SUFFICES ASSUME ~certCrowded'
               PROVE  CertTurns'
    OBVIOUS
  <2>1. /\ CertTurns /\ Busy(certHandler) = {w}
        /\ \A v \in Workers \ {w} : certHandler'[v].pc = "idle"
    BY <1>1, CertTypes, ActivateCertEffect, <1>2, <1>4 DEF CertTurns, Busy
  <2>2. \A u, v \in Busy(certHandler)' : u = v
    BY <2>1 DEF Busy
  <2>3. CASE revived'
    BY <2>2, <2>3 DEF CertTurns
  <2>4. CASE ~revived'
    <3>1. ~revived
      BY <1>1, CertTypes, ActivateCertEffect, <1>2, <1>4, <2>4
    <3>2. \A c \in Certs : cert'[c].status \in LiveCert => cert[c].status \in LiveCert
      <4>1. cert[On(w)].status \in CertStatus
        BY <1>2, CertTypes DEF CertRow
      <4>2. cert'[On(w)].status \in LiveCert => cert[On(w)].status \in LiveCert
        BY <1>4, <2>4, <4>1 DEF CertStatus, LiveCert, Closed
      <4>3. QED
        BY <1>4, <4>2
    <3>3. \A v \in Workers : certHandler'[v].pc # "create"
      BY <1>4, <2>1
    <3>4. QED
      BY <2>1, <2>2, <3>1, <3>2, <3>3 DEF CertTurns
  <2>5. QED
    BY <2>3, <2>4
<1>11. QED
  BY <1>5, <1>6, <1>7, <1>8, <1>9, <1>10 DEF CertInv

LEMMA SaveCertOrderKeeps ==
    ASSUME CertTypeOK, CertInv, NEW w \in Workers, SaveCertOrder(w)
    PROVE  CertInv'
<1> USE CertAssumption, JobsAssumption DEF CertAt, At, On
<1>1. /\ CertJobsInHand /\ CertsInHand /\ OnlyResellerOrders /\ FilesInHand
             /\ ActiveIsReadable
      /\ ~certCrowded => CertTurns
  BY DEF CertInv
<1>2. On(w) \in Certs
  BY <1>1 DEF SaveCertOrder, CertsInHand
<1>3. \/ Finished(w, "PENDING_VALIDATION")
      \/ Unfinished(w, "cancel")
  BY <1>2, SaveCertOrderEffect
<1>4. \/ /\ cert[On(w)].status \notin {"NONE", "GONE"}
         /\ cert'[On(w)].status = "PENDING_VALIDATION"
         /\ cert'[On(w)].provider = cert[On(w)].provider
         /\ \A c \in Certs \ {On(w)} : cert'[c] = cert[c]
         /\ revived' = (revived \/ cert[On(w)].status \in Closed)
         /\ certHandler'[w].pc = "idle"
         /\ certHandler'[w].c = None
         /\ certHandler'[w].job = None
         /\ \A v \in Workers \ {w} : certHandler'[v] = certHandler[v]
         /\ \A i \in Jobs \ {certHandler[w].job} : certQueue'[i] = certQueue[i]
         /\ certHandler[w].job \in Jobs => certQueue'[certHandler[w].job].state = "none"
      \/ /\ cert' = cert /\ certQueue' = certQueue /\ revived' = revived
         /\ certHandler'[w].pc = "cancel"
         /\ certHandler'[w].c = certHandler[w].c
         /\ certHandler'[w].job = certHandler[w].job
         /\ \A v \in Workers \ {w} : certHandler'[v] = certHandler[v]
  <2>1. CASE Finished(w, "PENDING_VALIDATION")
    <3>1. /\ certHandler'[w].pc = "idle"
          /\ certHandler'[w].c = None
          /\ certHandler'[w].job = None
          /\ \A v \in Workers \ {w} : certHandler'[v] = certHandler[v]
      BY <2>1, CertReturns DEF Finished
    <3>2. /\ \A i \in Jobs \ {certHandler[w].job} : certQueue'[i] = certQueue[i]
          /\ certHandler[w].job \in Jobs => certQueue'[certHandler[w].job].state = "none"
      BY <2>1 DEF Finished, CertTypeOK, NoJob
    <3>3. QED
      BY <2>1, <3>1, <3>2 DEF Finished
  <2>2. CASE Unfinished(w, "cancel")
    BY <2>2, CertGoes DEF Unfinished
  <2>3. QED
    BY <1>3, <2>1, <2>2
<1>5. CertJobsInHand'
  BY <1>1, CertTypes, SaveCertOrderEffect, <1>2, <1>4 DEF CertsInHand, CertJobsInHand
<1>6. CertsInHand'
  BY <1>1, CertTypes, SaveCertOrderEffect, <1>2, <1>4 DEF CertJobsInHand, CertsInHand
<1>7. OnlyResellerOrders'
  BY <1>1, CertTypes, SaveCertOrderEffect, <1>2, <1>4 DEF CertsInHand, CertJobsInHand,
      OnlyResellerOrders
<1>8. FilesInHand'
  BY <1>1, CertTypes, SaveCertOrderEffect, <1>2, <1>4 DEF CertsInHand,
      OnlyResellerOrders, FilesInHand
<1>9. ActiveIsReadable'
  BY <1>1, CertTypes, SaveCertOrderEffect, <1>2, <1>4 DEF FilesInHand, CertsInHand,
      ActiveIsReadable
<1>10. (~certCrowded => CertTurns)'
  <2> SUFFICES ASSUME ~certCrowded'
               PROVE  CertTurns'
    OBVIOUS
  <2>1. /\ CertTurns /\ Busy(certHandler) = {w}
        /\ \A v \in Workers \ {w} : certHandler'[v].pc = "idle"
    BY <1>1, CertTypes, SaveCertOrderEffect, <1>2, <1>4 DEF CertTurns, Busy
  <2>2. \A u, v \in Busy(certHandler)' : u = v
    BY <2>1 DEF Busy
  <2>3. CASE revived'
    BY <2>2, <2>3 DEF CertTurns
  <2>4. CASE ~revived'
    <3>1. ~revived
      BY <1>1, CertTypes, SaveCertOrderEffect, <1>2, <1>4, <2>4
    <3>2. \A c \in Certs : cert'[c].status \in LiveCert => cert[c].status \in LiveCert
      <4>1. cert[On(w)].status \in CertStatus
        BY <1>2, CertTypes DEF CertRow
      <4>2. cert'[On(w)].status \in LiveCert => cert[On(w)].status \in LiveCert
        BY <1>4, <2>4, <4>1 DEF CertStatus, LiveCert, Closed
      <4>3. QED
        BY <1>4, <4>2
    <3>3. \A v \in Workers : certHandler'[v].pc # "create"
      BY <1>4, <2>1
    <3>4. QED
      BY <2>1, <2>2, <3>1, <3>2, <3>3 DEF CertTurns
  <2>5. QED
    BY <2>3, <2>4
<1>11. QED
  BY <1>5, <1>6, <1>7, <1>8, <1>9, <1>10 DEF CertInv

LEMMA SaveCertRenewalKeeps ==
    ASSUME CertTypeOK, CertInv, NEW w \in Workers, SaveCertRenewal(w)
    PROVE  CertInv'
<1> USE CertAssumption, JobsAssumption DEF CertAt, At, On
<1>1. /\ CertJobsInHand /\ CertsInHand /\ OnlyResellerOrders /\ FilesInHand
             /\ ActiveIsReadable
      /\ ~certCrowded => CertTurns
  BY DEF CertInv
<1>2. On(w) \in Certs
  BY <1>1 DEF SaveCertRenewal, CertsInHand
<1>3. \/ Finished(w, "ACTIVE") /\ cert'[On(w)].ordered = cert[On(w)].ordered
      \/ Unfinished(w, "retry")
  BY <1>2, SaveCertRenewalEffect
<1>4. \/ /\ cert[On(w)].status \notin {"NONE", "GONE"}
         /\ cert'[On(w)].status = "ACTIVE"
         /\ cert'[On(w)].provider = cert[On(w)].provider
         /\ cert'[On(w)].ordered = cert[On(w)].ordered
         /\ \A c \in Certs \ {On(w)} : cert'[c] = cert[c]
         /\ revived' = (revived \/ cert[On(w)].status \in Closed)
         /\ certHandler'[w].pc = "idle"
         /\ certHandler'[w].c = None
         /\ certHandler'[w].job = None
         /\ \A v \in Workers \ {w} : certHandler'[v] = certHandler[v]
         /\ \A i \in Jobs \ {certHandler[w].job} : certQueue'[i] = certQueue[i]
         /\ certHandler[w].job \in Jobs => certQueue'[certHandler[w].job].state = "none"
      \/ /\ cert' = cert /\ certQueue' = certQueue /\ revived' = revived
         /\ certHandler'[w].pc = "retry"
         /\ certHandler'[w].c = certHandler[w].c
         /\ certHandler'[w].job = certHandler[w].job
         /\ \A v \in Workers \ {w} : certHandler'[v] = certHandler[v]
  <2>1. CASE Finished(w, "ACTIVE") /\ cert'[On(w)].ordered = cert[On(w)].ordered
    <3>1. /\ certHandler'[w].pc = "idle"
          /\ certHandler'[w].c = None
          /\ certHandler'[w].job = None
          /\ \A v \in Workers \ {w} : certHandler'[v] = certHandler[v]
      BY <2>1, CertReturns DEF Finished
    <3>2. /\ \A i \in Jobs \ {certHandler[w].job} : certQueue'[i] = certQueue[i]
          /\ certHandler[w].job \in Jobs => certQueue'[certHandler[w].job].state = "none"
      BY <2>1 DEF Finished, CertTypeOK, NoJob
    <3>3. QED
      BY <2>1, <3>1, <3>2 DEF Finished
  <2>2. CASE Unfinished(w, "retry")
    BY <2>2, CertGoes DEF Unfinished
  <2>3. QED
    BY <1>3, <2>1, <2>2
<1>5. CertJobsInHand'
  BY <1>1, CertTypes, SaveCertRenewalEffect, <1>2, <1>4 DEF CertsInHand, CertJobsInHand
<1>6. CertsInHand'
  BY <1>1, CertTypes, SaveCertRenewalEffect, <1>2, <1>4 DEF CertJobsInHand, CertsInHand
<1>7. OnlyResellerOrders'
  BY <1>1, CertTypes, SaveCertRenewalEffect, <1>2, <1>4 DEF CertsInHand, CertJobsInHand,
      OnlyResellerOrders
<1>8. FilesInHand'
  BY <1>1, CertTypes, SaveCertRenewalEffect, <1>2, <1>4 DEF CertsInHand,
      OnlyResellerOrders, FilesInHand
<1>9. ActiveIsReadable'
  BY <1>1, CertTypes, SaveCertRenewalEffect, <1>2, <1>4 DEF FilesInHand, CertsInHand,
      ActiveIsReadable
<1>10. (~certCrowded => CertTurns)'
  <2> SUFFICES ASSUME ~certCrowded'
               PROVE  CertTurns'
    OBVIOUS
  <2>1. /\ CertTurns /\ Busy(certHandler) = {w}
        /\ \A v \in Workers \ {w} : certHandler'[v].pc = "idle"
    BY <1>1, CertTypes, SaveCertRenewalEffect, <1>2, <1>4 DEF CertTurns, Busy
  <2>2. \A u, v \in Busy(certHandler)' : u = v
    BY <2>1 DEF Busy
  <2>3. CASE revived'
    BY <2>2, <2>3 DEF CertTurns
  <2>4. CASE ~revived'
    <3>1. ~revived
      BY <1>1, CertTypes, SaveCertRenewalEffect, <1>2, <1>4, <2>4
    <3>2. \A c \in Certs : cert'[c].status \in LiveCert => cert[c].status \in LiveCert
      <4>1. cert[On(w)].status \in CertStatus
        BY <1>2, CertTypes DEF CertRow
      <4>2. cert'[On(w)].status \in LiveCert => cert[On(w)].status \in LiveCert
        BY <1>4, <2>4, <4>1 DEF CertStatus, LiveCert, Closed
      <4>3. QED
        BY <1>4, <4>2
    <3>3. \A v \in Workers : certHandler'[v].pc # "create"
      BY <1>4, <2>1
    <3>4. QED
      BY <2>1, <2>2, <3>1, <3>2, <3>3 DEF CertTurns
  <2>5. QED
    BY <2>3, <2>4
<1>11. QED
  BY <1>5, <1>6, <1>7, <1>8, <1>9, <1>10 DEF CertInv

LEMMA CancelCertKeeps ==
    ASSUME CertTypeOK, CertInv, NEW w \in Workers, CancelCert(w)
    PROVE  CertInv'
<1> USE CertAssumption, JobsAssumption DEF CertAt, At, On
<1>1. /\ CertJobsInHand /\ CertsInHand /\ OnlyResellerOrders /\ FilesInHand
             /\ ActiveIsReadable
      /\ ~certCrowded => CertTurns
  BY DEF CertInv
<1>2. On(w) \in Certs
  BY <1>1 DEF CancelCert, CertsInHand
<1>3. CertJobsInHand'
  BY <1>1, CertTypes, CancelCertEffect, <1>2 DEF CertsInHand, CertJobsInHand
<1>4. CertsInHand'
  BY <1>1, CertTypes, CancelCertEffect, <1>2 DEF CertJobsInHand, CertsInHand
<1>5. OnlyResellerOrders'
  BY <1>1, CertTypes, CancelCertEffect, <1>2 DEF CertsInHand, CertJobsInHand,
      OnlyResellerOrders
<1>6. FilesInHand'
  BY <1>1, CertTypes, CancelCertEffect, <1>2 DEF CertsInHand, OnlyResellerOrders,
      FilesInHand
<1>7. ActiveIsReadable'
  BY <1>1, CertTypes, CancelCertEffect, <1>2 DEF FilesInHand, CertsInHand, ActiveIsReadable
<1>8. (~certCrowded => CertTurns)'
  <2> SUFFICES ASSUME ~certCrowded'
               PROVE  CertTurns'
    OBVIOUS
  <2>1. QED
    BY <1>1, CertTypes, CancelCertEffect, <1>2 DEF CertTurns, CertsInHand, Busy,
        LiveCert, Closed
<1>9. QED
  BY <1>3, <1>4, <1>5, <1>6, <1>7, <1>8 DEF CertInv

LEMMA RetryCertJobKeeps ==
    ASSUME CertTypeOK, CertInv, NEW w \in Workers, RetryCertJob(w)
    PROVE  CertInv'
<1> USE CertAssumption, JobsAssumption DEF CertAt, At, On
<1>1. /\ CertJobsInHand /\ CertsInHand /\ OnlyResellerOrders /\ FilesInHand
             /\ ActiveIsReadable
      /\ ~certCrowded => CertTurns
  BY DEF CertInv
<1>2. CertJobsInHand'
  BY <1>1, CertTypes, RetryCertJobEffect DEF CertsInHand, CertJobsInHand
<1>3. CertsInHand'
  BY <1>1, CertTypes, RetryCertJobEffect DEF CertJobsInHand, CertsInHand
<1>4. OnlyResellerOrders'
  BY <1>1, CertTypes, RetryCertJobEffect DEF CertsInHand, CertJobsInHand, OnlyResellerOrders
<1>5. FilesInHand'
  BY <1>1, CertTypes, RetryCertJobEffect DEF CertsInHand, OnlyResellerOrders, FilesInHand
<1>6. ActiveIsReadable'
  BY <1>1, CertTypes, RetryCertJobEffect DEF FilesInHand, CertsInHand, ActiveIsReadable
<1>7. (~certCrowded => CertTurns)'
  <2> SUFFICES ASSUME ~certCrowded'
               PROVE  CertTurns'
    OBVIOUS
  <2>1. QED
    BY <1>1, CertTypes, RetryCertJobEffect DEF CertTurns, CertsInHand, Busy, LiveCert,
        Closed
<1>8. QED
  BY <1>2, <1>3, <1>4, <1>5, <1>6, <1>7 DEF CertInv

LEMMA RenewCertKeeps ==
    ASSUME CertTypeOK, CertInv, NEW w \in Workers, RenewCert(w)
    PROVE  CertInv'
<1> USE CertAssumption, JobsAssumption DEF CertAt, At, On
<1>1. /\ CertJobsInHand /\ CertsInHand /\ OnlyResellerOrders /\ FilesInHand
             /\ ActiveIsReadable
      /\ ~certCrowded => CertTurns
  BY DEF CertInv
<1>2. CertJobsInHand'
  BY <1>1, CertTypes, RenewCertEffect DEF CertsInHand, CertJobsInHand
<1>3. CertsInHand'
  BY <1>1, CertTypes, RenewCertEffect DEF CertJobsInHand, CertsInHand
<1>4. OnlyResellerOrders'
  BY <1>1, CertTypes, RenewCertEffect DEF CertsInHand, CertJobsInHand, OnlyResellerOrders
<1>5. FilesInHand'
  BY <1>1, CertTypes, RenewCertEffect DEF CertsInHand, OnlyResellerOrders, FilesInHand
<1>6. ActiveIsReadable'
  BY <1>1, CertTypes, RenewCertEffect DEF FilesInHand, CertsInHand, ActiveIsReadable
<1>7. (~certCrowded => CertTurns)'
  <2> SUFFICES ASSUME ~certCrowded'
               PROVE  CertTurns'
    OBVIOUS
  <2>1. QED
    BY <1>1, CertTypes, RenewCertEffect DEF CertTurns, CertsInHand, Busy, LiveCert, Closed
<1>8. QED
  BY <1>2, <1>3, <1>4, <1>5, <1>6, <1>7 DEF CertInv

LEMMA RenewalFailsKeeps ==
    ASSUME CertTypeOK, CertInv, NEW w \in Workers, RenewalFails(w)
    PROVE  CertInv'
<1> USE CertAssumption, JobsAssumption DEF CertAt, At, On
<1>1. /\ CertJobsInHand /\ CertsInHand /\ OnlyResellerOrders /\ FilesInHand
             /\ ActiveIsReadable
      /\ ~certCrowded => CertTurns
  BY DEF CertInv
<1>2. CertJobsInHand'
  BY <1>1, CertTypes, RenewalFailsEffect DEF CertsInHand, CertJobsInHand
<1>3. CertsInHand'
  BY <1>1, CertTypes, RenewalFailsEffect DEF CertJobsInHand, CertsInHand
<1>4. OnlyResellerOrders'
  BY <1>1, CertTypes, RenewalFailsEffect DEF CertsInHand, CertJobsInHand, OnlyResellerOrders
<1>5. FilesInHand'
  BY <1>1, CertTypes, RenewalFailsEffect DEF CertsInHand, OnlyResellerOrders, FilesInHand
<1>6. ActiveIsReadable'
  BY <1>1, CertTypes, RenewalFailsEffect DEF FilesInHand, CertsInHand, ActiveIsReadable
<1>7. (~certCrowded => CertTurns)'
  <2> SUFFICES ASSUME ~certCrowded'
               PROVE  CertTurns'
    OBVIOUS
  <2>1. QED
    BY <1>1, CertTypes, RenewalFailsEffect DEF CertTurns, CertsInHand, Busy, LiveCert,
        Closed
<1>8. QED
  BY <1>2, <1>3, <1>4, <1>5, <1>6, <1>7 DEF CertInv

LEMMA CertBreaksOffKeeps ==
    ASSUME CertTypeOK, CertInv, NEW w \in Workers, CertBreaksOff(w)
    PROVE  CertInv'
<1> USE CertAssumption, JobsAssumption DEF CertAt, At, On
<1>1. /\ CertJobsInHand /\ CertsInHand /\ OnlyResellerOrders /\ FilesInHand
             /\ ActiveIsReadable
      /\ ~certCrowded => CertTurns
  BY DEF CertInv
<1>2. CertJobsInHand'
  BY <1>1, CertTypes, CertBreaksOffEffect DEF CertsInHand, CertJobsInHand
<1>3. CertsInHand'
  BY <1>1, CertTypes, CertBreaksOffEffect DEF CertJobsInHand, CertsInHand
<1>4. OnlyResellerOrders'
  BY <1>1, CertTypes, CertBreaksOffEffect DEF CertsInHand, CertJobsInHand,
      OnlyResellerOrders
<1>5. FilesInHand'
  BY <1>1, CertTypes, CertBreaksOffEffect DEF CertsInHand, OnlyResellerOrders, FilesInHand
<1>6. ActiveIsReadable'
  BY <1>1, CertTypes, CertBreaksOffEffect DEF FilesInHand, CertsInHand, ActiveIsReadable
<1>7. (~certCrowded => CertTurns)'
  <2> SUFFICES ASSUME ~certCrowded'
               PROVE  CertTurns'
    OBVIOUS
  <2>1. QED
    BY <1>1, CertTypes, CertBreaksOffEffect DEF CertTurns, CertsInHand, Busy, LiveCert,
        Closed
<1>8. QED
  BY <1>2, <1>3, <1>4, <1>5, <1>6, <1>7 DEF CertInv

LEMMA CertInitInv == CertInit => CertTypeOK /\ CertInv
<1> SUFFICES ASSUME CertInit
             PROVE  CertTypeOK /\ CertInv
  OBVIOUS
<1>1. CertTypeOK
  <2>1. cert \in [Certs -> CertRow]
    BY DEF CertInit, NoCert, CertRow, CertStatus
  <2>2. certQueue \in [Jobs -> CertJob]
    BY CertQueueTypes DEF CertInit
  <2>3. certHandler \in [Workers -> HandlerRecord]
    BY DEF CertInit, CertSteps, IdleCert, HandlerRecord
  <2>4. /\ onDisk \in BOOLEAN /\ revived \in BOOLEAN /\ wiped \in BOOLEAN
        /\ certCut \in BOOLEAN /\ certCrowded \in BOOLEAN
        /\ known \in BOOLEAN /\ skipped \in BOOLEAN /\ unshown \in BOOLEAN
    BY DEF CertInit
  <2>5. certFaults \in 0..MaxCertFaults
    BY CertAssumption DEF CertInit
  <2>6. QED
    BY <2>1, <2>2, <2>3, <2>4, <2>5 DEF CertTypeOK, CertRow, HandlerRecord
<1>2. /\ \A j \in Jobs : certQueue[j].state = "none"
      /\ \A w \in Workers : certHandler[w].pc = "idle" /\ certHandler[w].job = None
      /\ \A c \in Certs : cert[c].status = "NONE" /\ cert[c].ordered = FALSE
  BY DEF CertInit, NoJob, IdleCert, NoCert
<1>3. /\ CertJobsInHand /\ CertsInHand /\ OnlyResellerOrders /\ FilesInHand
      /\ ActiveIsReadable
  BY <1>2 DEF CertJobsInHand, CertsInHand, OnlyResellerOrders, FilesInHand,
              ActiveIsReadable, CertAt, At
<1>4. CertTurns
  BY <1>2 DEF CertTurns, Busy, CertAt, At, LiveCert
<1>5. QED
  BY <1>1, <1>3, <1>4 DEF CertInv

LEMMA CertStepInv == CertTypeOK /\ CertInv /\ [CertNext]_certVars => CertTypeOK' /\ CertInv'
<1> SUFFICES ASSUME CertTypeOK, CertInv, [CertNext]_certVars
             PROVE  CertTypeOK' /\ CertInv'
  OBVIOUS
<1>1. ASSUME NEW w \in Workers, StartCertHandler(w)
      PROVE  CertTypeOK' /\ CertInv'
  <2>1. ASSUME NEW provider \in Provider, IssueCertificate(w, provider)
        PROVE  CertTypeOK' /\ CertInv'
    BY <2>1, IssueCertificateType, IssueCertificateKeeps
  <2>2. ASSUME NEW c \in Certs, RenewCertificate(w, c)
        PROVE  CertTypeOK' /\ CertInv'
    BY <2>2, RenewCertificateType, RenewCertificateKeeps
  <2>3. ASSUME NEW c \in Certs, RevokeCertificate(w, c)
        PROVE  CertTypeOK' /\ CertInv'
    BY <2>3, RevokeCertificateType, RevokeCertificateKeeps
  <2>4. ASSUME NEW c \in Certs, DeleteCertificate(w, c)
        PROVE  CertTypeOK' /\ CertInv'
    BY <2>4, DeleteCertificateType, DeleteCertificateKeeps
  <2>5. QED
    BY <1>1, <2>1, <2>2, <2>3, <2>4 DEF StartCertHandler
<1>2. ASSUME NEW w \in Workers, ContinueCert(w)
      PROVE  CertTypeOK' /\ CertInv'
  <2>1. CASE CreateCert(w)
    BY <2>1, CreateCertType, CreateCertKeeps
  <2>2. CASE QueueIssue(w)
    BY <2>2, QueueIssueType, QueueIssueKeeps
  <2>3. CASE QueueRenewal(w)
    BY <2>3, QueueRenewalType, QueueRenewalKeeps
  <2>4. CASE RevokeAtAcme(w)
    BY <2>4, RevokeAtAcmeType, RevokeAtAcmeKeeps
  <2>5. CASE MarkRevoked(w)
    BY <2>5, MarkRevokedType, MarkRevokedKeeps
  <2>6. CASE UnlinkFiles(w)
    BY <2>6, UnlinkFilesType, UnlinkFilesKeeps
  <2>7. CASE RemoveCert(w)
    BY <2>7, RemoveCertType, RemoveCertKeeps
  <2>8. CASE AcmeIssue(w)
    BY <2>8, AcmeIssueType, AcmeIssueKeeps
  <2>9. CASE IssueFails(w)
    BY <2>9, IssueFailsType, IssueFailsKeeps
  <2>10. CASE CertNotSaved(w)
    BY <2>10, CertNotSavedType, CertNotSavedKeeps
  <2>11. CASE ActivateCert(w)
    BY <2>11, ActivateCertType, ActivateCertKeeps
  <2>12. CASE SaveCertOrder(w)
    BY <2>12, SaveCertOrderType, SaveCertOrderKeeps
  <2>13. CASE CancelCert(w)
    BY <2>13, CancelCertType, CancelCertKeeps
  <2>14. CASE RetryCertJob(w)
    BY <2>14, RetryCertJobType, RetryCertJobKeeps
  <2>15. CASE RenewCert(w)
    BY <2>15, RenewCertType, RenewCertKeeps
  <2>16. CASE RenewalFails(w)
    BY <2>16, RenewalFailsType, RenewalFailsKeeps
  <2>17. CASE SaveCertRenewal(w)
    BY <2>17, SaveCertRenewalType, SaveCertRenewalKeeps
  <2>18. CASE AcmeSkips(w)
    BY <2>18, AcmeSkipsType, AcmeSkipsKeeps
  <2>19. QED
    BY <1>2, <2>18, <2>1, <2>2, <2>3, <2>4, <2>5, <2>6, <2>7, <2>8, <2>9, <2>10, <2>11,
        <2>12,
        <2>13, <2>14, <2>15, <2>16, <2>17 DEF ContinueCert
<1>3. ASSUME NEW w \in Workers, CertBreaksOff(w)
      PROVE  CertTypeOK' /\ CertInv'
  BY <1>3, CertBreaksOffType, CertBreaksOffKeeps
<1>4. ASSUME NEW j \in Jobs, NEW w \in Workers, TakeIssue(w, j)
      PROVE  CertTypeOK' /\ CertInv'
  BY <1>4, TakeIssueType, TakeIssueKeeps
<1>5. ASSUME NEW j \in Jobs, NEW w \in Workers, TakeRenewal(w, j)
      PROVE  CertTypeOK' /\ CertInv'
  BY <1>5, TakeRenewalType, TakeRenewalKeeps
<1>6. ASSUME UNCHANGED certVars
      PROVE  CertTypeOK' /\ CertInv'
  <2>1. CertTypeOK'
    BY <1>6 DEF certVars, disk, certHistories, CertTypeOK
  <2>2. CertInv'
    BY <1>6 DEF certVars, disk, certHistories, CertInv, CertJobsInHand, CertsInHand,
                OnlyResellerOrders, FilesInHand, ActiveIsReadable, CertTurns, Busy, On,
                CertAt, At
  <2>3. QED
    BY <2>1, <2>2
<1>7. QED
  BY <1>1, <1>2, <1>3, <1>4, <1>5, <1>6 DEF CertNext, TakesCertJob

LEMMA CertInvariant == CertSpec => [](CertTypeOK /\ CertInv)
<1>1. QED
  BY CertInitInv, CertStepInv, PTL DEF CertSpec

--------------------------------------------------------------------------------

\* The rows, the jobs and the handlers keep their types.
THEOREM CertTypeCorrect == CertSpec => []CertTypeOK
<1>1. QED
  BY CertInvariant, PTL

\* Handlers that take turns leave a domain one live certificate, unless a job has made
\* a closed one live again.
THEOREM OneCertIsLive == CertSpec => []OneLiveCert
<1>1. CertInv => OneLiveCert
  BY DEF CertInv, CertTurns, OneLiveCert
<1>2. QED
  BY <1>1, CertInvariant, PTL

\* However handlers and jobs overlap, an active Let's Encrypt certificate has its files,
\* unless they went with another certificate's, acme.sh skipped an issue when they were
\* gone, or a handler broke off.
THEOREM ActiveCertIsReadable == CertSpec => []ActiveIsReadable
<1>1. CertInv => ActiveIsReadable
  BY DEF CertInv
<1>2. QED
  BY <1>1, CertInvariant, PTL

================================================================================
