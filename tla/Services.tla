-------------------------------- MODULE Services --------------------------------
(****************************************************************************)
(* The services that share no state, put together: a behaviour runs one of  *)
(* them, chosen at the start, while the others rest.                        *)
(****************************************************************************)
EXTENDS DomainProperties, MailboxProperties, CertificateProperties, ReminderProperties,
        SagaProperties

CONSTANT Parts      \* the services to choose from

VARIABLE part

allVars == <<part, domainVars, mailVars, certVars, reminderVars, sagaVars>>

ServicesInit ==
    /\ part \in Parts
    /\ DomainInit /\ MailInit /\ CertInit /\ ReminderInit /\ SagaInit

Only(service, others) == part = service /\ UNCHANGED part /\ UNCHANGED others

OnlyDomains == Only("domains", <<mailVars, certVars, reminderVars, sagaVars>>)
OnlyMail == Only("mail", <<domainVars, certVars, reminderVars, sagaVars>>)
OnlyCerts == Only("certificates", <<domainVars, mailVars, reminderVars, sagaVars>>)
OnlyReminders == Only("reminders", <<domainVars, mailVars, certVars, sagaVars>>)
OnlySaga == Only("saga", <<domainVars, mailVars, certVars, reminderVars>>)

ServicesNext ==
    \/ OnlyDomains /\ DomainNext
    \/ OnlyMail /\ MailNext
    \/ OnlyCerts /\ CertNext
    \/ OnlyReminders /\ ReminderNext
    \/ OnlySaga /\ SagaNext

ServicesSpec == ServicesInit /\ [][ServicesNext]_allVars

\* Every row, queue and handler of the services has its type, also where the provider's
\* view decides what a handler may write (SaveRenewal keeps within the registrar's term).
ServicesTypeOK == DomainTypeOK /\ MailTypeOK /\ CertTypeOK /\ SagaTypeOK

\* A handler that has been started goes on: queries and calls end (axios gives up
\* after 30 seconds, acme.sh after five minutes).  Bull takes every waiting job, for
\* request handlers do not occupy its workers.
Continues(w) ==
    \/ OnlyDomains /\ Continue(w)
    \/ OnlyMail /\ ContinueMail(w)
    \/ OnlyCerts /\ ContinueCert(w)

Takes(j) ==
    \/ OnlyMail /\ TakesMailJob(j)
    \/ OnlyCerts /\ TakesCertJob(j)

ServicesFairness ==
    /\ \A w \in Workers : WF_allVars(Continues(w))
    /\ \A j \in Jobs : SF_allVars(Takes(j))

FairServicesSpec == ServicesSpec /\ ServicesFairness

================================================================================
