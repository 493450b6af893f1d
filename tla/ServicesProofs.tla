----------------------------- MODULE ServicesProofs -----------------------------
(****************************************************************************)
(* The saga orchestrator proved for any number of steps, the reminder claim *)
(* for any number of accounts and sweeps, and the services put together.    *)
(****************************************************************************)
EXTENDS Services, DomainProofs, MailboxProofs, CertificateProofs

--------------------------------------------------------------------------------
\* The saga.

LEMMA SagaTypeInit == SagaInit => SagaTypeOK
  BY SagaAssumption DEF SagaInit, SagaTypeOK, SagaStep, SagaStatus, Forward, Backward

LEMMA SagaTypeStep == SagaTypeOK /\ SagaInv /\ [SagaNext]_sagaVars => SagaTypeOK'
<1>0. SUFFICES ASSUME SagaTypeOK, SagaInv, [SagaNext]_sagaVars PROVE SagaTypeOK'
  OBVIOUS
<1>1. CASE StartSaga
  BY <1>0, <1>1, SagaAssumption DEF StartSaga, SagaTypeOK, SagaAt, SagaMoves, SagaStep,
      SagaStatus, Forward, Backward
<1>2. CASE BeginStep
  BY <1>0, <1>2, SagaAssumption DEF BeginStep, SagaTypeOK, SagaAt, SagaMoves, SagaStep,
      SagaStatus, Forward, Backward
<1>3. CASE ExecuteStep
  BY <1>0, <1>3, SagaAssumption DEF ExecuteStep, SagaTypeOK, SagaAt, SagaMoves, SagaStep,
      SagaStatus, Forward, Backward
<1>4. CASE RecordStep
  BY <1>0, <1>4, SagaAssumption DEF RecordStep, SagaTypeOK, SagaAt, SagaMoves, SagaStep,
      SagaStatus, Forward, Backward
<1>5. CASE StepFails
  BY <1>0, <1>5, SagaAssumption DEF StepFails, SagaTypeOK, SagaAt, SagaMoves, SagaStep,
      SagaStatus, Forward, Backward
<1>6. CASE CompleteSaga
  BY <1>0, <1>6, SagaAssumption DEF CompleteSaga, SagaTypeOK, SagaAt, SagaMoves,
      SagaStep, SagaStatus, Forward, Backward
<1>7. CASE FailSaga
  BY <1>0, <1>7, SagaAssumption DEF FailSaga, SagaTypeOK, SagaAt, SagaMoves, SagaStep,
      SagaStatus, Forward, Backward
<1>8. CASE Compensate
  BY <1>0, <1>8, SagaAssumption DEF Compensate, SagaInv, GivingUp, SagaTypeOK, SagaAt,
      SagaMoves, SagaStep, SagaStatus, Forward, Backward
<1>9. CASE BeginUndo
  BY <1>0, <1>9, SagaAssumption DEF BeginUndo, SagaTypeOK, SagaAt, SagaMoves, SagaStep,
      SagaStatus, Forward, Backward
<1>10. CASE UndoStep
  BY <1>0, <1>10, SagaAssumption DEF UndoStep, SagaTypeOK, SagaAt, SagaMoves, SagaStep,
      SagaStatus, Forward, Backward
<1>11. CASE UndoFails
  BY <1>0, <1>11, SagaAssumption DEF UndoFails, SagaTypeOK, SagaAt, SagaMoves, SagaStep,
      SagaStatus, Forward, Backward
<1>12. CASE RecordUndoFails
  BY <1>0, <1>12, SagaAssumption DEF RecordUndoFails, SagaTypeOK, SagaAt, SagaMoves,
      SagaStep, SagaStatus, Forward, Backward
<1>13. CASE NextUndo
  BY <1>0, <1>13, SagaAssumption DEF NextUndo, SagaTypeOK, SagaAt, SagaMoves, SagaStep,
      SagaStatus, Forward, Backward
<1>14. CASE FinishCompensation
  BY <1>0, <1>14, SagaAssumption DEF FinishCompensation, SagaTypeOK, SagaAt, SagaMoves,
      SagaStep, SagaStatus, Forward, Backward
<1>15. CASE BreakOff
  BY <1>0, <1>15, SagaAssumption DEF BreakOff, SagaTypeOK, SagaAt, SagaMoves, SagaStep,
      SagaStatus, Forward, Backward
<1>16. CASE UNCHANGED sagaVars
  BY <1>0, <1>16 DEF sagaVars, SagaTypeOK, SagaAt, SagaMoves, SagaStep, SagaStatus,
      Forward, Backward
<1>17. QED
  BY <1>0, <1>1, <1>2, <1>3, <1>4, <1>5, <1>6, <1>7, <1>8, <1>9, <1>10, <1>11, <1>12,
      <1>13, <1>14, <1>15, <1>16 DEF SagaNext

--------------------------------------------------------------------------------

LEMMA SagaInvInit == SagaInit => SagaInv
  BY SagaAssumption DEF SagaInit, SagaInv, GoingForward, GivingUp, GoingBack, Left, IsOpen,
     Forward, Backward, SagaAt

LEMMA SagaInvStep == SagaTypeOK /\ SagaInv /\ [SagaNext]_sagaVars => SagaInv'
<1>0. SUFFICES ASSUME SagaTypeOK, SagaInv, [SagaNext]_sagaVars PROVE SagaInv'
  OBVIOUS
<1>1. CASE StartSaga
  BY <1>0, <1>1, SagaAssumption DEF StartSaga, SagaTypeOK, SagaInv, GoingForward,
      GivingUp, GoingBack, Left, IsOpen,
     StatusIsTrue, SagaStep, SagaAt, SagaMoves, Forward, Backward
<1>2. CASE BeginStep
  BY <1>0, <1>2, SagaAssumption DEF BeginStep, SagaTypeOK, SagaInv, GoingForward,
      GivingUp, GoingBack, Left, IsOpen,
     StatusIsTrue, SagaStep, SagaAt, SagaMoves, Forward, Backward
<1>3. CASE ExecuteStep
  BY <1>0, <1>3, SagaAssumption DEF ExecuteStep, SagaTypeOK, SagaInv, GoingForward,
      GivingUp, GoingBack, Left, IsOpen,
     StatusIsTrue, SagaStep, SagaAt, SagaMoves, Forward, Backward
<1>4. CASE RecordStep
  BY <1>0, <1>4, SagaAssumption DEF RecordStep, SagaTypeOK, SagaInv, GoingForward,
      GivingUp, GoingBack, Left, IsOpen,
     StatusIsTrue, SagaStep, SagaAt, SagaMoves, Forward, Backward
<1>5. CASE StepFails
  BY <1>0, <1>5, SagaAssumption DEF StepFails, SagaTypeOK, SagaInv, GoingForward,
      GivingUp, GoingBack, Left, IsOpen,
     StatusIsTrue, SagaStep, SagaAt, SagaMoves, Forward, Backward
<1>6. CASE CompleteSaga
  BY <1>0, <1>6, SagaAssumption DEF CompleteSaga, SagaTypeOK, SagaInv, GoingForward,
      GivingUp, GoingBack, Left, IsOpen,
     StatusIsTrue, SagaStep, SagaAt, SagaMoves, Forward, Backward
<1>7. CASE FailSaga
  BY <1>0, <1>7, SagaAssumption DEF FailSaga, SagaTypeOK, SagaInv, GoingForward,
      GivingUp, GoingBack, Left, IsOpen,
     StatusIsTrue, SagaStep, SagaAt, SagaMoves, Forward, Backward
<1>8. CASE Compensate
  BY <1>0, <1>8, SagaAssumption DEF Compensate, SagaInv, GivingUp, SagaTypeOK, SagaInv,
      GoingForward, GivingUp, GoingBack, Left, IsOpen,
     StatusIsTrue, SagaStep, SagaAt, SagaMoves, Forward, Backward
<1>9. CASE BeginUndo
  BY <1>0, <1>9, SagaAssumption DEF BeginUndo, SagaTypeOK, SagaInv, GoingForward,
      GivingUp, GoingBack, Left, IsOpen,
     StatusIsTrue, SagaStep, SagaAt, SagaMoves, Forward, Backward
<1>10. CASE UndoStep
  BY <1>0, <1>10, SagaAssumption DEF UndoStep, SagaTypeOK, SagaInv, GoingForward,
      GivingUp, GoingBack, Left, IsOpen,
     StatusIsTrue, SagaStep, SagaAt, SagaMoves, Forward, Backward
<1>11. CASE UndoFails
  BY <1>0, <1>11, SagaAssumption DEF UndoFails, SagaTypeOK, SagaInv, GoingForward,
      GivingUp, GoingBack, Left, IsOpen,
     StatusIsTrue, SagaStep, SagaAt, SagaMoves, Forward, Backward
<1>12. CASE RecordUndoFails
  BY <1>0, <1>12, SagaAssumption DEF RecordUndoFails, SagaTypeOK, SagaInv, GoingForward,
      GivingUp, GoingBack, Left, IsOpen,
     StatusIsTrue, SagaStep, SagaAt, SagaMoves, Forward, Backward
<1>13. CASE NextUndo
  BY <1>0, <1>13, SagaAssumption DEF NextUndo, SagaTypeOK, SagaInv, GoingForward,
      GivingUp, GoingBack, Left, IsOpen,
     StatusIsTrue, SagaStep, SagaAt, SagaMoves, Forward, Backward
<1>14. CASE FinishCompensation
  BY <1>0, <1>14, SagaAssumption DEF FinishCompensation, SagaTypeOK, SagaInv,
      GoingForward, GivingUp, GoingBack, Left, IsOpen,
     StatusIsTrue, SagaStep, SagaAt, SagaMoves, Forward, Backward
<1>15. CASE BreakOff
  BY <1>0, <1>15, SagaAssumption DEF BreakOff, SagaTypeOK, SagaInv, GoingForward,
      GivingUp, GoingBack, Left, IsOpen,
     StatusIsTrue, SagaStep, SagaAt, SagaMoves, Forward, Backward
<1>16. CASE UNCHANGED sagaVars
  BY <1>0, <1>16 DEF sagaVars, SagaTypeOK, SagaInv, GoingForward, GivingUp, GoingBack,
      Left, IsOpen,
     StatusIsTrue, SagaStep, SagaAt, SagaMoves, Forward, Backward
<1>17. QED
  BY <1>0, <1>1, <1>2, <1>3, <1>4, <1>5, <1>6, <1>7, <1>8, <1>9, <1>10, <1>11, <1>12,
      <1>13, <1>14, <1>15, <1>16 DEF SagaNext

LEMMA SagaInductive == SagaSpec => [](SagaTypeOK /\ SagaInv)
  BY SagaTypeInit, SagaInvInit, SagaTypeStep, SagaInvStep, PTL DEF SagaSpec

\* The orchestrator's state has its type, however many steps a saga has.
THEOREM SagaTypeCorrect == SagaSpec => []SagaTypeOK
  BY SagaInductive, PTL

\* A completed saga has executed every step, and a compensated one has undone every
\* step that it knows of and whose compensation did not fail.
THEOREM SagaTellsTheTruth == SagaSpec => []StatusIsTrue
<1>1. SagaTypeOK /\ SagaInv => StatusIsTrue
  BY DEF SagaTypeOK, SagaInv, GoingForward, GivingUp, GoingBack, IsOpen, StatusIsTrue,
     SagaAt, Forward, Backward
<1>2. QED
  BY <1>1, SagaInductive, PTL

\* Compensation undoes the newest step first, wherever it fails.
THEOREM CompensatesInReverse == SagaSpec => NewestFirst
<1> DEFINE InOrder ==
        \A i \in effects \ effects' : \A k \in effects : k > i => k \in unrecorded \cup kept
<1>1. SagaTypeOK /\ SagaInv /\ [SagaNext]_sagaVars => [InOrder]_sagaVars
  <2>1. SUFFICES ASSUME SagaTypeOK, SagaInv, SagaNext PROVE InOrder
    OBVIOUS
  <2>2. CASE UndoStep
    BY <2>1, <2>2 DEF UndoStep, SagaTypeOK, SagaInv, GoingBack, Left, SagaStep, SagaAt,
       Backward
  <2>3. CASE ~UndoStep
    <3>1. effects \subseteq effects'
      BY <2>1, <2>3 DEF SagaNext, SagaMoves, StartSaga, BeginStep, ExecuteStep, RecordStep,
         StepFails, CompleteSaga, FailSaga, Compensate, BeginUndo, UndoFails,
         RecordUndoFails, NextUndo, FinishCompensation, BreakOff
    <3>2. QED
      BY <3>1
  <2>4. QED
    BY <2>2, <2>3
<1>2. QED
  BY <1>1, SagaInductive, PTL DEF SagaSpec, NewestFirst

--------------------------------------------------------------------------------
\* The refinement of AllOrNothing.

LEMMA AppliedForward ==
    ASSUME SagaTypeOK, SagaInv, sagaPc \in Forward
    PROVE  Applied = 1..completed
  BY DEF SagaTypeOK, SagaInv, GoingForward, Applied, SagaAt, SagaStep, Forward

LEMMA AppliedBack ==
    ASSUME SagaTypeOK, SagaInv, sagaPc \in Backward \ {"turn"}
    PROVE  Applied = Left
  BY DEF SagaTypeOK, SagaInv, GoingBack, Left, Applied, SagaAt, SagaStep, Backward

\* What an outcome says of the row.
LEMMA Outcomes ==
    ASSUME SagaTypeOK, SagaInv
    PROVE  /\ sagaPc \in Forward \cup {"fail"} => Outcome = "open"
           /\ sagaPc \in Backward => Outcome = "aborting"
  BY DEF SagaTypeOK, SagaInv, GoingForward, GivingUp, GoingBack, IsOpen, SagaAt, Outcome,
     Forward, Backward

LEMMA WholeInit == SagaInit => Whole!Init
  BY DEF SagaInit, Whole!Init, Applied, Outcome

LEMMA WholeStep ==
    SagaTypeOK /\ SagaInv /\ SagaTypeOK' /\ SagaInv' /\ SagaNext
        => [Whole!Next]_<<Applied, Outcome>>
<1>0. SUFFICES ASSUME SagaTypeOK, SagaInv, SagaTypeOK', SagaInv', SagaNext
               PROVE  Whole!Next \/ UNCHANGED <<Applied, Outcome>>
  OBVIOUS
<1>1. CASE RecordStep
  <2>1. Applied = 1..(index - 1) /\ Outcome = "open"
    BY <1>0, <1>1, AppliedForward, Outcomes
       DEF RecordStep, SagaInv, GoingForward, SagaAt, Forward
  <2>2. Applied' = 1..index /\ Outcome' = "open"
    BY <1>0, <1>1, <2>1
       DEF RecordStep, SagaMoves, SagaInv, SagaTypeOK, SagaStep, GoingForward, SagaAt,
           Forward,
           Applied, Outcome
  <2>3. Whole!Apply
    BY <1>0, <2>1, <2>2 DEF Whole!Apply, SagaTypeOK, SagaStep
  <2>4. QED
    BY <2>3 DEF Whole!Next
<1>2. CASE CompleteSaga
  <2>1. Applied = 1..N /\ Outcome = "open"
    BY <1>0, <1>2, AppliedForward, Outcomes
       DEF CompleteSaga, SagaInv, GoingForward, SagaAt, Forward
  <2>2. Applied' = Applied /\ Outcome' = "committed"
    BY <1>2 DEF CompleteSaga, SagaMoves, Applied, Outcome
  <2>3. QED
    BY <2>1, <2>2 DEF Whole!Next, Whole!Commit
<1>3. CASE FailSaga
  <2>1. Outcome = "open"
    BY <1>0, <1>3, Outcomes DEF FailSaga, SagaAt
  <2>2. Applied' = Applied /\ Outcome' = "aborting"
    BY <1>3 DEF FailSaga, SagaMoves, Applied, Outcome
  <2>3. QED
    BY <2>1, <2>2 DEF Whole!Next, Whole!Abort
<1>4. CASE UndoStep \/ UndoFails
  <2>1. sagaPc \in {"undo", "undoing"} /\ index \in 1..N
    BY <1>0, <1>4 DEF UndoStep, UndoFails, SagaAt, SagaTypeOK, SagaStep
  <2>2. Applied = 1..index /\ Outcome = "aborting"
    BY <1>0, <2>1, AppliedBack, Outcomes DEF Left, Backward
  <2>3. Applied' = Applied \ {index}
    BY <1>4 DEF UndoStep, UndoFails, Applied
  <2>4. Outcome' = "aborting"
    BY <1>4, <2>2 DEF UndoStep, UndoFails, Outcome
  <2>5. Whole!Revoke
    BY <2>1, <2>2, <2>3, <2>4 DEF Whole!Revoke
  <2>6. QED
    BY <2>5 DEF Whole!Next
<1>5. CASE FinishCompensation
  <2>1. Applied = {} /\ Outcome = "aborting"
    BY <1>0, <1>5, AppliedBack, Outcomes DEF FinishCompensation, SagaAt, Left, Backward
  <2>2. Applied' = Applied /\ Outcome' = "aborted"
    BY <1>5 DEF FinishCompensation, SagaMoves, Applied, Outcome
  <2>3. QED
    BY <2>1, <2>2 DEF Whole!Next, Whole!Aborted
<1>6. CASE StartSaga \/ BeginStep
  <2>1. Outcome = "open" /\ Outcome' = "open"
    BY <1>0, <1>6, Outcomes DEF StartSaga, BeginStep, SagaAt, SagaMoves, Outcome, Forward
  <2>2. QED
    BY <1>6, <2>1 DEF StartSaga, BeginStep, SagaMoves, Applied
<1>7. CASE ExecuteStep \/ StepFails
  <2>1. index \notin 1..completed
    BY <1>0, <1>7 DEF ExecuteStep, StepFails, SagaAt, SagaTypeOK, SagaStep, SagaInv,
       GoingForward
  <2>2. QED
    BY <1>7, <2>1 DEF ExecuteStep, StepFails, Applied, Outcome
<1>8. CASE Compensate
  <2>1. Outcome = "aborting" /\ Outcome' = "aborting"
    BY <1>0, <1>8, Outcomes DEF Compensate, SagaAt, SagaMoves, Outcome, Backward
  <2>2. QED
    BY <1>8, <2>1 DEF Compensate, SagaMoves, Applied
<1>9. CASE BeginUndo \/ RecordUndoFails \/ NextUndo \/ BreakOff
  BY <1>9 DEF BeginUndo, RecordUndoFails, NextUndo, BreakOff, SagaMoves, Applied, Outcome
<1>10. QED
  BY <1>0, <1>1, <1>2, <1>3, <1>4, <1>5, <1>6, <1>7, <1>8, <1>9 DEF SagaNext

\* Of its recorded steps a saga keeps all, or takes them back, newest first, as far as
\* it gets.
THEOREM SagaIsAllOrNothing == SagaSpec => ImplementsAllOrNothing
<1>1. SagaTypeOK /\ SagaInv /\ SagaTypeOK' /\ SagaInv' /\ [SagaNext]_sagaVars
      => [Whole!Next]_<<Applied, Outcome>>
  <2>1. UNCHANGED sagaVars => UNCHANGED <<Applied, Outcome>>
    BY DEF sagaVars, Applied, Outcome
  <2>2. QED
    BY <2>1, WholeStep
<1>2. QED
  BY <1>1, WholeInit, SagaInductive, PTL DEF SagaSpec, ImplementsAllOrNothing, Whole!Spec

--------------------------------------------------------------------------------
\* The reminders.

\* An account that is not marked has had no reminder: the flag is set before one is
\* emitted, and nothing resets it.
UnmarkedIsUnsent == \A v \in Vps \ sentAt : reminded[v] = 0 /\ mailing[v] = 0

ReminderInv ==
    /\ mailing \in [Vps -> Nat]
    /\ reminded \in [Vps -> Nat]
    /\ UnmarkedIsUnsent
    /\ RemindedOnce

LEMMA ReminderInitInv == ReminderInit => ReminderInv
  BY DEF ReminderInit, ReminderInv, NoMail, UnmarkedIsUnsent, RemindedOnce

LEMMA Mails ==
    ASSUME ReminderInv, NEW v \in Vps
    PROVE  /\ mailing[v] \in Nat /\ reminded[v] \in Nat
           /\ reminded[v] + mailing[v] <= 1
           /\ v \notin sentAt => reminded[v] = 0 /\ mailing[v] = 0
  BY DEF ReminderInv, RemindedOnce, UnmarkedIsUnsent

LEMMA ReminderStepInv == ReminderInv /\ [ReminderNext]_reminderVars => ReminderInv'
<1> SUFFICES ASSUME ReminderInv, [ReminderNext]_reminderVars
             PROVE  ReminderInv'
  OBVIOUS
<1>1. CASE UNCHANGED <<sentAt, mailing, reminded>>
  BY <1>1 DEF ReminderInv, RemindedOnce, UnmarkedIsUnsent
<1>2. ASSUME NEW w \in Workers, NEW v \in Vps, ClaimReminder(w, v)
      PROVE  ReminderInv'
  <2>1. CASE v \in sentAt
    BY <1>2, <2>1 DEF ClaimReminder, ReminderInv, RemindedOnce, UnmarkedIsUnsent
  <2>2. CASE v \notin sentAt
    <3>1. mailing[v] = 0 /\ reminded[v] = 0
      BY <2>2, Mails
    <3>2. /\ mailing' = [mailing EXCEPT ![v] = 1]
          /\ reminded' = reminded /\ sentAt' = sentAt \cup {v}
      BY <1>2, <2>2, <3>1 DEF ClaimReminder, ReminderInv
    <3>3. QED
      BY <3>1, <3>2 DEF ReminderInv, RemindedOnce, UnmarkedIsUnsent
  <2>3. QED
    BY <2>1, <2>2
<1>3. ASSUME NEW v \in Vps, MailReminder(v)
      PROVE  ReminderInv'
  <2>1. v \in sentAt /\ mailing[v] = 1 /\ reminded[v] = 0
    BY <1>3, Mails DEF MailReminder
  <2>2. /\ mailing' = [mailing EXCEPT ![v] = 0]
        /\ reminded' = [reminded EXCEPT ![v] = 1] /\ sentAt' = sentAt
    BY <1>3, <2>1 DEF MailReminder, ReminderInv
  <2>3. QED
    BY <2>1, <2>2 DEF ReminderInv, RemindedOnce, UnmarkedIsUnsent
<1>4. ASSUME NEW v \in Vps, ReminderNotMailed(v)
      PROVE  ReminderInv'
  <2>1. v \in sentAt /\ mailing[v] = 1 /\ reminded[v] = 0
    BY <1>4, Mails DEF ReminderNotMailed
  <2>2. /\ mailing' = [mailing EXCEPT ![v] = 0]
        /\ reminded' = reminded /\ sentAt' = sentAt
    BY <1>4, <2>1 DEF ReminderNotMailed, ReminderInv
  <2>3. QED
    BY <2>1, <2>2 DEF ReminderInv, RemindedOnce, UnmarkedIsUnsent
<1>5. CASE ReminderProcessDies
  BY <1>5, Mails DEF ReminderProcessDies, NoMail, ReminderInv, RemindedOnce,
      UnmarkedIsUnsent
<1>6. QED
  <2>1. ASSUME NEW v \in Vps, TimePasses(v)
        PROVE  ReminderInv'
    BY <1>1, <2>1 DEF TimePasses
  <2>2. ASSUME NEW w \in Workers, StartSweep(w) \/ EndSweep(w)
        PROVE  ReminderInv'
    BY <1>1, <2>2 DEF StartSweep, EndSweep
  <2>3. ASSUME UNCHANGED reminderVars
        PROVE  ReminderInv'
    BY <1>1, <2>3 DEF reminderVars
  <2>4. QED
    BY <1>2, <1>3, <1>4, <1>5, <2>1, <2>2, <2>3 DEF ReminderNext

\* However many sweeps overlap and however often the process dies, no customer is
\* reminded twice of one account.
THEOREM NobodyIsRemindedTwice == ReminderSpec => []RemindedOnce
<1>1. ReminderInv => RemindedOnce
  BY DEF ReminderInv
<1>2. QED
  BY <1>1, ReminderInitInv, ReminderStepInv, PTL DEF ReminderSpec

--------------------------------------------------------------------------------
\* Put together, each service still does what it does alone.

\* A behaviour of the combined specification is one of every service's own: the
\* others share none of its state, so what is proved of one holds of all together.
THEOREM EachServiceOnItsOwn ==
    ServicesSpec => DomainSpec /\ MailSpec /\ CertSpec /\ ReminderSpec /\ SagaSpec
<1>1. ServicesInit => DomainInit /\ MailInit /\ CertInit /\ ReminderInit /\ SagaInit
  BY DEF ServicesInit
<1>2. [ServicesNext]_allVars =>
         /\ [DomainNext]_domainVars
         /\ [MailNext]_mailVars
         /\ [CertNext]_certVars
         /\ [ReminderNext]_reminderVars
         /\ [SagaNext]_sagaVars
  BY DEF ServicesNext, OnlyDomains, OnlyMail, OnlyCerts, OnlyReminders, OnlySaga, Only,
      allVars
<1>3. QED
  BY <1>1, <1>2, PTL DEF ServicesSpec, DomainSpec, MailSpec, CertSpec, ReminderSpec,
      SagaSpec

\* Every row, queue and handler of the services keeps its type, however their handlers
\* and jobs overlap, fail and are tried again.
THEOREM ServicesTypeCorrect == ServicesSpec => []ServicesTypeOK
<1>1. DomainTypeOK /\ MailTypeOK /\ CertTypeOK /\ SagaTypeOK => ServicesTypeOK
  BY DEF ServicesTypeOK
<1>2. QED
  BY <1>1, EachServiceOnItsOwn, DomainTypeCorrect, MailTypeCorrect, CertTypeCorrect,
     SagaTypeCorrect, PTL

================================================================================
