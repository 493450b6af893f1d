------------------------------- MODULE Reminders -------------------------------
(****************************************************************************)
(* The reminders that virtual servers are about to expire: sweeps, by the   *)
(* daily job and by an administrator, and the listener that mails what they *)
(* emit.                                                                    *)
(****************************************************************************)
EXTENDS Handlers

CONSTANT Vps        \* accounts that are active and not billing-exempt

VARIABLES
    term,       \* where an account is in its term
    sentAt,     \* accounts whose expiryReminderSentAt is set
    sweep,      \* the sweeps in progress: the accounts still to be claimed
    mailing,    \* how many reminders of an account have been emitted and not been mailed
    reminded,   \* history: how many reminders have reached an account's owner
    unsent      \* history: accounts whose last reminder could not be mailed

reminderVars == <<term, sentAt, sweep, mailing, reminded, unsent>>

\* More than seven days are left of it, fewer, or none.
Term == {"early", "due", "over"}

IdleSweep == [pc |-> "idle", todo |-> {}]

NoMail == [v \in Vps |-> 0]

ReminderInit ==
    /\ term = [v \in Vps |-> "early"]
    /\ sentAt = {}
    /\ sweep = [w \in Workers |-> IdleSweep]
    /\ mailing = NoMail
    /\ reminded = NoMail
    /\ unsent = {}

TimePasses(v) ==
    /\ term[v] # "over"
    /\ term' = [term EXCEPT ![v] = IF @ = "early" THEN "due" ELSE "over"]
    /\ UNCHANGED <<sentAt, sweep, mailing, reminded, unsent>>

\* runExpiryReminderSweep reads the accounts that are due and not reminded.
StartSweep(w) ==
    LET found == {v \in Vps \ sentAt : term[v] = "due"}
    IN  /\ At(sweep, w, "idle")
        /\ found # {}
        /\ sweep' = [sweep EXCEPT ![w] = [pc |-> "claim", todo |-> found]]
        /\ UNCHANGED <<term, sentAt, mailing, reminded, unsent>>

\* Mutant: the claim does not ask whether the account has been claimed.
ClaimReminder_Unchecked(w, v) ==
    /\ At(sweep, w, "claim")
    /\ v \in sweep[w].todo
    /\ sweep' = [sweep EXCEPT ![w].todo = @ \ {v}]
    /\ sentAt' = sentAt \cup {v}
    /\ mailing' = [mailing EXCEPT ![v] = @ + 1]
    /\ UNCHANGED <<term, reminded, unsent>>

\* The conditional update; only the sweep that sets the flag emits the reminder.
ClaimReminder(w, v) ==
    /\ At(sweep, w, "claim")
    /\ v \in sweep[w].todo
    /\ sweep' = [sweep EXCEPT ![w].todo = @ \ {v}]
    /\ sentAt' = sentAt \cup {v}
    /\ mailing' = IF v \in sentAt THEN mailing ELSE [mailing EXCEPT ![v] = @ + 1]
    /\ UNCHANGED <<term, reminded, unsent>>

\* All are claimed, or a query fails.
EndSweep(w) ==
    /\ At(sweep, w, "claim")
    /\ sweep' = [sweep EXCEPT ![w] = IdleSweep]
    /\ UNCHANGED <<term, sentAt, mailing, reminded, unsent>>

MailReminder(v) ==
    /\ mailing[v] > 0
    /\ mailing' = [mailing EXCEPT ![v] = @ - 1]
    /\ reminded' = [reminded EXCEPT ![v] = @ + 1]
    /\ unsent' = unsent \ {v}
    /\ UNCHANGED <<term, sentAt, sweep>>

\* The mail service refuses or does not answer.  dispatch returns success: false and
\* never throws, so that the listener does not come to its catch clause.
ReminderNotMailed(v) ==
    /\ mailing[v] > 0
    /\ mailing' = [mailing EXCEPT ![v] = @ - 1]
    /\ unsent' = unsent \cup {v}
    /\ UNCHANGED <<term, sentAt, sweep, reminded>>

\* Events that have been emitted live in the process.
ReminderProcessDies ==
    /\ sweep' = [w \in Workers |-> IdleSweep]
    /\ mailing' = NoMail
    /\ UNCHANGED <<term, sentAt, reminded, unsent>>

ReminderNext ==
    \/ \E v \in Vps : TimePasses(v) \/ MailReminder(v) \/ ReminderNotMailed(v)
    \/ \E w \in Workers : StartSweep(w) \/ EndSweep(w) \/ \E v \in Vps : ClaimReminder(w, v)
    \/ ReminderProcessDies

ReminderSpec == ReminderInit /\ [][ReminderNext]_reminderVars

================================================================================
