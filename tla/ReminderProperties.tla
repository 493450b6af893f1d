-------------------------- MODULE ReminderProperties --------------------------
(****************************************************************************)
(* What the expiry reminder promises.                                       *)
(****************************************************************************)
EXTENDS Reminders

\* However sweeps overlap, a customer gets at most one reminder, sent or under way
\* ("a concurrent sweep ... can't send a duplicate reminder" in
\* runExpiryReminderSweep).
RemindedOnce == \A v \in Vps : reminded[v] + mailing[v] <= 1

\* An account whose reminder could not be mailed is free for the next sweep ("On send
\* failure the email listener resets this flag" in runExpiryReminderSweep).
UnsentIsRetried == unsent \cap sentAt = {}

================================================================================
