------------------------------- MODULE MCBilling -------------------------------
(****************************************************************************)
(* Billing for TLC: the values of the constants a configuration file cannot *)
(* write, and what the code's comments say of it and it does not keep.      *)
(****************************************************************************)
EXTENDS BillingProperties, TLC

CONSTANTS u1, u2, o1, o2, o3

\* Whose orders they are: all of one customer, or the last one of another.
OneOwner == [o \in Orders |-> u1]
LastIsOther == [o \in Orders |-> IF o = o3 THEN u2 ELSE u1]

\* Workers and rows of the payment table are interchangeable, rows of the order
\* table too while one customer owns them all.
WorkerSymmetry == Permutations(Workers) \cup Permutations(Payments)
TableSymmetry == WorkerSymmetry \cup Permutations(Orders)

--------------------------------------------------------------------------------
\* What the code's comments say of it, and it does not keep.

\* A completed top-up has been credited to the wallet.
TopupsAreCredited ==
    \A u \in Resellers :
        credited[u] >= Total([o \in Orders |-> order[o].amt],
                             {o \in Orders : /\ Owner[o] = u
                                             /\ order[o].topup
                                             /\ order[o].status = "COMPLETED"})

================================================================================
