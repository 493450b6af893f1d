--------------------------- MODULE DomainProperties ---------------------------
(****************************************************************************)
(* What the domain service keeps true of a name, its row and the registrar. *)
(****************************************************************************)
EXTENDS Domains

DomainTypeOK ==
    /\ domain \in DomainRow
    /\ registrar \in RegistrarRow
    /\ handler \in [Workers -> DomainHandler]
    /\ unsettled \in BOOLEAN
    /\ stray \in BOOLEAN
    /\ crowded \in BOOLEAN
    /\ faults \in 0..MaxFaults

--------------------------------------------------------------------------------
\* Whatever overlaps and wherever it breaks off.

\* A row shown as active stands for a name in the platform's account: approval,
\* renewal, transfer and block registration write ACTIVE only after NameSilo has
\* the name (approveDomainRegistration, renewDomain, getTransferStatus,
\* blockDomain).
ActiveIsHeld == domain.status = "ACTIVE" => Held

\* The row never promises more years than NameSilo was paid for, though renewals,
\* synchronisations and approvals write back what they read before their call
\* (renewDomain, bulkDomainAction, getDomain).
ExpiryNeverAhead == domain.expiry <= registrar.expiry

\* A claimed request is in the hands of an approval or is left for an
\* administrator to reconcile: it is not forgotten (approveDomainRegistration and
\* its catch clause).
Approving == {"reverify", "register", "mark", "release", "activate"}
ClaimsEnd ==
    domain.status = "PENDING_REGISTRATION" =>
        unsettled \/ \E w \in Workers : handler[w].pc \in Approving

--------------------------------------------------------------------------------
\* As long as handlers take turns.

\* A name in use never changes hands: a row that is live keeps its customer
\* (requestDomainRegistration takes over only a row in a terminal state).
OwnerKept ==
    [][domain.status \in Live /\ domain'.status \in Live /\ ~crowded'
           => domain'.owner = domain.owner]_domainVars

\* After an approval whose charge is in doubt the request does not go back to the
\* queue, where it could be paid for a second time (the comment on
\* attemptedRegistration in approveDomainRegistration).
NeverRequeued ==
    [][unsettled /\ ~crowded' => domain'.status # "PENDING_APPROVAL"
                                 \/ domain.status # "PENDING_REGISTRATION"]_domainVars

\* While no call fails, NameSilo has the settings that the row of a name registered
\* here shows, and of its name servers the first four, all it is ever told: an approval
\* locks what it has written as locked, and later changes reach both
\* (approveDomainRegistration, updateNameservers, toggleLock, toggleAutoRenew,
\* bulkDomainAction).  Of a transferred name it need not: what was changed before the
\* name arrived was refused, and written to the row all the same.
SettingsAgree ==
    /\ domain.status = "ACTIVE"
    /\ registrar.at = "registered"
    /\ ~stray
    /\ ~crowded
    /\ faults = 0
    /\ Busy(handler) = {}
    => registrar.set = Told(domain.set)

\* A name that was paid for is on record, unless its approval is in doubt or a row
\* that it had already made the insertion fail (blockDomain, initiateDomainTransfer).
OnRecord == {"ACTIVE", "DELETED", "PENDING_TRANSFER"}
PaidIsOnRecord ==
    registrar.at \in {"incoming", "registered", "transferred"} =>
        \/ domain.status \in OnRecord \/ unsettled \/ stray \/ crowded
        \/ \E w \in Workers : handler[w].pc \in {"activate", "createTransfer", "createBlocked"}

--------------------------------------------------------------------------------

\* An approval settles its request, or leaves it for reconciliation.
ApprovalEnds ==
    (domain.status = "PENDING_REGISTRATION")
        ~> (domain.status # "PENDING_REGISTRATION" \/ unsettled)

--------------------------------------------------------------------------------
\* Why the safety properties hold.

\* The registrar's years only grow once it holds the name, so that whatever a handler
\* has read stays within them, and a handler that is about to write ACTIVE is right.
BehindRegistrar ==
    /\ Held <=> registrar.expiry > 0
    /\ \A w \in Workers :
          /\ handler[w].expiry <= registrar.expiry
          /\ AtStep(w, "saveRenewal") => handler[w].expiry < registrar.expiry
          /\ handler[w].pc \in {"activate", "saveRenewal", "saveTransfer", "createBlocked"}
                 => Held

OneAtATime == \A w, v \in Busy(handler) : w = v

\* A handler that has the name to itself finds the row as it has read it.
ReadsAreFresh ==
    /\ unsettled => domain.status # "PENDING_APPROVAL"
    /\ \A w \in Workers :
          /\ handler[w].pc \in {"available", "park"} =>
                 domain.status \notin Live /\ (handler[w].seen <=> domain.status # "NONE")
          /\ AtStep(w, "park") => registrar.at \in {"free", "elsewhere"}
          /\ AtStep(w, "reject") => domain.status = "PENDING_APPROVAL"
          /\ AtStep(w, "createTransfer") => registrar.at # "registered"
          /\ handler[w].pc \in Approving =>
                 /\ ~unsettled
                 /\ \/ domain.status = "PENDING_REGISTRATION"
                    \/ AtStep(w, "release") /\ domain.status = "REJECTED"

\* The settings of a registered name differ from the row's only while a handler is
\* between the two.
InStep ==
    registrar.at = "registered" =>
        /\ \A w \in Workers :
              /\ AtStep(w, "activate") => registrar.set = Told(Requested(handler[w].v))
              /\ AtStep(w, "createBlocked") => registrar.set = Told(Requested("default"))
              /\ AtStep(w, "lock") => WithLock(registrar.set) = Told(domain.set)
              /\ AtStep(w, "saveSetting") =>
                     registrar.set = Told([domain.set EXCEPT ![handler[w].k] = handler[w].v])
        /\ \/ registrar.set = Told(domain.set)
           \/ \E w \in Workers :
                 handler[w].pc \in {"activate", "createBlocked", "lock", "saveSetting"}

SettingsFollow == ~stray /\ faults = 0 => ~unsettled /\ InStep

DomainInv ==
    /\ BehindRegistrar /\ ActiveIsHeld /\ ExpiryNeverAhead /\ ClaimsEnd
    /\ ~crowded => OneAtATime /\ ReadsAreFresh /\ PaidIsOnRecord /\ SettingsFollow

================================================================================
