------------------------------ MODULE MCServices ------------------------------
(****************************************************************************)
(* The services for TLC.                                                    *)
(****************************************************************************)
EXTENDS Services, TLC

\* A bound: once handlers have overlapped and files have gone, a domain's certificates are
\* followed no further, for neither OneLiveCert nor ActiveIsReadable says anything then.
FilesAtStake == ~(certCrowded /\ wiped)

\* A bound: once SettingsAgree says nothing any more, only a name with the platform's own
\* name servers is followed; no guard depends on a name server.
SettingsAtStake ==
    crowded \/ stray \/ faults > 0 =>
        /\ \A k \in Settings : {domain.set[k], registrar.set[k]} \cap {"own", "longer"} = {}
        /\ \A w \in Workers : handler[w].v \notin {"own", "longer"}

AtStake == FilesAtStake /\ SettingsAtStake

\* Customers, handlers, certificates and the slots of a queue are interchangeable.
ServicesSymmetry ==
    Permutations(Workers) \cup Permutations(Users) \cup Permutations(Certs) \cup Permutations(Jobs)

================================================================================
