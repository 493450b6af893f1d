--------------------------------- MODULE MCVps ---------------------------------
(****************************************************************************)
(* VpsProvisioning for TLC.                                                 *)
(****************************************************************************)
EXTENDS VpsProperties, TLC

\* How often Bull runs the jobs of each account: where handlers overlap, a virtual
\* server's job is tried twice; where they take turns, a site's is.
OverlapAttempts == [a \in Accounts |-> 2]
TurnsAttempts == [a \in Accounts |-> IF a \in Wordpress THEN 2 ELSE 1]

\* Instances, rows of the queue and workers are interchangeable.
VpsSymmetry == Permutations(Servers) \cup Permutations(Jobs) \cup Permutations(Workers)

\* Where symmetry is not sound, because fairness is checked: a job is queued and a server
\* created under the first name that is free, and the others would only rename the states.
First(names) == CHOOSE x \in names : TRUE

NamesInOrder ==
    /\ \A j \in Jobs \ {First(Jobs)} :
          job[j] = NoJob /\ job'[j] # NoJob => job[First(Jobs)] # NoJob
    /\ \A s \in Servers \ {First(Servers)} :
          instance[s] = NoInstance /\ instance'[s] # NoInstance
              => instance[First(Servers)] # NoInstance

================================================================================
