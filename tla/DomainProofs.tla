------------------------------ MODULE DomainProofs ------------------------------
(****************************************************************************)
(* A domain name proved for any number of handlers, customers, settings,    *)
(* years and failures.                                                      *)
(****************************************************************************)
EXTENDS DomainProperties, TLAPS

--------------------------------------------------------------------------------

LEMMA Constants ==
    /\ MaxTerm \in Nat /\ MaxTerm > 0 /\ 1 \in 0..MaxTerm
    /\ "default" \in NameServers /\ NameServers \subseteq Values
    /\ \A k \in Settings : Choices(k) \subseteq Values
    /\ \A v \in Values : Sent(v) \in Values
    /\ IdleHandler \in DomainHandler
  BY DomainAssumption DEF NameServers, Values, Choices, Sent, IdleHandler, DomainHandler,
     Steps

\* What is asked for, told and written is of the settings' type.
LEMMA SettingTypes ==
    /\ \A set \in [Settings -> Values] :
          Told(set) \in [Settings -> Values] /\ WithLock(set) \in [Settings -> Values]
    /\ \A servers \in Values : Requested(servers) \in [Settings -> Values]
<1>1. {"on", "off"} \subseteq Values
  BY DEF Values
<1>2. QED
  BY <1>1, Constants DEF Told, WithLock, Requested

LEMMA RowTypes ==
    /\ \A servers \in Values : Locked(servers) \in [Settings -> Values]
    /\ \A servers \in Values : Registered(servers) \in RegistrarRow
    /\ \A status \in Status, u \in Users \cup {None}, servers \in Values :
          NewRow(status, u, servers) \in DomainRow
<1>1. \A servers \in Values : Locked(servers) \in [Settings -> Values]
  BY SettingTypes DEF Locked
<1>2. \A servers \in Values : Registered(servers) \in RegistrarRow
  BY SettingTypes, Constants DEF Registered, RegistrarRow
<1>3. \A status \in Status, u \in Users \cup {None}, servers \in Values :
          NewRow(status, u, servers) \in DomainRow
  BY SettingTypes, DomainAssumption DEF NewRow, DomainRow
<1>4. QED
  BY <1>1, <1>2, <1>3

\* To lock what NameSilo was told is to tell it what is locked; likewise one setting.
LEMMA Telling ==
    /\ \A set \in [Settings -> Values] : WithLock(Told(set)) = Told(WithLock(set))
    /\ \A set \in [Settings -> Values], k \in Settings \cup {None}, v \in Values :
          [Told(set) EXCEPT ![k] = Sent(v)] = Told([set EXCEPT ![k] = v])
<1>1. Sent("on") = "on"
  BY DEF Sent
<1>2. \A set \in [Settings -> Values] : WithLock(Told(set)) = Told(WithLock(set))
  BY <1>1 DEF WithLock, Told
<1>3. ASSUME NEW set \in [Settings -> Values], NEW k \in Settings \cup {None},
          NEW v \in Values
      PROVE  [Told(set) EXCEPT ![k] = Sent(v)] = Told([set EXCEPT ![k] = v])
  BY <1>3 DEF Told
<1>4. QED
  BY <1>2, <1>3

LEMMA RowType ==
    ASSUME DomainTypeOK
    PROVE  /\ domain \in DomainRow
           /\ domain.status \in Status /\ domain.expiry \in 0..MaxTerm
           /\ domain.owner \in Users \cup {None} /\ domain.set \in [Settings -> Values]
           /\ registrar \in RegistrarRow
           /\ registrar.at \in {"free", "elsewhere", "incoming", "registered",
                  "transferred"}
           /\ registrar.expiry \in 0..MaxTerm /\ registrar.set \in [Settings -> Values]
           /\ unsettled \in BOOLEAN /\ stray \in BOOLEAN /\ crowded \in BOOLEAN
           /\ faults \in 0..MaxFaults
  BY DEF DomainTypeOK, DomainRow, RegistrarRow

LEMMA Numbers ==
    ASSUME DomainTypeOK
    PROVE  /\ MaxTerm \in Nat
           /\ domain.expiry \in Nat /\ registrar.expiry \in Nat /\ faults \in Nat
           /\ \A w \in Workers : handler[w].expiry \in Nat
  BY DomainAssumption, FaultsAssumption
     DEF DomainTypeOK, DomainRow, RegistrarRow, DomainHandler

LEMMA HandlerType ==
    ASSUME DomainTypeOK, NEW w \in Workers
    PROVE  /\ handler[w] \in DomainHandler
           /\ handler[w].pc \in Steps /\ handler[w].u \in Users \cup {None}
           /\ handler[w].seen \in BOOLEAN /\ handler[w].expiry \in 0..MaxTerm
           /\ handler[w].k \in Settings \cup {None} /\ handler[w].v \in Values
           /\ handler[w].attempted \in BOOLEAN /\ handler[w].bulk \in BOOLEAN
  BY DEF DomainTypeOK, DomainHandler

\* A handler moves on, and the others stay where they are.
LEMMA Moves ==
    ASSUME DomainTypeOK, NEW w \in Workers, NEW next, Become(w, next)
    PROVE  /\ handler'[w] = next
           /\ \A v \in Workers \ {w} : handler'[v] = handler[v]
           /\ next \in DomainHandler => handler' \in [Workers -> DomainHandler]
  BY DEF Become, DomainTypeOK

LEMMA MovesTo ==
    ASSUME DomainTypeOK, NEW w \in Workers, NEW step, GoTo(w, step)
    PROVE  /\ handler'[w] = [handler[w] EXCEPT !.pc = step]
           /\ handler'[w].pc = step
           /\ handler'[w].expiry = handler[w].expiry
           /\ handler'[w].seen = handler[w].seen
           /\ handler'[w].k = handler[w].k /\ handler'[w].v = handler[w].v
           /\ \A v \in Workers \ {w} : handler'[v] = handler[v]
           /\ step \in Steps => handler' \in [Workers -> DomainHandler]
<1>1. handler \in [Workers -> DomainHandler]
  BY DEF DomainTypeOK
<1>2. /\ [handler[w] EXCEPT !.pc = step].pc = step
      /\ [handler[w] EXCEPT !.pc = step].expiry = handler[w].expiry
      /\ [handler[w] EXCEPT !.pc = step].seen = handler[w].seen
      /\ [handler[w] EXCEPT !.pc = step].k = handler[w].k
      /\ [handler[w] EXCEPT !.pc = step].v = handler[w].v
      /\ step \in Steps => [handler[w] EXCEPT !.pc = step] \in DomainHandler
  BY HandlerType DEF DomainHandler
<1>3. handler' = [handler EXCEPT ![w] = [handler[w] EXCEPT !.pc = step]]
  BY DEF GoTo, Goto
<1>4. QED
  BY <1>1, <1>2, <1>3

LEMMA Returns ==
    ASSUME DomainTypeOK, NEW w \in Workers, Return(w)
    PROVE  /\ handler'[w] = IdleHandler
           /\ handler'[w].pc = "idle" /\ handler'[w].expiry = 0
           /\ \A v \in Workers \ {w} : handler'[v] = handler[v]
           /\ handler' \in [Workers -> DomainHandler]
<1>1. handler'[w] = IdleHandler /\ (\A v \in Workers \ {w} : handler'[v] = handler[v])
      /\ handler' \in [Workers -> DomainHandler]
  BY Moves, Constants DEF Return
<1>2. QED
  BY <1>1 DEF IdleHandler

LEMMA Starts ==
    ASSUME DomainTypeOK, NEW w \in Workers, NEW first, Start(w, first)
    PROVE  /\ handler[w].pc = "idle"
           /\ handler'[w] = first
           /\ \A v \in Workers \ {w} : handler'[v] = handler[v]
           /\ first \in DomainHandler => handler' \in [Workers -> DomainHandler]
           /\ crowded' = (crowded \/ Busy(handler) # {})
           /\ crowded' \/ (~crowded /\ \A o \in Workers : handler[o].pc = "idle")
           /\ UNCHANGED <<registrar, unsettled, stray, faults>>
<1>1. crowded' \/ (~crowded /\ \A o \in Workers : handler[o].pc = "idle")
  <2>1. CASE Busy(handler) = {}
    BY <2>1, RowType DEF Start, Busy
  <2>2. CASE Busy(handler) # {}
    BY <2>2, RowType DEF Start
  <2>3. QED
    BY <2>1, <2>2
<1>2. QED
  BY <1>1, Moves DEF Start, AtStep, At

--------------------------------------------------------------------------------

LEMMA DomainTypeInit == DomainInit => DomainTypeOK
<1>1. SUFFICES ASSUME DomainInit PROVE DomainTypeOK
  OBVIOUS
<1>2. domain \in DomainRow
  BY <1>1, Constants, RowTypes DEF DomainInit, Status
<1>3. registrar \in RegistrarRow
  BY <1>1, Constants, SettingTypes DEF DomainInit, RegistrarRow
<1>4. handler \in [Workers -> DomainHandler]
  BY <1>1, Constants DEF DomainInit
<1>5. unsettled \in BOOLEAN /\ stray \in BOOLEAN /\ crowded \in BOOLEAN
  BY <1>1, Zenon DEF DomainInit
<1>6. faults = 0 /\ 0 \in 0..MaxFaults
  BY <1>1, FaultsAssumption DEF DomainInit
<1>7. QED
  BY <1>2, <1>3, <1>4, <1>5, <1>6 DEF DomainTypeOK

\* What each action does, field by field.

LEMMA VerifyAvailableEffect ==
    ASSUME DomainTypeOK, NEW w \in Workers, VerifyAvailable(w)
    PROVE  /\ handler[w].pc = "available"
           /\ \/ registrar.at = "free" /\ handler'[w].pc = "park"
                     /\ handler'[w].expiry = handler[w].expiry
                            /\ handler'[w].seen = handler[w].seen
              \/ handler'[w].pc = "idle" /\ handler'[w].expiry = 0
           /\ domain' = domain
           /\ registrar' = registrar
           /\ stray' = stray
           /\ unsettled' = unsettled
           /\ crowded' = crowded
           /\ faults' = faults
           /\ \A o \in Workers \ {w} : handler'[o] = handler[o]
<1>1. /\ \/ registrar.at = "free" /\ handler'[w].pc = "park"
                /\ handler'[w].expiry = handler[w].expiry
                       /\ handler'[w].seen = handler[w].seen
         \/ handler'[w].pc = "idle" /\ handler'[w].expiry = 0
      /\ \A o \in Workers \ {w} : handler'[o] = handler[o]
  BY MovesTo, Returns DEF VerifyAvailable
<1>2. /\ handler[w].pc = "available"
      /\ domain' = domain
      /\ registrar' = registrar
      /\ stray' = stray
      /\ unsettled' = unsettled
      /\ crowded' = crowded
      /\ faults' = faults
  BY RowType DEF VerifyAvailable, AtStep, At, Asked, histories, DomainRow, RegistrarRow
<1>3. QED
  BY <1>1, <1>2

LEMMA ParkRequestEffect ==
    ASSUME DomainTypeOK, NEW w \in Workers, ParkRequest(w)
    PROVE  /\ handler[w].pc = "park"
           /\ handler'[w].pc = "idle" /\ handler'[w].expiry = 0
           /\ \/ /\ handler[w].seen \/ domain.status = "NONE"
                 /\ domain'.status = "PENDING_APPROVAL" /\ domain'.expiry = 0 /\ ~unsettled'
              \/ /\ ~handler[w].seen /\ domain.status # "NONE"
                 /\ domain' = domain /\ (unsettled' <=> unsettled)
           /\ registrar' = registrar
           /\ stray' = stray
           /\ crowded' = crowded
           /\ faults' = faults
           /\ \A o \in Workers \ {w} : handler'[o] = handler[o]
<1>1. /\ handler'[w].pc = "idle" /\ handler'[w].expiry = 0
      /\ \A o \in Workers \ {w} : handler'[o] = handler[o]
  BY Returns DEF ParkRequest
<1>2. /\ handler[w].pc = "park"
      /\ \/ /\ handler[w].seen \/ domain.status = "NONE"
            /\ domain'.status = "PENDING_APPROVAL" /\ domain'.expiry = 0 /\ ~unsettled'
         \/ /\ ~handler[w].seen /\ domain.status # "NONE"
            /\ domain' = domain /\ (unsettled' <=> unsettled)
      /\ registrar' = registrar
      /\ stray' = stray
      /\ crowded' = crowded
      /\ faults' = faults
  BY RowType DEF ParkRequest, AtStep, At, NewRow, histories, DomainRow, RegistrarRow
<1>3. QED
  BY <1>1, <1>2

LEMMA ReverifyEffect ==
    ASSUME DomainTypeOK, NEW w \in Workers, Reverify(w)
    PROVE  /\ handler[w].pc = "reverify"
           /\ handler'[w].pc = "register" \/ handler'[w].pc = "mark"
           /\ handler'[w].expiry = handler[w].expiry
           /\ domain' = domain
           /\ registrar' = registrar
           /\ stray' = stray
           /\ unsettled' = unsettled
           /\ crowded' = crowded
           /\ faults' = faults
           /\ \A o \in Workers \ {w} : handler'[o] = handler[o]
<1>1. /\ handler'[w].pc = "register" \/ handler'[w].pc = "mark"
      /\ handler'[w].expiry = handler[w].expiry
      /\ \A o \in Workers \ {w} : handler'[o] = handler[o]
  BY MovesTo DEF Reverify
<1>2. /\ handler[w].pc = "reverify"
      /\ domain' = domain
      /\ registrar' = registrar
      /\ stray' = stray
      /\ unsettled' = unsettled
      /\ crowded' = crowded
      /\ faults' = faults
  BY RowType DEF Reverify, AtStep, At, Asked, histories, DomainRow, RegistrarRow
<1>3. QED
  BY <1>1, <1>2

LEMMA ReverifyFailsEffect ==
    ASSUME DomainTypeOK, NEW w \in Workers, ReverifyFails(w)
    PROVE  /\ handler[w].pc = "reverify"
           /\ handler'[w].pc = "release"
           /\ handler'[w].expiry = handler[w].expiry
           /\ domain' = domain
           /\ registrar' = registrar
           /\ unsettled' = unsettled
           /\ stray' = stray
           /\ crowded' = crowded
           /\ faults' = faults + 1
           /\ \A o \in Workers \ {w} : handler'[o] = handler[o]
<1>1. /\ handler'[w].pc = "release"
      /\ handler'[w].expiry = handler[w].expiry
      /\ \A o \in Workers \ {w} : handler'[o] = handler[o]
  BY MovesTo DEF ReverifyFails
<1>2. /\ handler[w].pc = "reverify"
      /\ domain' = domain
      /\ registrar' = registrar
      /\ unsettled' = unsettled
      /\ stray' = stray
      /\ crowded' = crowded
      /\ faults' = faults + 1
  BY RowType DEF ReverifyFails, AtStep, At, Fault, histories, DomainRow, RegistrarRow
<1>3. QED
  BY <1>1, <1>2

LEMMA RegisterDomainEffect ==
    ASSUME DomainTypeOK, NEW w \in Workers, RegisterDomain(w)
    PROVE  /\ handler[w].pc = "register"
           /\ registrar.at = "free"
           /\ handler'[w].pc = "activate"
           /\ handler'[w].expiry = handler[w].expiry /\ handler'[w].v = handler[w].v
           /\ domain' = domain
           /\ registrar'.at = "registered"
           /\ registrar'.expiry = 1
           /\ registrar'.set = Told(Requested(handler[w].v))
           /\ stray' = stray
           /\ unsettled' = unsettled
           /\ crowded' = crowded
           /\ faults' = faults
           /\ \A o \in Workers \ {w} : handler'[o] = handler[o]
<1>1. handler'[w] = [handler[w] EXCEPT !.pc = "activate", !.attempted = TRUE]
  BY Moves DEF RegisterDomain
<1>2. \A o \in Workers \ {w} : handler'[o] = handler[o]
  BY Moves DEF RegisterDomain
<1>3. /\ handler'[w].pc = "activate"
      /\ handler'[w].expiry = handler[w].expiry /\ handler'[w].v = handler[w].v
  BY <1>1, HandlerType DEF DomainHandler
<1>4. /\ handler[w].pc = "register"
      /\ registrar.at = "free"
      /\ domain' = domain
      /\ registrar'.at = "registered"
      /\ registrar'.expiry = 1
      /\ registrar'.set = Told(Requested(handler[w].v))
      /\ stray' = stray
      /\ unsettled' = unsettled
      /\ crowded' = crowded
      /\ faults' = faults
  BY RowType DEF RegisterDomain, AtStep, At, Registered, histories, DomainRow, RegistrarRow
<1>5. QED
  BY <1>1, <1>2, <1>3, <1>4

LEMMA RegistrationRefusedEffect ==
    ASSUME DomainTypeOK, NEW w \in Workers, RegistrationRefused(w)
    PROVE  /\ handler[w].pc = "register"
           /\ handler'[w].pc = "mark"
           /\ handler'[w].expiry = handler[w].expiry
           /\ domain' = domain
           /\ registrar' = registrar
           /\ stray' = stray
           /\ unsettled' = unsettled
           /\ crowded' = crowded
           /\ faults' = faults
           /\ \A o \in Workers \ {w} : handler'[o] = handler[o]
<1>1. handler'[w] = [handler[w] EXCEPT !.pc = "mark", !.attempted = TRUE]
  BY Moves DEF RegistrationRefused
<1>2. \A o \in Workers \ {w} : handler'[o] = handler[o]
  BY Moves DEF RegistrationRefused
<1>3. /\ handler'[w].pc = "mark"
      /\ handler'[w].expiry = handler[w].expiry
  BY <1>1, HandlerType DEF DomainHandler
<1>4. /\ handler[w].pc = "register"
      /\ domain' = domain
      /\ registrar' = registrar
      /\ stray' = stray
      /\ unsettled' = unsettled
      /\ crowded' = crowded
      /\ faults' = faults
  BY RowType DEF RegistrationRefused, AtStep, At, Asked, histories, DomainRow, RegistrarRow
<1>5. QED
  BY <1>1, <1>2, <1>3, <1>4

LEMMA RegistrationUnansweredEffect ==
    ASSUME DomainTypeOK, NEW w \in Workers, RegistrationUnanswered(w)
    PROVE  /\ handler[w].pc = "register"
           /\ handler'[w].pc = "idle" /\ handler'[w].expiry = 0
           /\ domain' = domain
           /\ \/ registrar' = registrar
              \/ /\ registrar.at = "free" /\ registrar'.at = "registered"
                 /\ registrar'.expiry = 1 /\ registrar'.set = Told(Requested(handler[w].v))
           /\ unsettled'
           /\ stray' = stray
           /\ crowded' = crowded
           /\ faults' = faults + 1
           /\ \A o \in Workers \ {w} : handler'[o] = handler[o]
<1>1. /\ handler'[w].pc = "idle" /\ handler'[w].expiry = 0
      /\ \A o \in Workers \ {w} : handler'[o] = handler[o]
  BY Returns DEF RegistrationUnanswered
<1>2. /\ handler[w].pc = "register"
      /\ domain' = domain
      /\ \/ registrar' = registrar
         \/ /\ registrar.at = "free" /\ registrar'.at = "registered"
            /\ registrar'.expiry = 1 /\ registrar'.set = Told(Requested(handler[w].v))
      /\ unsettled'
      /\ stray' = stray
      /\ crowded' = crowded
      /\ faults' = faults + 1
  BY RowType DEF RegistrationUnanswered, AtStep, At, Fault, Registered, histories,
      DomainRow, RegistrarRow
<1>3. QED
  BY <1>1, <1>2

LEMMA MarkRejectedEffect ==
    ASSUME DomainTypeOK, NEW w \in Workers, MarkRejected(w)
    PROVE  /\ handler[w].pc = "mark"
           /\ \/ handler'[w].pc = "idle" /\ handler'[w].expiry = 0
              \/ handler'[w].pc = "release" /\ handler'[w].expiry = handler[w].expiry
           /\ domain'.status = "REJECTED"
           /\ domain'.expiry = domain.expiry
           /\ domain'.set = domain.set
           /\ domain'.owner = domain.owner
           /\ registrar' = registrar
           /\ stray' = stray
           /\ unsettled' = unsettled
           /\ crowded' = crowded
           /\ faults' = faults
           /\ \A o \in Workers \ {w} : handler'[o] = handler[o]
<1>1. /\ \/ handler'[w].pc = "idle" /\ handler'[w].expiry = 0
         \/ handler'[w].pc = "release" /\ handler'[w].expiry = handler[w].expiry
      /\ \A o \in Workers \ {w} : handler'[o] = handler[o]
  BY MovesTo, Returns DEF MarkRejected
<1>2. /\ handler[w].pc = "mark"
      /\ domain'.status = "REJECTED"
      /\ domain'.expiry = domain.expiry
      /\ domain'.set = domain.set
      /\ domain'.owner = domain.owner
      /\ registrar' = registrar
      /\ stray' = stray
      /\ unsettled' = unsettled
      /\ crowded' = crowded
      /\ faults' = faults
  BY RowType DEF MarkRejected, AtStep, At, WriteRow, histories, DomainRow, RegistrarRow
<1>3. QED
  BY <1>1, <1>2

LEMMA MarkRejectedFailsEffect ==
    ASSUME DomainTypeOK, NEW w \in Workers, MarkRejectedFails(w)
    PROVE  /\ handler[w].pc = "mark"
           /\ \/ handler'[w].pc = "idle" /\ handler'[w].expiry = 0 /\ unsettled'
              \/ handler'[w].pc = "release" /\ handler'[w].expiry = handler[w].expiry
                     /\ (unsettled' <=> unsettled)
           /\ domain' = domain
           /\ registrar' = registrar
           /\ stray' = stray
           /\ crowded' = crowded
           /\ faults' = faults + 1
           /\ \A o \in Workers \ {w} : handler'[o] = handler[o]
<1>1. \A o \in Workers \ {w} : handler'[o] = handler[o]
  BY MovesTo, Returns DEF MarkRejectedFails
<1>2. /\ handler[w].pc = "mark"
      /\ domain' = domain
      /\ registrar' = registrar
      /\ stray' = stray
      /\ crowded' = crowded
      /\ faults' = faults + 1
  BY RowType DEF MarkRejectedFails, AtStep, At, Fault, histories, DomainRow, RegistrarRow
<1>3. CASE handler[w].attempted
  <2>1. Return(w) /\ unsettled' = TRUE
    BY <1>3 DEF MarkRejectedFails
  <2>2. QED
    BY <1>2, <2>1, Returns
<1>4. CASE ~handler[w].attempted
  <2>1. GoTo(w, "release") /\ unsettled' = unsettled
    BY <1>4, RowType, Zenon DEF MarkRejectedFails
  <2>2. QED
    BY <1>2, <2>1, MovesTo
<1>5. QED
  BY <1>1, <1>2, <1>3, <1>4

LEMMA ReleaseRegistrationEffect ==
    ASSUME DomainTypeOK, NEW w \in Workers, ReleaseRegistration(w)
    PROVE  /\ handler[w].pc = "release"
           /\ handler'[w].pc = "idle" /\ handler'[w].expiry = 0
           /\ \/ domain.status = "PENDING_REGISTRATION"
                     /\ domain'.status = "PENDING_APPROVAL"
              \/ domain.status # "PENDING_REGISTRATION" /\ domain'.status = domain.status
           /\ domain'.expiry = domain.expiry
           /\ domain'.set = domain.set
           /\ domain'.owner = domain.owner
           /\ registrar' = registrar
           /\ stray' = stray
           /\ unsettled' = unsettled
           /\ crowded' = crowded
           /\ faults' = faults
           /\ \A o \in Workers \ {w} : handler'[o] = handler[o]
<1>1. /\ handler'[w].pc = "idle" /\ handler'[w].expiry = 0
      /\ \A o \in Workers \ {w} : handler'[o] = handler[o]
  BY Returns DEF ReleaseRegistration
<1>2. /\ handler[w].pc = "release"
      /\ \/ domain.status = "PENDING_REGISTRATION" /\ domain'.status = "PENDING_APPROVAL"
         \/ domain.status # "PENDING_REGISTRATION" /\ domain'.status = domain.status
      /\ domain'.expiry = domain.expiry
      /\ domain'.set = domain.set
      /\ domain'.owner = domain.owner
      /\ registrar' = registrar
      /\ stray' = stray
      /\ unsettled' = unsettled
      /\ crowded' = crowded
      /\ faults' = faults
  BY RowType DEF ReleaseRegistration, AtStep, At, WriteRow, histories, DomainRow,
      RegistrarRow
<1>3. QED
  BY <1>1, <1>2

LEMMA ActivateDomainEffect ==
    ASSUME DomainTypeOK, NEW w \in Workers, ActivateDomain(w)
    PROVE  /\ handler[w].pc = "activate"
           /\ handler'[w].pc = "lock"
           /\ handler'[w].expiry = handler[w].expiry
           /\ domain'.status = "ACTIVE"
           /\ domain'.expiry = 1
           /\ domain'.set = Locked(handler[w].v)
           /\ domain'.owner = domain.owner
           /\ registrar' = registrar
           /\ stray' = stray
           /\ unsettled' = unsettled
           /\ crowded' = crowded
           /\ faults' = faults
           /\ \A o \in Workers \ {w} : handler'[o] = handler[o]
<1>1. /\ handler'[w].pc = "lock"
      /\ handler'[w].expiry = handler[w].expiry
      /\ \A o \in Workers \ {w} : handler'[o] = handler[o]
  BY MovesTo DEF ActivateDomain
<1>2. /\ handler[w].pc = "activate"
      /\ domain'.status = "ACTIVE"
      /\ domain'.expiry = 1
      /\ domain'.set = Locked(handler[w].v)
      /\ domain'.owner = domain.owner
      /\ registrar' = registrar
      /\ stray' = stray
      /\ unsettled' = unsettled
      /\ crowded' = crowded
      /\ faults' = faults
  BY RowType DEF ActivateDomain, AtStep, At, WriteRow, histories, DomainRow, RegistrarRow
<1>3. QED
  BY <1>1, <1>2

LEMMA LockDomainEffect ==
    ASSUME DomainTypeOK, NEW w \in Workers, LockDomain(w)
    PROVE  /\ handler[w].pc = "lock"
           /\ handler'[w].pc = "idle" /\ handler'[w].expiry = 0
           /\ domain' = domain
           /\ registrar'.at = registrar.at
           /\ registrar'.expiry = registrar.expiry
           /\ faults' = faults \/ (registrar' = registrar /\ faults' = faults + 1)
           /\ stray' = stray
           /\ unsettled' = unsettled
           /\ crowded' = crowded
           /\ \A o \in Workers \ {w} : handler'[o] = handler[o]
<1>1. Return(w) /\ UNCHANGED <<domain, stray, unsettled, crowded>> /\ handler[w].pc = "lock"
  BY DEF LockDomain, histories, AtStep, At
<1>2. CASE Fault /\ UNCHANGED registrar
  BY <1>1, <1>2, Returns DEF Fault
<1>3. CASE UNCHANGED faults /\ registrar' = [registrar EXCEPT !.set = WithLock(@)]
  <2>1. registrar'.at = registrar.at /\ registrar'.expiry = registrar.expiry
    BY <1>3, RowType DEF RegistrarRow
  <2>2. faults' = faults
    BY <1>3
  <2>3. QED
    BY <1>1, <2>1, <2>2, Returns
<1>4. QED
  BY <1>2, <1>3 DEF LockDomain

LEMMA CommitRejectionEffect ==
    ASSUME DomainTypeOK, NEW w \in Workers, CommitRejection(w)
    PROVE  /\ handler[w].pc = "reject"
           /\ handler'[w].pc = "idle" /\ handler'[w].expiry = 0
           /\ domain'.status = "REJECTED"
           /\ domain'.expiry = domain.expiry
           /\ domain'.set = domain.set
           /\ domain'.owner = domain.owner
           /\ registrar' = registrar
           /\ stray' = stray
           /\ unsettled' = unsettled
           /\ crowded' = crowded
           /\ faults' = faults
           /\ \A o \in Workers \ {w} : handler'[o] = handler[o]
<1>1. /\ handler'[w].pc = "idle" /\ handler'[w].expiry = 0
      /\ \A o \in Workers \ {w} : handler'[o] = handler[o]
  BY Returns DEF CommitRejection
<1>2. /\ handler[w].pc = "reject"
      /\ domain'.status = "REJECTED"
      /\ domain'.expiry = domain.expiry
      /\ domain'.set = domain.set
      /\ domain'.owner = domain.owner
      /\ registrar' = registrar
      /\ stray' = stray
      /\ unsettled' = unsettled
      /\ crowded' = crowded
      /\ faults' = faults
  BY RowType DEF CommitRejection, AtStep, At, WriteRow, histories, DomainRow, RegistrarRow
<1>3. QED
  BY <1>1, <1>2

LEMMA RenewAtRegistrarEffect ==
    ASSUME DomainTypeOK, NEW w \in Workers, RenewAtRegistrar(w)
    PROVE  /\ handler[w].pc = "renew"
           /\ Held
           /\ handler'[w].pc = "saveRenewal"
           /\ handler'[w].expiry = handler[w].expiry
           /\ domain' = domain
           /\ registrar'.at = registrar.at
           /\ registrar'.expiry = registrar.expiry + 1
           /\ registrar'.set = registrar.set
           /\ stray' = stray
           /\ unsettled' = unsettled
           /\ crowded' = crowded
           /\ faults' = faults
           /\ \A o \in Workers \ {w} : handler'[o] = handler[o]
<1>1. /\ handler'[w].pc = "saveRenewal"
      /\ handler'[w].expiry = handler[w].expiry
      /\ \A o \in Workers \ {w} : handler'[o] = handler[o]
  BY MovesTo DEF RenewAtRegistrar
<1>2. /\ handler[w].pc = "renew"
      /\ Held
      /\ domain' = domain
      /\ registrar'.at = registrar.at
      /\ registrar'.expiry = registrar.expiry + 1
      /\ registrar'.set = registrar.set
      /\ stray' = stray
      /\ unsettled' = unsettled
      /\ crowded' = crowded
      /\ faults' = faults
  BY RowType DEF RenewAtRegistrar, AtStep, At, Held, histories, DomainRow, RegistrarRow
<1>3. QED
  BY <1>1, <1>2

LEMMA RenewalRefusedEffect ==
    ASSUME DomainTypeOK, NEW w \in Workers, RenewalRefused(w)
    PROVE  /\ handler[w].pc = "renew"
           /\ handler'[w].pc = "idle" /\ handler'[w].expiry = 0
           /\ domain' = domain
           /\ registrar' = registrar
           /\ stray' = stray
           /\ unsettled' = unsettled
           /\ crowded' = crowded
           /\ faults' = faults
           /\ \A o \in Workers \ {w} : handler'[o] = handler[o]
<1>1. /\ handler'[w].pc = "idle" /\ handler'[w].expiry = 0
      /\ \A o \in Workers \ {w} : handler'[o] = handler[o]
  BY Returns DEF RenewalRefused
<1>2. /\ handler[w].pc = "renew"
      /\ domain' = domain
      /\ registrar' = registrar
      /\ stray' = stray
      /\ unsettled' = unsettled
      /\ crowded' = crowded
      /\ faults' = faults
  BY RowType DEF RenewalRefused, AtStep, At, Asked, histories, DomainRow, RegistrarRow
<1>3. QED
  BY <1>1, <1>2

LEMMA SaveRenewalEffect ==
    ASSUME DomainTypeOK, NEW w \in Workers, SaveRenewal(w)
    PROVE  /\ handler[w].pc = "saveRenewal"
           /\ handler'[w].pc = "idle" /\ handler'[w].expiry = 0
           /\ domain'.status = "ACTIVE"
           /\ domain'.expiry = handler[w].expiry + 1
           /\ domain'.set = domain.set
           /\ domain'.owner = domain.owner
           /\ registrar' = registrar
           /\ stray' = stray
           /\ unsettled' = unsettled
           /\ crowded' = crowded
           /\ faults' = faults
           /\ \A o \in Workers \ {w} : handler'[o] = handler[o]
<1>1. /\ handler'[w].pc = "idle" /\ handler'[w].expiry = 0
      /\ \A o \in Workers \ {w} : handler'[o] = handler[o]
  BY Returns DEF SaveRenewal
<1>2. /\ handler[w].pc = "saveRenewal"
      /\ domain'.status = "ACTIVE"
      /\ domain'.expiry = handler[w].expiry + 1
      /\ domain'.set = domain.set
      /\ domain'.owner = domain.owner
      /\ registrar' = registrar
      /\ stray' = stray
      /\ unsettled' = unsettled
      /\ crowded' = crowded
      /\ faults' = faults
  BY RowType DEF SaveRenewal, AtStep, At, WriteRow, histories, DomainRow, RegistrarRow
<1>3. QED
  BY <1>1, <1>2

LEMMA CompareExpiryEffect ==
    ASSUME DomainTypeOK, NEW w \in Workers, CompareExpiry(w)
    PROVE  /\ handler[w].pc = "info"
           /\ \/ handler'[w].pc = "saveExpiry" /\ handler'[w].expiry = registrar.expiry
              \/ handler'[w].pc = "idle" /\ handler'[w].expiry = 0
           /\ domain' = domain
           /\ registrar' = registrar
           /\ stray' = stray
           /\ unsettled' = unsettled
           /\ crowded' = crowded
           /\ faults' = faults
           /\ \A o \in Workers \ {w} : handler'[o] = handler[o]
<1>1. \/ Held /\ handler'[w] = [handler[w] EXCEPT !.pc = "saveExpiry",
             !.expiry = registrar.expiry]
      \/ handler'[w].pc = "idle" /\ handler'[w].expiry = 0
  BY Moves, Returns DEF CompareExpiry
<1>2. \A o \in Workers \ {w} : handler'[o] = handler[o]
  BY Moves, Returns DEF CompareExpiry
<1>3. [handler[w] EXCEPT !.pc = "saveExpiry", !.expiry = registrar.expiry].pc = "saveExpiry"
      /\ [handler[w] EXCEPT !.pc = "saveExpiry",
             !.expiry = registrar.expiry].expiry = registrar.expiry
  BY HandlerType DEF DomainHandler
<1>4. \/ handler'[w].pc = "saveExpiry" /\ handler'[w].expiry = registrar.expiry
      \/ handler'[w].pc = "idle" /\ handler'[w].expiry = 0
  <2>1. CASE handler'[w] = [handler[w] EXCEPT !.pc = "saveExpiry",
            !.expiry = registrar.expiry] /\ Held
    BY <2>1, <1>3
  <2>2. CASE handler'[w].pc = "idle" /\ handler'[w].expiry = 0
    BY <2>2
  <2>3. QED
    BY <1>1, <2>1, <2>2
<1>5. /\ handler[w].pc = "info"
      /\ domain' = domain
      /\ registrar' = registrar
      /\ stray' = stray
      /\ unsettled' = unsettled
      /\ crowded' = crowded
      /\ faults' = faults
  BY RowType DEF CompareExpiry, AtStep, At, Asked, Held, histories, DomainRow, RegistrarRow
<1>6. QED
  BY <1>1, <1>2, <1>3, <1>4, <1>5

LEMMA SyncExpiryEffect ==
    ASSUME DomainTypeOK, NEW w \in Workers, SyncExpiry(w)
    PROVE  /\ handler[w].pc = "saveExpiry"
           /\ handler'[w].pc = "idle" /\ handler'[w].expiry = 0
           /\ domain'.status = domain.status
           /\ domain'.expiry = handler[w].expiry
           /\ domain'.set = domain.set
           /\ domain'.owner = domain.owner
           /\ registrar' = registrar
           /\ stray' = stray
           /\ unsettled' = unsettled
           /\ crowded' = crowded
           /\ faults' = faults
           /\ \A o \in Workers \ {w} : handler'[o] = handler[o]
<1>1. /\ handler'[w].pc = "idle" /\ handler'[w].expiry = 0
      /\ \A o \in Workers \ {w} : handler'[o] = handler[o]
  BY Returns DEF SyncExpiry
<1>2. /\ handler[w].pc = "saveExpiry"
      /\ domain'.status = domain.status
      /\ domain'.expiry = handler[w].expiry
      /\ domain'.set = domain.set
      /\ domain'.owner = domain.owner
      /\ registrar' = registrar
      /\ stray' = stray
      /\ unsettled' = unsettled
      /\ crowded' = crowded
      /\ faults' = faults
  BY RowType DEF SyncExpiry, AtStep, At, WriteRow, histories, DomainRow, RegistrarRow
<1>3. QED
  BY <1>1, <1>2

LEMMA ApplySettingEffect ==
    ASSUME DomainTypeOK, NEW w \in Workers, ApplySetting(w)
    PROVE  /\ handler[w].pc = "toggle"
           /\ Held
           /\ handler'[w].pc = "saveSetting"
           /\ handler'[w].expiry = handler[w].expiry
           /\ domain' = domain
           /\ registrar'.at = registrar.at
           /\ registrar'.expiry = registrar.expiry
           /\ stray' = stray
           /\ unsettled' = unsettled
           /\ crowded' = crowded
           /\ faults' = faults
           /\ \A o \in Workers \ {w} : handler'[o] = handler[o]
<1>1. /\ handler'[w].pc = "saveSetting"
      /\ handler'[w].expiry = handler[w].expiry
      /\ \A o \in Workers \ {w} : handler'[o] = handler[o]
  BY MovesTo DEF ApplySetting
<1>2. /\ handler[w].pc = "toggle"
      /\ Held
      /\ domain' = domain
      /\ registrar'.at = registrar.at
      /\ registrar'.expiry = registrar.expiry
      /\ stray' = stray
      /\ unsettled' = unsettled
      /\ crowded' = crowded
      /\ faults' = faults
  BY RowType DEF ApplySetting, AtStep, At, Held, histories, DomainRow, RegistrarRow
<1>3. QED
  BY <1>1, <1>2

LEMMA SettingRefusedEffect ==
    ASSUME DomainTypeOK, NEW w \in Workers, SettingRefused(w)
    PROVE  /\ handler[w].pc = "toggle"
           /\ handler'[w].pc = "saveSetting"
           /\ handler'[w].expiry = handler[w].expiry
           /\ (faults' = faults /\ ~Held) \/ faults' = faults + 1
           /\ domain' = domain
           /\ registrar' = registrar
           /\ stray' = stray
           /\ unsettled' = unsettled
           /\ crowded' = crowded
           /\ \A o \in Workers \ {w} : handler'[o] = handler[o]
<1>1. /\ handler'[w].pc = "saveSetting"
      /\ handler'[w].expiry = handler[w].expiry
      /\ \A o \in Workers \ {w} : handler'[o] = handler[o]
  BY MovesTo DEF SettingRefused
<1>2. /\ handler[w].pc = "toggle"
      /\ (faults' = faults /\ ~Held) \/ faults' = faults + 1
      /\ domain' = domain
      /\ registrar' = registrar
      /\ stray' = stray
      /\ unsettled' = unsettled
      /\ crowded' = crowded
  BY RowType DEF SettingRefused, AtStep, At, Fault, Held, histories, DomainRow, RegistrarRow
<1>3. QED
  BY <1>1, <1>2

LEMMA SettingFailsEffect ==
    ASSUME DomainTypeOK, NEW w \in Workers, SettingFails(w)
    PROVE  /\ handler[w].pc = "toggle"
           /\ \/ handler'[w].pc = "idle" /\ handler'[w].expiry = 0
              \/ handler'[w].pc = "saveSetting" /\ handler'[w].expiry = handler[w].expiry
           /\ domain' = domain
           /\ registrar' = registrar
           /\ unsettled' = unsettled
           /\ stray' = stray
           /\ crowded' = crowded
           /\ faults' = faults + 1
           /\ \A o \in Workers \ {w} : handler'[o] = handler[o]
<1>1. /\ \/ handler'[w].pc = "idle" /\ handler'[w].expiry = 0
         \/ handler'[w].pc = "saveSetting" /\ handler'[w].expiry = handler[w].expiry
      /\ \A o \in Workers \ {w} : handler'[o] = handler[o]
  BY MovesTo, Returns DEF SettingFails
<1>2. /\ handler[w].pc = "toggle"
      /\ domain' = domain
      /\ registrar' = registrar
      /\ unsettled' = unsettled
      /\ stray' = stray
      /\ crowded' = crowded
      /\ faults' = faults + 1
  BY RowType DEF SettingFails, AtStep, At, Fault, histories, DomainRow, RegistrarRow
<1>3. QED
  BY <1>1, <1>2

LEMMA SaveSettingEffect ==
    ASSUME DomainTypeOK, NEW w \in Workers, SaveSetting(w)
    PROVE  /\ handler[w].pc = "saveSetting"
           /\ handler'[w].pc = "idle" /\ handler'[w].expiry = 0
           /\ domain'.status = domain.status
           /\ domain'.expiry = domain.expiry
           /\ domain'.owner = domain.owner
           /\ registrar' = registrar
           /\ stray' = stray
           /\ unsettled' = unsettled
           /\ crowded' = crowded
           /\ faults' = faults
           /\ \A o \in Workers \ {w} : handler'[o] = handler[o]
<1>1. /\ handler'[w].pc = "idle" /\ handler'[w].expiry = 0
      /\ \A o \in Workers \ {w} : handler'[o] = handler[o]
  BY Returns DEF SaveSetting
<1>2. /\ handler[w].pc = "saveSetting"
      /\ domain'.status = domain.status
      /\ domain'.expiry = domain.expiry
      /\ domain'.owner = domain.owner
      /\ registrar' = registrar
      /\ stray' = stray
      /\ unsettled' = unsettled
      /\ crowded' = crowded
      /\ faults' = faults
  BY RowType DEF SaveSetting, AtStep, At, WriteRow, histories, DomainRow, RegistrarRow
<1>3. QED
  BY <1>1, <1>2

LEMMA MarkDeletedEffect ==
    ASSUME DomainTypeOK, NEW w \in Workers, MarkDeleted(w)
    PROVE  /\ handler[w].pc = "delete"
           /\ handler'[w].pc = "idle" /\ handler'[w].expiry = 0
           /\ domain'.status = "DELETED"
           /\ domain'.expiry = domain.expiry
           /\ domain'.set = domain.set
           /\ domain'.owner = domain.owner
           /\ registrar' = registrar
           /\ stray' = stray
           /\ unsettled' = unsettled
           /\ crowded' = crowded
           /\ faults' = faults
           /\ \A o \in Workers \ {w} : handler'[o] = handler[o]
<1>1. /\ handler'[w].pc = "idle" /\ handler'[w].expiry = 0
      /\ \A o \in Workers \ {w} : handler'[o] = handler[o]
  BY Returns DEF MarkDeleted
<1>2. /\ handler[w].pc = "delete"
      /\ domain'.status = "DELETED"
      /\ domain'.expiry = domain.expiry
      /\ domain'.set = domain.set
      /\ domain'.owner = domain.owner
      /\ registrar' = registrar
      /\ stray' = stray
      /\ unsettled' = unsettled
      /\ crowded' = crowded
      /\ faults' = faults
  BY RowType DEF MarkDeleted, AtStep, At, WriteRow, histories, DomainRow, RegistrarRow
<1>3. QED
  BY <1>1, <1>2

LEMMA TransferDomainEffect ==
    ASSUME DomainTypeOK, NEW w \in Workers, TransferDomain(w)
    PROVE  /\ handler[w].pc = "transfer"
           /\ registrar.at = "elsewhere"
           /\ registrar'.at = "incoming"
           /\ handler'[w].pc = "createTransfer"
           /\ handler'[w].expiry = handler[w].expiry
           /\ domain' = domain
           /\ registrar'.expiry = registrar.expiry
           /\ registrar'.set = registrar.set
           /\ stray' = stray
           /\ unsettled' = unsettled
           /\ crowded' = crowded
           /\ faults' = faults
           /\ \A o \in Workers \ {w} : handler'[o] = handler[o]
<1>1. /\ handler'[w].pc = "createTransfer"
      /\ handler'[w].expiry = handler[w].expiry
      /\ \A o \in Workers \ {w} : handler'[o] = handler[o]
  BY MovesTo DEF TransferDomain
<1>2. /\ handler[w].pc = "transfer"
      /\ registrar.at = "elsewhere"
      /\ registrar'.at = "incoming"
      /\ domain' = domain
      /\ registrar'.expiry = registrar.expiry
      /\ registrar'.set = registrar.set
      /\ stray' = stray
      /\ unsettled' = unsettled
      /\ crowded' = crowded
      /\ faults' = faults
  BY RowType DEF TransferDomain, AtStep, At, histories, DomainRow, RegistrarRow
<1>3. QED
  BY <1>1, <1>2

LEMMA TransferRefusedEffect ==
    ASSUME DomainTypeOK, NEW w \in Workers, TransferRefused(w)
    PROVE  /\ handler[w].pc = "transfer"
           /\ handler'[w].pc = "idle" /\ handler'[w].expiry = 0
           /\ domain' = domain
           /\ registrar' = registrar
           /\ stray' = stray
           /\ unsettled' = unsettled
           /\ crowded' = crowded
           /\ faults' = faults
           /\ \A o \in Workers \ {w} : handler'[o] = handler[o]
<1>1. /\ handler'[w].pc = "idle" /\ handler'[w].expiry = 0
      /\ \A o \in Workers \ {w} : handler'[o] = handler[o]
  BY Returns DEF TransferRefused
<1>2. /\ handler[w].pc = "transfer"
      /\ domain' = domain
      /\ registrar' = registrar
      /\ stray' = stray
      /\ unsettled' = unsettled
      /\ crowded' = crowded
      /\ faults' = faults
  BY RowType DEF TransferRefused, AtStep, At, Asked, histories, DomainRow, RegistrarRow
<1>3. QED
  BY <1>1, <1>2

LEMMA CreateTransferEffect ==
    ASSUME DomainTypeOK, NEW w \in Workers, CreateTransfer(w)
    PROVE  /\ handler[w].pc = "createTransfer"
           /\ handler'[w].pc = "idle" /\ handler'[w].expiry = 0
           /\ \/ /\ domain.status = "NONE" /\ domain'.status = "PENDING_TRANSFER"
                        /\ domain'.expiry = 0
                 /\ (stray' <=> stray)
              \/ domain.status # "NONE" /\ domain' = domain /\ stray'
           /\ registrar' = registrar
           /\ unsettled' = unsettled
           /\ crowded' = crowded
           /\ faults' = faults
           /\ \A o \in Workers \ {w} : handler'[o] = handler[o]
<1>1. /\ handler'[w].pc = "idle" /\ handler'[w].expiry = 0
      /\ \A o \in Workers \ {w} : handler'[o] = handler[o]
  BY Returns DEF CreateTransfer
<1>2. /\ handler[w].pc = "createTransfer"
      /\ \/ /\ domain.status = "NONE" /\ domain'.status = "PENDING_TRANSFER"
                   /\ domain'.expiry = 0
            /\ (stray' <=> stray)
         \/ domain.status # "NONE" /\ domain' = domain /\ stray'
      /\ registrar' = registrar
      /\ unsettled' = unsettled
      /\ crowded' = crowded
      /\ faults' = faults
  BY RowType DEF CreateTransfer, AtStep, At, InsertPaid, NewRow, histories, DomainRow,
      RegistrarRow
<1>3. QED
  BY <1>1, <1>2

LEMMA CheckTransferEffect ==
    ASSUME DomainTypeOK, NEW w \in Workers, CheckTransfer(w)
    PROVE  /\ handler[w].pc = "transferInfo"
           /\ \/ Held /\ handler'[w].pc = "saveTransfer"
                     /\ handler'[w].expiry = registrar.expiry
              \/ handler'[w].pc = "idle" /\ handler'[w].expiry = 0
           /\ domain' = domain
           /\ registrar' = registrar
           /\ stray' = stray
           /\ unsettled' = unsettled
           /\ crowded' = crowded
           /\ faults' = faults
           /\ \A o \in Workers \ {w} : handler'[o] = handler[o]
<1>1. \/ Held /\ handler'[w] = [handler[w] EXCEPT !.pc = "saveTransfer",
             !.expiry = registrar.expiry]
      \/ handler'[w].pc = "idle" /\ handler'[w].expiry = 0
  BY Moves, Returns DEF CheckTransfer
<1>2. \A o \in Workers \ {w} : handler'[o] = handler[o]
  BY Moves, Returns DEF CheckTransfer
<1>3. [handler[w] EXCEPT !.pc = "saveTransfer",
          !.expiry = registrar.expiry].pc = "saveTransfer"
      /\ [handler[w] EXCEPT !.pc = "saveTransfer",
             !.expiry = registrar.expiry].expiry = registrar.expiry
  BY HandlerType DEF DomainHandler
<1>4. \/ Held /\ handler'[w].pc = "saveTransfer" /\ handler'[w].expiry = registrar.expiry
      \/ handler'[w].pc = "idle" /\ handler'[w].expiry = 0
  <2>1. CASE handler'[w] = [handler[w] EXCEPT !.pc = "saveTransfer",
            !.expiry = registrar.expiry] /\ Held
    BY <2>1, <1>3
  <2>2. CASE handler'[w].pc = "idle" /\ handler'[w].expiry = 0
    BY <2>2
  <2>3. QED
    BY <1>1, <2>1, <2>2
<1>5. /\ handler[w].pc = "transferInfo"
      /\ domain' = domain
      /\ registrar' = registrar
      /\ stray' = stray
      /\ unsettled' = unsettled
      /\ crowded' = crowded
      /\ faults' = faults
  BY RowType DEF CheckTransfer, AtStep, At, Asked, Held, histories, DomainRow, RegistrarRow
<1>6. QED
  BY <1>1, <1>2, <1>3, <1>4, <1>5

LEMMA CompleteTransferEffect ==
    ASSUME DomainTypeOK, NEW w \in Workers, CompleteTransfer(w)
    PROVE  /\ handler[w].pc = "saveTransfer"
           /\ handler'[w].pc = "idle" /\ handler'[w].expiry = 0
           /\ domain'.status = "ACTIVE"
           /\ domain'.expiry = handler[w].expiry
           /\ domain'.set = domain.set
           /\ domain'.owner = domain.owner
           /\ registrar' = registrar
           /\ stray' = stray
           /\ unsettled' = unsettled
           /\ crowded' = crowded
           /\ faults' = faults
           /\ \A o \in Workers \ {w} : handler'[o] = handler[o]
<1>1. /\ handler'[w].pc = "idle" /\ handler'[w].expiry = 0
      /\ \A o \in Workers \ {w} : handler'[o] = handler[o]
  BY Returns DEF CompleteTransfer
<1>2. /\ handler[w].pc = "saveTransfer"
      /\ domain'.status = "ACTIVE"
      /\ domain'.expiry = handler[w].expiry
      /\ domain'.set = domain.set
      /\ domain'.owner = domain.owner
      /\ registrar' = registrar
      /\ stray' = stray
      /\ unsettled' = unsettled
      /\ crowded' = crowded
      /\ faults' = faults
  BY RowType DEF CompleteTransfer, AtStep, At, WriteRow, histories, DomainRow, RegistrarRow
<1>3. QED
  BY <1>1, <1>2

LEMMA RegisterBlockedEffect ==
    ASSUME DomainTypeOK, NEW w \in Workers, RegisterBlocked(w)
    PROVE  /\ handler[w].pc = "block"
           /\ registrar.at = "free"
           /\ handler'[w].pc = "createBlocked"
           /\ handler'[w].expiry = handler[w].expiry
           /\ domain' = domain
           /\ registrar'.at = "registered"
           /\ registrar'.expiry = 1
           /\ registrar'.set = Told(Requested("default"))
           /\ stray' = stray
           /\ unsettled' = unsettled
           /\ crowded' = crowded
           /\ faults' = faults
           /\ \A o \in Workers \ {w} : handler'[o] = handler[o]
<1>1. /\ handler'[w].pc = "createBlocked"
      /\ handler'[w].expiry = handler[w].expiry
      /\ \A o \in Workers \ {w} : handler'[o] = handler[o]
  BY MovesTo DEF RegisterBlocked
<1>2. /\ handler[w].pc = "block"
      /\ registrar.at = "free"
      /\ domain' = domain
      /\ registrar'.at = "registered"
      /\ registrar'.expiry = 1
      /\ registrar'.set = Told(Requested("default"))
      /\ stray' = stray
      /\ unsettled' = unsettled
      /\ crowded' = crowded
      /\ faults' = faults
  BY RowType DEF RegisterBlocked, AtStep, At, Registered, histories, DomainRow, RegistrarRow
<1>3. QED
  BY <1>1, <1>2

LEMMA BlockRefusedEffect ==
    ASSUME DomainTypeOK, NEW w \in Workers, BlockRefused(w)
    PROVE  /\ handler[w].pc = "block"
           /\ handler'[w].pc = "idle" /\ handler'[w].expiry = 0
           /\ domain' = domain
           /\ registrar' = registrar
           /\ stray' = stray
           /\ unsettled' = unsettled
           /\ crowded' = crowded
           /\ faults' = faults
           /\ \A o \in Workers \ {w} : handler'[o] = handler[o]
<1>1. /\ handler'[w].pc = "idle" /\ handler'[w].expiry = 0
      /\ \A o \in Workers \ {w} : handler'[o] = handler[o]
  BY Returns DEF BlockRefused
<1>2. /\ handler[w].pc = "block"
      /\ domain' = domain
      /\ registrar' = registrar
      /\ stray' = stray
      /\ unsettled' = unsettled
      /\ crowded' = crowded
      /\ faults' = faults
  BY RowType DEF BlockRefused, AtStep, At, Asked, histories, DomainRow, RegistrarRow
<1>3. QED
  BY <1>1, <1>2

LEMMA CreateBlockedEffect ==
    ASSUME DomainTypeOK, NEW w \in Workers, CreateBlocked(w)
    PROVE  /\ handler[w].pc = "createBlocked"
           /\ \/ /\ domain.status = "NONE" /\ domain'.status = "ACTIVE"
                        /\ domain'.expiry = 1
                 /\ domain'.set = Locked("default") /\ (stray' <=> stray)
                 /\ handler'[w].pc = "lock" /\ handler'[w].expiry = handler[w].expiry
              \/ /\ domain.status # "NONE" /\ domain' = domain /\ stray'
                 /\ handler'[w].pc = "idle" /\ handler'[w].expiry = 0
           /\ registrar' = registrar
           /\ unsettled' = unsettled
           /\ crowded' = crowded
           /\ faults' = faults
           /\ \A o \in Workers \ {w} : handler'[o] = handler[o]
<1>1. \A o \in Workers \ {w} : handler'[o] = handler[o]
  BY MovesTo, Returns DEF CreateBlocked
<1>2. \/ /\ domain.status = "NONE" /\ domain'.status = "ACTIVE" /\ domain'.expiry = 1
         /\ domain'.set = Locked("default") /\ (stray' <=> stray)
         /\ handler'[w].pc = "lock" /\ handler'[w].expiry = handler[w].expiry
      \/ /\ domain.status # "NONE" /\ domain' = domain /\ stray'
         /\ handler'[w].pc = "idle" /\ handler'[w].expiry = 0
  BY MovesTo, Returns, RowType DEF CreateBlocked, AtStep, At, InsertPaid, NewRow,
      histories, DomainRow, RegistrarRow
<1>3. /\ handler[w].pc = "createBlocked"
      /\ registrar' = registrar
      /\ unsettled' = unsettled
      /\ crowded' = crowded
      /\ faults' = faults
  BY RowType DEF CreateBlocked, AtStep, At, InsertPaid, NewRow, histories, DomainRow,
      RegistrarRow
<1>4. QED
  BY <1>1, <1>2, <1>3

LEMMA FailEffect ==
    ASSUME DomainTypeOK, NEW w \in Workers, Fail(w)
    PROVE  /\ handler[w].pc # "idle"
           /\ handler'[w].pc = "idle" /\ handler'[w].expiry = 0
           /\ unsettled' <=> (unsettled \/ handler[w].pc \in Approving)
           /\ stray' <=> (stray \/ handler[w].pc \in {"createTransfer", "createBlocked"})
           /\ domain' = domain
           /\ registrar' = registrar
           /\ crowded' = crowded
           /\ faults' = faults + 1
           /\ \A o \in Workers \ {w} : handler'[o] = handler[o]
<1>1. /\ handler'[w].pc = "idle" /\ handler'[w].expiry = 0
      /\ \A o \in Workers \ {w} : handler'[o] = handler[o]
  BY Returns DEF Fail
<1>2. /\ handler[w].pc # "idle"
      /\ unsettled' <=> (unsettled \/ handler[w].pc \in Approving)
      /\ stray' <=> (stray \/ handler[w].pc \in {"createTransfer", "createBlocked"})
      /\ domain' = domain
      /\ registrar' = registrar
      /\ crowded' = crowded
      /\ faults' = faults + 1
  BY RowType DEF Fail, AtStep, At, Fault, Approving, histories, DomainRow, RegistrarRow
<1>3. QED
  BY <1>1, <1>2

LEMMA ClaimRegistrationEffect ==
    ASSUME DomainTypeOK, NEW w \in Workers, ClaimRegistration(w)
    PROVE  /\ handler[w].pc = "idle"
           /\ registrar' = registrar
           /\ unsettled' = unsettled
           /\ stray' = stray
           /\ faults' = faults
           /\ crowded' \/ (~crowded /\ \A o \in Workers : handler[o].pc = "idle")
           /\ domain.status = "PENDING_APPROVAL"
           /\ handler'[w].pc = "reverify"
           /\ handler'[w].expiry = 0
           /\ domain'.status = "PENDING_REGISTRATION"
           /\ domain'.expiry = domain.expiry
           /\ domain'.set = domain.set
           /\ domain'.owner = domain.owner
           /\ \A o \in Workers \ {w} : handler'[o] = handler[o]
<1> DEFINE servers == IF "nameservers" \in Settings THEN domain.set["nameservers"]
                      ELSE "default"
<1>1. handler'[w] = [IdleHandler EXCEPT !.pc = "reverify", !.v = servers]
  BY Starts DEF ClaimRegistration
<1> HIDE DEF servers
<1>2. /\ handler'[w].pc = "reverify"
      /\ handler'[w].expiry = 0
      /\ \A o \in Workers \ {w} : handler'[o] = handler[o]
  BY <1>1, Starts, Constants, RowType, IdleHandler.expiry = 0 DEF ClaimRegistration,
      DomainHandler, IdleHandler
<1>3. /\ handler[w].pc = "idle"
      /\ registrar' = registrar
      /\ unsettled' = unsettled
      /\ stray' = stray
      /\ faults' = faults
      /\ crowded' \/ (~crowded /\ \A o \in Workers : handler[o].pc = "idle")
      /\ domain.status = "PENDING_APPROVAL"
      /\ domain'.status = "PENDING_REGISTRATION"
      /\ domain'.expiry = domain.expiry
      /\ domain'.set = domain.set
      /\ domain'.owner = domain.owner
  BY Starts, RowType DEF ClaimRegistration, Start, AtStep, At, histories, DomainRow,
      RegistrarRow
<1>4. QED
  BY <1>1, <1>2, <1>3

LEMMA RejectRegistrationEffect ==
    ASSUME DomainTypeOK, NEW w \in Workers, RejectRegistration(w)
    PROVE  /\ handler[w].pc = "idle"
           /\ registrar' = registrar
           /\ unsettled' = unsettled
           /\ stray' = stray
           /\ faults' = faults
           /\ crowded' \/ (~crowded /\ \A o \in Workers : handler[o].pc = "idle")
           /\ domain.status = "PENDING_APPROVAL"
           /\ handler'[w].pc = "reject"
           /\ handler'[w].expiry = 0
           /\ domain' = domain
           /\ \A o \in Workers \ {w} : handler'[o] = handler[o]
<1>1. handler'[w] = [IdleHandler EXCEPT !.pc = "reject"]
  BY Starts DEF RejectRegistration
<1>2. /\ handler'[w].pc = "reject"
      /\ handler'[w].expiry = 0
      /\ \A o \in Workers \ {w} : handler'[o] = handler[o]
  BY <1>1, Starts, Constants, RowType, IdleHandler.expiry = 0 DEF RejectRegistration,
      DomainHandler, IdleHandler
<1>3. /\ handler[w].pc = "idle"
      /\ registrar' = registrar
      /\ unsettled' = unsettled
      /\ stray' = stray
      /\ faults' = faults
      /\ crowded' \/ (~crowded /\ \A o \in Workers : handler[o].pc = "idle")
      /\ domain.status = "PENDING_APPROVAL"
      /\ domain' = domain
  BY Starts, RowType DEF RejectRegistration, Start, AtStep, At, histories, DomainRow,
      RegistrarRow
<1>4. QED
  BY <1>1, <1>2, <1>3

LEMMA RequestRegistrationEffect ==
    ASSUME DomainTypeOK, NEW w \in Workers, NEW u \in Users, NEW d \in NameServers,
             RequestRegistration(w, u, d)
    PROVE  /\ handler[w].pc = "idle"
           /\ registrar' = registrar
           /\ unsettled' = unsettled
           /\ stray' = stray
           /\ faults' = faults
           /\ crowded' \/ (~crowded /\ \A o \in Workers : handler[o].pc = "idle")
           /\ domain.status \notin Live
           /\ handler'[w].pc = "available"
           /\ handler'[w].expiry = 0
           /\ handler'[w].seen <=> domain.status # "NONE"
           /\ domain' = domain
           /\ \A o \in Workers \ {w} : handler'[o] = handler[o]
<1>1. handler'[w] = [IdleHandler EXCEPT !.pc = "available", !.u = u, !.v = d,
                          !.seen = domain.status # "NONE"]
  BY Starts DEF RequestRegistration
<1>2. /\ handler'[w].pc = "available"
      /\ handler'[w].expiry = 0
      /\ handler'[w].seen <=> domain.status # "NONE"
      /\ \A o \in Workers \ {w} : handler'[o] = handler[o]
  BY <1>1, Starts, Constants, RowType, IdleHandler.expiry = 0 DEF RequestRegistration,
      DomainHandler, IdleHandler
<1>3. /\ handler[w].pc = "idle"
      /\ registrar' = registrar
      /\ unsettled' = unsettled
      /\ stray' = stray
      /\ faults' = faults
      /\ crowded' \/ (~crowded /\ \A o \in Workers : handler[o].pc = "idle")
      /\ domain.status \notin Live
      /\ domain' = domain
  BY Starts, RowType DEF RequestRegistration, Start, AtStep, At, Live, histories,
      DomainRow, RegistrarRow
<1>4. QED
  BY <1>1, <1>2, <1>3

LEMMA RenewDomainEffect ==
    ASSUME DomainTypeOK, NEW w \in Workers, NEW u \in Users, RenewDomain(w, u)
    PROVE  /\ handler[w].pc = "idle"
           /\ registrar' = registrar
           /\ unsettled' = unsettled
           /\ stray' = stray
           /\ faults' = faults
           /\ crowded' \/ (~crowded /\ \A o \in Workers : handler[o].pc = "idle")
           /\ handler'[w].pc = "renew"
           /\ handler'[w].expiry = domain.expiry
           /\ domain' = domain
           /\ \A o \in Workers \ {w} : handler'[o] = handler[o]
<1>1. handler'[w] = [IdleHandler EXCEPT !.pc = "renew", !.expiry = domain.expiry]
  BY Starts DEF RenewDomain
<1>2. /\ handler'[w].pc = "renew"
      /\ handler'[w].expiry = domain.expiry
      /\ \A o \in Workers \ {w} : handler'[o] = handler[o]
  BY <1>1, Starts, Constants, RowType, IdleHandler.expiry = 0 DEF RenewDomain,
      DomainHandler, IdleHandler
<1>3. /\ handler[w].pc = "idle"
      /\ registrar' = registrar
      /\ unsettled' = unsettled
      /\ stray' = stray
      /\ faults' = faults
      /\ crowded' \/ (~crowded /\ \A o \in Workers : handler[o].pc = "idle")
      /\ domain' = domain
  BY Starts, RowType DEF RenewDomain, Start, AtStep, At, histories, DomainRow, RegistrarRow
<1>4. QED
  BY <1>1, <1>2, <1>3

LEMMA GetDomainEffect ==
    ASSUME DomainTypeOK, NEW w \in Workers, NEW u \in Users, GetDomain(w, u)
    PROVE  /\ handler[w].pc = "idle"
           /\ registrar' = registrar
           /\ unsettled' = unsettled
           /\ stray' = stray
           /\ faults' = faults
           /\ crowded' \/ (~crowded /\ \A o \in Workers : handler[o].pc = "idle")
           /\ handler'[w].pc = "info"
           /\ handler'[w].expiry = domain.expiry
           /\ domain' = domain
           /\ \A o \in Workers \ {w} : handler'[o] = handler[o]
<1>1. handler'[w] = [IdleHandler EXCEPT !.pc = "info", !.expiry = domain.expiry]
  BY Starts DEF GetDomain
<1>2. /\ handler'[w].pc = "info"
      /\ handler'[w].expiry = domain.expiry
      /\ \A o \in Workers \ {w} : handler'[o] = handler[o]
  BY <1>1, Starts, Constants, RowType, IdleHandler.expiry = 0 DEF GetDomain,
      DomainHandler, IdleHandler
<1>3. /\ handler[w].pc = "idle"
      /\ registrar' = registrar
      /\ unsettled' = unsettled
      /\ stray' = stray
      /\ faults' = faults
      /\ crowded' \/ (~crowded /\ \A o \in Workers : handler[o].pc = "idle")
      /\ domain' = domain
  BY Starts, RowType DEF GetDomain, Start, AtStep, At, histories, DomainRow, RegistrarRow
<1>4. QED
  BY <1>1, <1>2, <1>3

LEMMA DeleteDomainEffect ==
    ASSUME DomainTypeOK, NEW w \in Workers, NEW u \in Users, DeleteDomain(w, u)
    PROVE  /\ handler[w].pc = "idle"
           /\ registrar' = registrar
           /\ unsettled' = unsettled
           /\ stray' = stray
           /\ faults' = faults
           /\ crowded' \/ (~crowded /\ \A o \in Workers : handler[o].pc = "idle")
           /\ handler'[w].pc = "delete"
           /\ handler'[w].expiry = 0
           /\ domain' = domain
           /\ \A o \in Workers \ {w} : handler'[o] = handler[o]
<1>1. handler'[w] = [IdleHandler EXCEPT !.pc = "delete"]
  BY Starts DEF DeleteDomain
<1>2. /\ handler'[w].pc = "delete"
      /\ handler'[w].expiry = 0
      /\ \A o \in Workers \ {w} : handler'[o] = handler[o]
  BY <1>1, Starts, Constants, RowType, IdleHandler.expiry = 0 DEF DeleteDomain,
      DomainHandler, IdleHandler
<1>3. /\ handler[w].pc = "idle"
      /\ registrar' = registrar
      /\ unsettled' = unsettled
      /\ stray' = stray
      /\ faults' = faults
      /\ crowded' \/ (~crowded /\ \A o \in Workers : handler[o].pc = "idle")
      /\ domain' = domain
  BY Starts, RowType DEF DeleteDomain, Start, AtStep, At, histories, DomainRow, RegistrarRow
<1>4. QED
  BY <1>1, <1>2, <1>3

LEMMA InitiateTransferEffect ==
    ASSUME DomainTypeOK, NEW w \in Workers, NEW u \in Users, InitiateTransfer(w, u)
    PROVE  /\ handler[w].pc = "idle"
           /\ registrar' = registrar
           /\ unsettled' = unsettled
           /\ stray' = stray
           /\ faults' = faults
           /\ crowded' \/ (~crowded /\ \A o \in Workers : handler[o].pc = "idle")
           /\ handler'[w].pc = "transfer"
           /\ handler'[w].expiry = 0
           /\ domain' = domain
           /\ \A o \in Workers \ {w} : handler'[o] = handler[o]
<1>1. handler'[w] = [IdleHandler EXCEPT !.pc = "transfer", !.u = u]
  BY Starts DEF InitiateTransfer
<1>2. /\ handler'[w].pc = "transfer"
      /\ handler'[w].expiry = 0
      /\ \A o \in Workers \ {w} : handler'[o] = handler[o]
  BY <1>1, Starts, Constants, RowType, IdleHandler.expiry = 0 DEF InitiateTransfer,
      DomainHandler, IdleHandler
<1>3. /\ handler[w].pc = "idle"
      /\ registrar' = registrar
      /\ unsettled' = unsettled
      /\ stray' = stray
      /\ faults' = faults
      /\ crowded' \/ (~crowded /\ \A o \in Workers : handler[o].pc = "idle")
      /\ domain' = domain
  BY Starts, RowType DEF InitiateTransfer, Start, AtStep, At, histories, DomainRow,
      RegistrarRow
<1>4. QED
  BY <1>1, <1>2, <1>3

LEMMA GetTransferStatusEffect ==
    ASSUME DomainTypeOK, NEW w \in Workers, NEW u \in Users, GetTransferStatus(w, u)
    PROVE  /\ handler[w].pc = "idle"
           /\ registrar' = registrar
           /\ unsettled' = unsettled
           /\ stray' = stray
           /\ faults' = faults
           /\ crowded' \/ (~crowded /\ \A o \in Workers : handler[o].pc = "idle")
           /\ handler'[w].pc = "transferInfo"
           /\ handler'[w].expiry = 0
           /\ domain' = domain
           /\ \A o \in Workers \ {w} : handler'[o] = handler[o]
<1>1. handler'[w] = [IdleHandler EXCEPT !.pc = "transferInfo",
                          !.seen = domain.status = "PENDING_TRANSFER"]
  BY Starts DEF GetTransferStatus
<1>2. /\ handler'[w].pc = "transferInfo"
      /\ handler'[w].expiry = 0
      /\ \A o \in Workers \ {w} : handler'[o] = handler[o]
  BY <1>1, Starts, Constants, RowType, IdleHandler.expiry = 0 DEF GetTransferStatus,
      DomainHandler, IdleHandler
<1>3. /\ handler[w].pc = "idle"
      /\ registrar' = registrar
      /\ unsettled' = unsettled
      /\ stray' = stray
      /\ faults' = faults
      /\ crowded' \/ (~crowded /\ \A o \in Workers : handler[o].pc = "idle")
      /\ domain' = domain
  BY Starts, RowType DEF GetTransferStatus, Start, AtStep, At, histories, DomainRow,
      RegistrarRow
<1>4. QED
  BY <1>1, <1>2, <1>3

LEMMA CancelTransferEffect ==
    ASSUME DomainTypeOK, NEW w \in Workers, NEW u \in Users, CancelTransfer(w, u)
    PROVE  /\ handler[w].pc = "idle"
           /\ registrar' = registrar
           /\ unsettled' = unsettled
           /\ stray' = stray
           /\ faults' = faults
           /\ crowded' \/ (~crowded /\ \A o \in Workers : handler[o].pc = "idle")
           /\ handler'[w].pc = "delete"
           /\ handler'[w].expiry = 0
           /\ domain' = domain
           /\ \A o \in Workers \ {w} : handler'[o] = handler[o]
<1>1. handler'[w] = [IdleHandler EXCEPT !.pc = "delete"]
  BY Starts DEF CancelTransfer
<1>2. /\ handler'[w].pc = "delete"
      /\ handler'[w].expiry = 0
      /\ \A o \in Workers \ {w} : handler'[o] = handler[o]
  BY <1>1, Starts, Constants, RowType, IdleHandler.expiry = 0 DEF CancelTransfer,
      DomainHandler, IdleHandler
<1>3. /\ handler[w].pc = "idle"
      /\ registrar' = registrar
      /\ unsettled' = unsettled
      /\ stray' = stray
      /\ faults' = faults
      /\ crowded' \/ (~crowded /\ \A o \in Workers : handler[o].pc = "idle")
      /\ domain' = domain
  BY Starts, RowType DEF CancelTransfer, Start, AtStep, At, histories, DomainRow,
      RegistrarRow
<1>4. QED
  BY <1>1, <1>2, <1>3

LEMMA BlockDomainEffect ==
    ASSUME DomainTypeOK, NEW w \in Workers, NEW u \in Users, BlockDomain(w, u)
    PROVE  /\ handler[w].pc = "idle"
           /\ registrar' = registrar
           /\ unsettled' = unsettled
           /\ stray' = stray
           /\ faults' = faults
           /\ crowded' \/ (~crowded /\ \A o \in Workers : handler[o].pc = "idle")
           /\ handler'[w].pc = "block"
           /\ handler'[w].expiry = 0
           /\ domain' = domain
           /\ \A o \in Workers \ {w} : handler'[o] = handler[o]
<1>1. handler'[w] = [IdleHandler EXCEPT !.pc = "block", !.u = u]
  BY Starts DEF BlockDomain
<1>2. /\ handler'[w].pc = "block"
      /\ handler'[w].expiry = 0
      /\ \A o \in Workers \ {w} : handler'[o] = handler[o]
  BY <1>1, Starts, Constants, RowType, IdleHandler.expiry = 0 DEF BlockDomain,
      DomainHandler, IdleHandler
<1>3. /\ handler[w].pc = "idle"
      /\ registrar' = registrar
      /\ unsettled' = unsettled
      /\ stray' = stray
      /\ faults' = faults
      /\ crowded' \/ (~crowded /\ \A o \in Workers : handler[o].pc = "idle")
      /\ domain' = domain
  BY Starts, RowType DEF BlockDomain, Start, AtStep, At, histories, DomainRow, RegistrarRow
<1>4. QED
  BY <1>1, <1>2, <1>3

LEMMA ToggleSettingEffect ==
    ASSUME DomainTypeOK, NEW w \in Workers, NEW u \in Users, NEW k \in Settings,
        NEW v \in Choices(k),
             NEW b \in BOOLEAN, ToggleSetting(w, u, k, v, b)
    PROVE  /\ handler[w].pc = "idle"
           /\ registrar' = registrar
           /\ unsettled' = unsettled
           /\ stray' = stray
           /\ faults' = faults
           /\ crowded' \/ (~crowded /\ \A o \in Workers : handler[o].pc = "idle")
           /\ handler'[w].pc = "toggle"
           /\ handler'[w].expiry = 0
           /\ domain' = domain
           /\ \A o \in Workers \ {w} : handler'[o] = handler[o]
<1>1. handler'[w] = [IdleHandler EXCEPT !.pc = "toggle", !.k = k, !.v = v, !.bulk = b]
  BY Starts DEF ToggleSetting
<1>2. /\ handler'[w].pc = "toggle"
      /\ handler'[w].expiry = 0
      /\ \A o \in Workers \ {w} : handler'[o] = handler[o]
  BY <1>1, Starts, Constants, RowType, IdleHandler.expiry = 0 DEF ToggleSetting,
      DomainHandler, IdleHandler
<1>3. /\ handler[w].pc = "idle"
      /\ registrar' = registrar
      /\ unsettled' = unsettled
      /\ stray' = stray
      /\ faults' = faults
      /\ crowded' \/ (~crowded /\ \A o \in Workers : handler[o].pc = "idle")
      /\ domain' = domain
  BY Starts, RowType DEF ToggleSetting, Start, AtStep, At, histories, DomainRow,
      RegistrarRow
<1>4. QED
  BY <1>1, <1>2, <1>3

LEMMA TakenElsewhereEffect ==
    ASSUME DomainTypeOK, TakenElsewhere
    PROVE  /\ registrar.at = "free"
           /\ registrar'.at = "elsewhere"
           /\ registrar'.expiry = registrar.expiry
           /\ registrar'.set = registrar.set
           /\ handler' = handler
           /\ domain' = domain
           /\ stray' = stray
           /\ unsettled' = unsettled
           /\ crowded' = crowded
           /\ faults' = faults
  BY RowType DEF TakenElsewhere, AtStep, At, histories, DomainRow, RegistrarRow

LEMMA TransferArrivesEffect ==
    ASSUME DomainTypeOK, TransferArrives
    PROVE  /\ registrar.at = "incoming"
           /\ registrar'.at = "transferred"
           /\ registrar'.expiry = 1
           /\ handler' = handler
           /\ domain' = domain
           /\ stray' = stray
           /\ unsettled' = unsettled
           /\ crowded' = crowded
           /\ faults' = faults
  BY RowType DEF TransferArrives, AtStep, At, histories, DomainRow, RegistrarRow

LEMMA TransferDeniedEffect ==
    ASSUME DomainTypeOK, TransferDenied
    PROVE  /\ registrar.at = "incoming"
           /\ registrar'.at = "elsewhere"
           /\ registrar'.expiry = registrar.expiry
           /\ registrar'.set = registrar.set
           /\ handler' = handler
           /\ domain' = domain
           /\ stray' = stray
           /\ unsettled' = unsettled
           /\ crowded' = crowded
           /\ faults' = faults
  BY RowType DEF TransferDenied, AtStep, At, histories, DomainRow, RegistrarRow

--------------------------------------------------------------------------------

LEMMA DomainTypeStep ==
    ASSUME DomainTypeOK, BehindRegistrar, DomainNext PROVE DomainTypeOK'
<1>1. ASSUME NEW w \in Workers, VerifyAvailable(w) PROVE DomainTypeOK'
  <2>1. handler' \in [Workers -> DomainHandler]
    BY <1>1, Moves, MovesTo, Returns DEF VerifyAvailable, Steps
  <2>2. domain' \in DomainRow /\ registrar' \in RegistrarRow
    BY <1>1, Constants, RowType, HandlerType
       DEF VerifyAvailable, DomainTypeOK, BehindRegistrar, Held, DomainRow, RegistrarRow,
           Status,
       WriteRow, Asked, histories, Fault, InsertPaid, NewRow, AtStep, At
  <2>3. QED
    BY <1>1, <2>1, <2>2, FaultsAssumption
       DEF VerifyAvailable, DomainTypeOK, WriteRow, Asked, histories, Fault, InsertPaid
<1>2. ASSUME NEW w \in Workers, ParkRequest(w) PROVE DomainTypeOK'
  <2>1. handler' \in [Workers -> DomainHandler]
    BY <1>2, Moves, MovesTo, Returns DEF ParkRequest, Steps
  <2>2. domain' \in DomainRow /\ registrar' \in RegistrarRow
    <3> DEFINE fresh == NewRow("PENDING_APPROVAL", handler[w].u, handler[w].v)
               parked == [fresh EXCEPT !.set = [k \in Settings |->
                             IF k = "lock" THEN domain.set[k] ELSE @[k]]]
    <3>1. fresh \in DomainRow
      BY HandlerType, RowTypes DEF Status
    <3>2. parked \in DomainRow
      BY <3>1, RowType DEF DomainRow
    <3>3. domain' \in {domain, fresh, parked} /\ registrar' = registrar
      BY <1>2 DEF ParkRequest
    <3>4. QED
      BY <3>1, <3>2, <3>3, RowType
  <2>3. QED
    BY <1>2, <2>1, <2>2, FaultsAssumption
       DEF ParkRequest, DomainTypeOK, WriteRow, Asked, histories, Fault, InsertPaid
<1>3. ASSUME NEW w \in Workers, Reverify(w) PROVE DomainTypeOK'
  <2>1. handler' \in [Workers -> DomainHandler]
    BY <1>3, Moves, MovesTo, Returns DEF Reverify, Steps
  <2>2. domain' \in DomainRow /\ registrar' \in RegistrarRow
    BY <1>3, Constants, RowType, HandlerType
       DEF Reverify, DomainTypeOK, BehindRegistrar, Held, DomainRow, RegistrarRow, Status,
       WriteRow, Asked, histories, Fault, InsertPaid, NewRow, AtStep, At
  <2>3. QED
    BY <1>3, <2>1, <2>2, FaultsAssumption
       DEF Reverify, DomainTypeOK, WriteRow, Asked, histories, Fault, InsertPaid
<1>4. ASSUME NEW w \in Workers, ReverifyFails(w) PROVE DomainTypeOK'
  <2>1. handler' \in [Workers -> DomainHandler]
    BY <1>4, Moves, MovesTo, Returns DEF ReverifyFails, Steps
  <2>2. domain' \in DomainRow /\ registrar' \in RegistrarRow
    BY <1>4, Constants, RowType, HandlerType
       DEF ReverifyFails, DomainTypeOK, BehindRegistrar, Held, DomainRow, RegistrarRow,
           Status,
       WriteRow, Asked, histories, Fault, InsertPaid, NewRow, AtStep, At
  <2>3. QED
    BY <1>4, <2>1, <2>2, FaultsAssumption
       DEF ReverifyFails, DomainTypeOK, WriteRow, Asked, histories, Fault, InsertPaid
<1>5. ASSUME NEW w \in Workers, RegisterDomain(w) PROVE DomainTypeOK'
  <2>1. [handler[w] EXCEPT !.pc = "activate", !.attempted = TRUE] \in DomainHandler
    BY HandlerType, RowType DEF DomainHandler, Steps
  <2>2. handler' \in [Workers -> DomainHandler]
    BY <1>5, <2>1, Moves, MovesTo, Returns DEF RegisterDomain, Steps
  <2>3. domain' \in DomainRow /\ registrar' \in RegistrarRow
    BY <1>5, Constants, RowTypes, SettingTypes, RowType, HandlerType
       DEF RegisterDomain, DomainTypeOK, BehindRegistrar, Held, DomainRow, RegistrarRow,
           Status,
       WriteRow, Asked, histories, Fault, InsertPaid, NewRow, AtStep, At
  <2>4. QED
    BY <1>5, <2>2, <2>3, FaultsAssumption
       DEF RegisterDomain, DomainTypeOK, WriteRow, Asked, histories, Fault, InsertPaid
<1>6. ASSUME NEW w \in Workers, RegistrationRefused(w) PROVE DomainTypeOK'
  <2>1. [handler[w] EXCEPT !.pc = "mark", !.attempted = TRUE] \in DomainHandler
    BY HandlerType, RowType DEF DomainHandler, Steps
  <2>2. handler' \in [Workers -> DomainHandler]
    BY <1>6, <2>1, Moves, MovesTo, Returns DEF RegistrationRefused, Steps
  <2>3. domain' \in DomainRow /\ registrar' \in RegistrarRow
    BY <1>6, Constants, RowType, HandlerType
       DEF RegistrationRefused, DomainTypeOK, BehindRegistrar, Held, DomainRow,
           RegistrarRow, Status,
       WriteRow, Asked, histories, Fault, InsertPaid, NewRow, AtStep, At
  <2>4. QED
    BY <1>6, <2>2, <2>3, FaultsAssumption
       DEF RegistrationRefused, DomainTypeOK, WriteRow, Asked, histories, Fault, InsertPaid
<1>7. ASSUME NEW w \in Workers, RegistrationUnanswered(w) PROVE DomainTypeOK'
  <2>1. handler' \in [Workers -> DomainHandler]
    BY <1>7, Moves, MovesTo, Returns DEF RegistrationUnanswered, Steps
  <2>2. domain' \in DomainRow /\ registrar' \in RegistrarRow
    BY <1>7, Constants, RowTypes, SettingTypes, RowType, HandlerType
       DEF RegistrationUnanswered, DomainTypeOK, BehindRegistrar, Held, DomainRow,
           RegistrarRow, Status,
       WriteRow, Asked, histories, Fault, InsertPaid, NewRow, AtStep, At
  <2>3. QED
    BY <1>7, <2>1, <2>2, FaultsAssumption
       DEF RegistrationUnanswered, DomainTypeOK, WriteRow, Asked, histories, Fault,
           InsertPaid
<1>8. ASSUME NEW w \in Workers, MarkRejected(w) PROVE DomainTypeOK'
  <2>1. handler' \in [Workers -> DomainHandler]
    BY <1>8, Moves, MovesTo, Returns DEF MarkRejected, Steps
  <2>2. domain' \in DomainRow /\ registrar' \in RegistrarRow
    BY <1>8, Constants, RowType, HandlerType
       DEF MarkRejected, DomainTypeOK, BehindRegistrar, Held, DomainRow, RegistrarRow,
           Status,
       WriteRow, Asked, histories, Fault, InsertPaid, NewRow, AtStep, At
  <2>3. QED
    BY <1>8, <2>1, <2>2, FaultsAssumption
       DEF MarkRejected, DomainTypeOK, WriteRow, Asked, histories, Fault, InsertPaid
<1>9. ASSUME NEW w \in Workers, MarkRejectedFails(w) PROVE DomainTypeOK'
  <2>1. handler' \in [Workers -> DomainHandler]
    BY <1>9, Moves, MovesTo, Returns DEF MarkRejectedFails, Steps
  <2>2. domain' \in DomainRow /\ registrar' \in RegistrarRow
    BY <1>9, Constants, RowType, HandlerType
       DEF MarkRejectedFails, DomainTypeOK, BehindRegistrar, Held, DomainRow,
           RegistrarRow, Status,
       WriteRow, Asked, histories, Fault, InsertPaid, NewRow, AtStep, At
  <2>3. QED
    BY <1>9, <2>1, <2>2, FaultsAssumption
       DEF MarkRejectedFails, DomainTypeOK, WriteRow, Asked, histories, Fault, InsertPaid
<1>10. ASSUME NEW w \in Workers, ReleaseRegistration(w) PROVE DomainTypeOK'
  <2>1. handler' \in [Workers -> DomainHandler]
    BY <1>10, Moves, MovesTo, Returns DEF ReleaseRegistration, Steps
  <2>2. domain' \in DomainRow /\ registrar' \in RegistrarRow
    BY <1>10, Constants, RowType, HandlerType
       DEF ReleaseRegistration, DomainTypeOK, BehindRegistrar, Held, DomainRow,
           RegistrarRow, Status,
       WriteRow, Asked, histories, Fault, InsertPaid, NewRow, AtStep, At
  <2>3. QED
    BY <1>10, <2>1, <2>2, FaultsAssumption
       DEF ReleaseRegistration, DomainTypeOK, WriteRow, Asked, histories, Fault, InsertPaid
<1>11. ASSUME NEW w \in Workers, ActivateDomain(w) PROVE DomainTypeOK'
  <2>1. handler' \in [Workers -> DomainHandler]
    BY <1>11, Moves, MovesTo, Returns DEF ActivateDomain, Steps
  <2>2. [domain EXCEPT !.status = "ACTIVE", !.expiry = 1, !.set = Locked(handler[w].v)]
            \in DomainRow
    <3>1. Locked(handler[w].v) \in [Settings -> Values] /\ 1 \in 0..MaxTerm
      BY Constants, RowTypes, HandlerType
    <3>2. QED
      BY <3>1, RowType DEF DomainRow, Status
  <2>3. domain' \in DomainRow
    BY <1>11, <2>2, RowType DEF ActivateDomain, WriteRow, InsertPaid
  <2>4. registrar' \in RegistrarRow
    BY <1>11, RowType DEF ActivateDomain, WriteRow, InsertPaid
  <2>5. QED
    BY <1>11, <2>1, <2>3, <2>4, FaultsAssumption
       DEF ActivateDomain, DomainTypeOK, WriteRow, Asked, histories, Fault, InsertPaid
<1>12. ASSUME NEW w \in Workers, LockDomain(w) PROVE DomainTypeOK'
  <2>1. handler' \in [Workers -> DomainHandler]
    BY <1>12, Moves, MovesTo, Returns DEF LockDomain, Steps
  <2>2. [registrar EXCEPT !.set = WithLock(@)] \in RegistrarRow
    BY RowType, SettingTypes DEF RegistrarRow
  <2>3. domain' \in DomainRow /\ registrar' \in RegistrarRow
    BY <1>12, <2>2, RowType DEF LockDomain, histories
  <2>4. QED
    BY <1>12, <2>1, <2>3, FaultsAssumption
       DEF LockDomain, DomainTypeOK, WriteRow, Asked, histories, Fault, InsertPaid
<1>13. ASSUME NEW w \in Workers, CommitRejection(w) PROVE DomainTypeOK'
  <2>1. handler' \in [Workers -> DomainHandler]
    BY <1>13, Moves, MovesTo, Returns DEF CommitRejection, Steps
  <2>2. domain' \in DomainRow /\ registrar' \in RegistrarRow
    BY <1>13, Constants, RowType, HandlerType
       DEF CommitRejection, DomainTypeOK, BehindRegistrar, Held, DomainRow, RegistrarRow,
           Status,
       WriteRow, Asked, histories, Fault, InsertPaid, NewRow, AtStep, At
  <2>3. QED
    BY <1>13, <2>1, <2>2, FaultsAssumption
       DEF CommitRejection, DomainTypeOK, WriteRow, Asked, histories, Fault, InsertPaid
<1>14. ASSUME NEW w \in Workers, RenewAtRegistrar(w) PROVE DomainTypeOK'
  <2>1. handler' \in [Workers -> DomainHandler]
    BY <1>14, Moves, MovesTo, Returns DEF RenewAtRegistrar, Steps
  <2>2. domain' \in DomainRow /\ registrar' \in RegistrarRow
    BY <1>14, DomainAssumption, RowType DEF RenewAtRegistrar, RegistrarRow
  <2>3. QED
    BY <1>14, <2>1, <2>2, FaultsAssumption
       DEF RenewAtRegistrar, DomainTypeOK, WriteRow, Asked, histories, Fault, InsertPaid
<1>15. ASSUME NEW w \in Workers, RenewalRefused(w) PROVE DomainTypeOK'
  <2>1. handler' \in [Workers -> DomainHandler]
    BY <1>15, Moves, MovesTo, Returns DEF RenewalRefused, Steps
  <2>2. domain' \in DomainRow /\ registrar' \in RegistrarRow
    BY <1>15, Constants, RowType, HandlerType
       DEF RenewalRefused, DomainTypeOK, BehindRegistrar, Held, DomainRow, RegistrarRow,
           Status,
       WriteRow, Asked, histories, Fault, InsertPaid, NewRow, AtStep, At
  <2>3. QED
    BY <1>15, <2>1, <2>2, FaultsAssumption
       DEF RenewalRefused, DomainTypeOK, WriteRow, Asked, histories, Fault, InsertPaid
<1>16. ASSUME NEW w \in Workers, SaveRenewal(w) PROVE DomainTypeOK'
  <2>1. handler' \in [Workers -> DomainHandler]
    BY <1>16, Moves, MovesTo, Returns DEF SaveRenewal, Steps
  <2>2. handler[w].expiry + 1 \in 0..MaxTerm
    BY <1>16, HandlerType, RowType, Constants DEF SaveRenewal, BehindRegistrar, AtStep, At
  <2>3. [domain EXCEPT !.status = "ACTIVE", !.expiry = handler[w].expiry + 1] \in DomainRow
    BY <2>2, RowType DEF DomainRow, Status
  <2>4. domain' \in DomainRow
    BY <1>16, <2>3, RowType DEF SaveRenewal, WriteRow, InsertPaid
  <2>5. registrar' \in RegistrarRow
    BY <1>16, RowType DEF SaveRenewal, WriteRow, InsertPaid
  <2>6. QED
    BY <1>16, <2>1, <2>4, <2>5, FaultsAssumption
       DEF SaveRenewal, DomainTypeOK, WriteRow, Asked, histories, Fault, InsertPaid
<1>17. ASSUME NEW w \in Workers, CompareExpiry(w) PROVE DomainTypeOK'
  <2>1. [handler[w] EXCEPT !.pc = "saveExpiry",
            !.expiry = registrar.expiry] \in DomainHandler
    BY HandlerType, RowType DEF DomainHandler, Steps
  <2>2. handler' \in [Workers -> DomainHandler]
    BY <1>17, <2>1, Moves, MovesTo, Returns DEF CompareExpiry, Steps
  <2>3. domain' \in DomainRow /\ registrar' \in RegistrarRow
    BY <1>17, Constants, RowType, HandlerType
       DEF CompareExpiry, DomainTypeOK, BehindRegistrar, Held, DomainRow, RegistrarRow,
           Status,
       WriteRow, Asked, histories, Fault, InsertPaid, NewRow, AtStep, At
  <2>4. QED
    BY <1>17, <2>2, <2>3, FaultsAssumption
       DEF CompareExpiry, DomainTypeOK, WriteRow, Asked, histories, Fault, InsertPaid
<1>18. ASSUME NEW w \in Workers, SyncExpiry(w) PROVE DomainTypeOK'
  <2>1. handler' \in [Workers -> DomainHandler]
    BY <1>18, Moves, MovesTo, Returns DEF SyncExpiry, Steps
  <2>2. domain' \in DomainRow /\ registrar' \in RegistrarRow
    BY <1>18, Constants, RowType, HandlerType
       DEF SyncExpiry, DomainTypeOK, BehindRegistrar, Held, DomainRow, RegistrarRow, Status,
       WriteRow, Asked, histories, Fault, InsertPaid, NewRow, AtStep, At
  <2>3. QED
    BY <1>18, <2>1, <2>2, FaultsAssumption
       DEF SyncExpiry, DomainTypeOK, WriteRow, Asked, histories, Fault, InsertPaid
<1>19. ASSUME NEW w \in Workers, ApplySetting(w) PROVE DomainTypeOK'
  <2>1. handler' \in [Workers -> DomainHandler]
    BY <1>19, Moves, MovesTo, Returns DEF ApplySetting, Steps
  <2>2. domain' \in DomainRow /\ registrar' \in RegistrarRow
    BY <1>19, Constants, RowType, HandlerType
       DEF ApplySetting, DomainTypeOK, BehindRegistrar, Held, DomainRow, RegistrarRow,
           Status,
       WriteRow, Asked, histories, Fault, InsertPaid, NewRow, AtStep, At
  <2>3. QED
    BY <1>19, <2>1, <2>2, FaultsAssumption
       DEF ApplySetting, DomainTypeOK, WriteRow, Asked, histories, Fault, InsertPaid
<1>20. ASSUME NEW w \in Workers, SettingRefused(w) PROVE DomainTypeOK'
  <2>1. handler' \in [Workers -> DomainHandler]
    BY <1>20, Moves, MovesTo, Returns DEF SettingRefused, Steps
  <2>2. domain' \in DomainRow /\ registrar' \in RegistrarRow
    BY <1>20, Constants, RowType, HandlerType
       DEF SettingRefused, DomainTypeOK, BehindRegistrar, Held, DomainRow, RegistrarRow,
           Status,
       WriteRow, Asked, histories, Fault, InsertPaid, NewRow, AtStep, At
  <2>3. QED
    BY <1>20, <2>1, <2>2, FaultsAssumption
       DEF SettingRefused, DomainTypeOK, WriteRow, Asked, histories, Fault, InsertPaid
<1>21. ASSUME NEW w \in Workers, SettingFails(w) PROVE DomainTypeOK'
  <2>1. handler' \in [Workers -> DomainHandler]
    BY <1>21, Moves, MovesTo, Returns DEF SettingFails, Steps
  <2>2. domain' \in DomainRow /\ registrar' \in RegistrarRow
    BY <1>21, Constants, RowType, HandlerType
       DEF SettingFails, DomainTypeOK, BehindRegistrar, Held, DomainRow, RegistrarRow,
           Status,
       WriteRow, Asked, histories, Fault, InsertPaid, NewRow, AtStep, At
  <2>3. QED
    BY <1>21, <2>1, <2>2, FaultsAssumption
       DEF SettingFails, DomainTypeOK, WriteRow, Asked, histories, Fault, InsertPaid
<1>22. ASSUME NEW w \in Workers, SaveSetting(w) PROVE DomainTypeOK'
  <2>1. handler' \in [Workers -> DomainHandler]
    BY <1>22, Moves, MovesTo, Returns DEF SaveSetting, Steps
  <2>2. domain' \in DomainRow /\ registrar' \in RegistrarRow
    BY <1>22, Constants, RowType, HandlerType
       DEF SaveSetting, DomainTypeOK, BehindRegistrar, Held, DomainRow, RegistrarRow,
           Status,
       WriteRow, Asked, histories, Fault, InsertPaid, NewRow, AtStep, At
  <2>3. QED
    BY <1>22, <2>1, <2>2, FaultsAssumption
       DEF SaveSetting, DomainTypeOK, WriteRow, Asked, histories, Fault, InsertPaid
<1>23. ASSUME NEW w \in Workers, MarkDeleted(w) PROVE DomainTypeOK'
  <2>1. handler' \in [Workers -> DomainHandler]
    BY <1>23, Moves, MovesTo, Returns DEF MarkDeleted, Steps
  <2>2. domain' \in DomainRow /\ registrar' \in RegistrarRow
    BY <1>23, Constants, RowType, HandlerType
       DEF MarkDeleted, DomainTypeOK, BehindRegistrar, Held, DomainRow, RegistrarRow,
           Status,
       WriteRow, Asked, histories, Fault, InsertPaid, NewRow, AtStep, At
  <2>3. QED
    BY <1>23, <2>1, <2>2, FaultsAssumption
       DEF MarkDeleted, DomainTypeOK, WriteRow, Asked, histories, Fault, InsertPaid
<1>24. ASSUME NEW w \in Workers, TransferDomain(w) PROVE DomainTypeOK'
  <2>1. handler' \in [Workers -> DomainHandler]
    BY <1>24, Moves, MovesTo, Returns DEF TransferDomain, Steps
  <2>2. domain' \in DomainRow /\ registrar' \in RegistrarRow
    BY <1>24, Constants, RowType, HandlerType
       DEF TransferDomain, DomainTypeOK, BehindRegistrar, Held, DomainRow, RegistrarRow,
           Status,
       WriteRow, Asked, histories, Fault, InsertPaid, NewRow, AtStep, At
  <2>3. QED
    BY <1>24, <2>1, <2>2, FaultsAssumption
       DEF TransferDomain, DomainTypeOK, WriteRow, Asked, histories, Fault, InsertPaid
<1>25. ASSUME NEW w \in Workers, TransferRefused(w) PROVE DomainTypeOK'
  <2>1. handler' \in [Workers -> DomainHandler]
    BY <1>25, Moves, MovesTo, Returns DEF TransferRefused, Steps
  <2>2. domain' \in DomainRow /\ registrar' \in RegistrarRow
    BY <1>25, Constants, RowType, HandlerType
       DEF TransferRefused, DomainTypeOK, BehindRegistrar, Held, DomainRow, RegistrarRow,
           Status,
       WriteRow, Asked, histories, Fault, InsertPaid, NewRow, AtStep, At
  <2>3. QED
    BY <1>25, <2>1, <2>2, FaultsAssumption
       DEF TransferRefused, DomainTypeOK, WriteRow, Asked, histories, Fault, InsertPaid
<1>26. ASSUME NEW w \in Workers, CreateTransfer(w) PROVE DomainTypeOK'
  <2>1. handler' \in [Workers -> DomainHandler]
    BY <1>26, Moves, MovesTo, Returns DEF CreateTransfer, Steps
  <2>2. domain' \in DomainRow /\ registrar' \in RegistrarRow
    BY <1>26, Constants, RowTypes, SettingTypes, RowType, HandlerType
       DEF CreateTransfer, DomainTypeOK, BehindRegistrar, Held, DomainRow, RegistrarRow,
           Status,
       WriteRow, Asked, histories, Fault, InsertPaid, NewRow, AtStep, At
  <2>3. QED
    BY <1>26, <2>1, <2>2, FaultsAssumption
       DEF CreateTransfer, DomainTypeOK, WriteRow, Asked, histories, Fault, InsertPaid
<1>27. ASSUME NEW w \in Workers, CheckTransfer(w) PROVE DomainTypeOK'
  <2>1. [handler[w] EXCEPT !.pc = "saveTransfer",
            !.expiry = registrar.expiry] \in DomainHandler
    BY HandlerType, RowType DEF DomainHandler, Steps
  <2>2. handler' \in [Workers -> DomainHandler]
    BY <1>27, <2>1, Moves, MovesTo, Returns DEF CheckTransfer, Steps
  <2>3. domain' \in DomainRow /\ registrar' \in RegistrarRow
    BY <1>27, Constants, RowType, HandlerType
       DEF CheckTransfer, DomainTypeOK, BehindRegistrar, Held, DomainRow, RegistrarRow,
           Status,
       WriteRow, Asked, histories, Fault, InsertPaid, NewRow, AtStep, At
  <2>4. QED
    BY <1>27, <2>2, <2>3, FaultsAssumption
       DEF CheckTransfer, DomainTypeOK, WriteRow, Asked, histories, Fault, InsertPaid
<1>28. ASSUME NEW w \in Workers, CompleteTransfer(w) PROVE DomainTypeOK'
  <2>1. handler' \in [Workers -> DomainHandler]
    BY <1>28, Moves, MovesTo, Returns DEF CompleteTransfer, Steps
  <2>2. domain' \in DomainRow /\ registrar' \in RegistrarRow
    BY <1>28, Constants, RowType, HandlerType
       DEF CompleteTransfer, DomainTypeOK, BehindRegistrar, Held, DomainRow,
           RegistrarRow, Status,
       WriteRow, Asked, histories, Fault, InsertPaid, NewRow, AtStep, At
  <2>3. QED
    BY <1>28, <2>1, <2>2, FaultsAssumption
       DEF CompleteTransfer, DomainTypeOK, WriteRow, Asked, histories, Fault, InsertPaid
<1>29. ASSUME NEW w \in Workers, RegisterBlocked(w) PROVE DomainTypeOK'
  <2>1. handler' \in [Workers -> DomainHandler]
    BY <1>29, Moves, MovesTo, Returns DEF RegisterBlocked, Steps
  <2>2. domain' \in DomainRow /\ registrar' \in RegistrarRow
    BY <1>29, Constants, RowTypes, SettingTypes, RowType, HandlerType
       DEF RegisterBlocked, DomainTypeOK, BehindRegistrar, Held, DomainRow, RegistrarRow,
           Status,
       WriteRow, Asked, histories, Fault, InsertPaid, NewRow, AtStep, At
  <2>3. QED
    BY <1>29, <2>1, <2>2, FaultsAssumption
       DEF RegisterBlocked, DomainTypeOK, WriteRow, Asked, histories, Fault, InsertPaid
<1>30. ASSUME NEW w \in Workers, BlockRefused(w) PROVE DomainTypeOK'
  <2>1. handler' \in [Workers -> DomainHandler]
    BY <1>30, Moves, MovesTo, Returns DEF BlockRefused, Steps
  <2>2. domain' \in DomainRow /\ registrar' \in RegistrarRow
    BY <1>30, Constants, RowType, HandlerType
       DEF BlockRefused, DomainTypeOK, BehindRegistrar, Held, DomainRow, RegistrarRow,
           Status,
       WriteRow, Asked, histories, Fault, InsertPaid, NewRow, AtStep, At
  <2>3. QED
    BY <1>30, <2>1, <2>2, FaultsAssumption
       DEF BlockRefused, DomainTypeOK, WriteRow, Asked, histories, Fault, InsertPaid
<1>31. ASSUME NEW w \in Workers, CreateBlocked(w) PROVE DomainTypeOK'
  <2>1. handler' \in [Workers -> DomainHandler]
    BY <1>31, Moves, MovesTo, Returns DEF CreateBlocked, Steps
  <2>2. NewRow("ACTIVE", handler[w].u, "default") \in DomainRow
    BY HandlerType, Constants, RowTypes DEF Status
  <2>3. [NewRow("ACTIVE", handler[w].u, "default") EXCEPT !.expiry = 1,
                                                          !.set = Locked("default")]
            \in DomainRow
    <3>1. Locked("default") \in [Settings -> Values] /\ 1 \in 0..MaxTerm
      BY Constants, RowTypes
    <3>2. QED
      BY <3>1, <2>2 DEF DomainRow, Status
  <2>4. domain' \in DomainRow
    BY <1>31, <2>3, RowType DEF CreateBlocked, WriteRow, InsertPaid
  <2>5. registrar' \in RegistrarRow
    BY <1>31, RowType DEF CreateBlocked, WriteRow, InsertPaid
  <2>6. QED
    BY <1>31, <2>1, <2>4, <2>5, FaultsAssumption
       DEF CreateBlocked, DomainTypeOK, WriteRow, Asked, histories, Fault, InsertPaid
<1>32. ASSUME NEW w \in Workers, Fail(w) PROVE DomainTypeOK'
  <2>1. handler' \in [Workers -> DomainHandler]
    BY <1>32, Moves, MovesTo, Returns DEF Fail, Steps
  <2>2. domain' \in DomainRow /\ registrar' \in RegistrarRow
    BY <1>32, Constants, RowType, HandlerType
       DEF Fail, DomainTypeOK, BehindRegistrar, Held, DomainRow, RegistrarRow, Status,
       WriteRow, Asked, histories, Fault, InsertPaid, NewRow, AtStep, At
  <2>3. QED
    BY <1>32, <2>1, <2>2, FaultsAssumption
       DEF Fail, DomainTypeOK, WriteRow, Asked, histories, Fault, InsertPaid
<1>33. ASSUME NEW w \in Workers, ClaimRegistration(w) PROVE DomainTypeOK'
  <2>1. \A d \in Values : [IdleHandler EXCEPT !.pc = "reverify", !.v = d] \in DomainHandler
    BY Constants, RowType DEF DomainHandler, Steps
  <2>2. handler' \in [Workers -> DomainHandler]
    <3> DEFINE servers == IF "nameservers" \in Settings THEN domain.set["nameservers"]
                          ELSE "default"
    <3>1. servers \in Values
      BY Constants, RowType
    <3>2. Start(w, [IdleHandler EXCEPT !.pc = "reverify", !.v = servers])
      BY <1>33 DEF ClaimRegistration
    <3>3. [IdleHandler EXCEPT !.pc = "reverify", !.v = servers] \in DomainHandler
      BY <2>1, <3>1
    <3> HIDE DEF servers
    <3>4. QED
      BY <3>2, <3>3, Starts
  <2>3. domain' \in DomainRow /\ registrar' \in RegistrarRow
    BY <1>33, Constants, RowType, HandlerType
       DEF ClaimRegistration, Start, DomainTypeOK, BehindRegistrar, Held, DomainRow,
           RegistrarRow, Status,
       WriteRow, Asked, histories, Fault, InsertPaid, NewRow, AtStep, At
  <2>4. QED
    BY <1>33, <2>2, <2>3, FaultsAssumption
       DEF ClaimRegistration, Start, DomainTypeOK, WriteRow, Asked, histories, Fault,
           InsertPaid
<1>34. ASSUME NEW w \in Workers, RejectRegistration(w) PROVE DomainTypeOK'
  <2>1. [IdleHandler EXCEPT !.pc = "reject"] \in DomainHandler
    BY Constants, RowType DEF DomainHandler, Steps
  <2>2. handler' \in [Workers -> DomainHandler]
    BY <1>34, <2>1, Starts DEF RejectRegistration
  <2>3. domain' \in DomainRow /\ registrar' \in RegistrarRow
    BY <1>34, Constants, RowType, HandlerType
       DEF RejectRegistration, Start, DomainTypeOK, BehindRegistrar, Held, DomainRow,
           RegistrarRow, Status,
       WriteRow, Asked, histories, Fault, InsertPaid, NewRow, AtStep, At
  <2>4. QED
    BY <1>34, <2>2, <2>3, FaultsAssumption
       DEF RejectRegistration, Start, DomainTypeOK, WriteRow, Asked, histories, Fault,
           InsertPaid
<1>35. ASSUME NEW w \in Workers, NEW u \in Users, NEW d \in NameServers,
             RequestRegistration(w, u, d)
           PROVE DomainTypeOK'
  <2>1. [IdleHandler EXCEPT !.pc = "available", !.u = u, !.v = d,
                          !.seen = domain.status # "NONE"] \in DomainHandler
    BY Constants, RowType DEF DomainHandler, Steps
  <2>2. handler' \in [Workers -> DomainHandler]
    BY <1>35, <2>1, Starts DEF RequestRegistration
  <2>3. domain' \in DomainRow /\ registrar' \in RegistrarRow
    BY <1>35, Constants, RowType, HandlerType
       DEF RequestRegistration, Start, DomainTypeOK, BehindRegistrar, Held, DomainRow,
           RegistrarRow, Status,
       WriteRow, Asked, histories, Fault, InsertPaid, NewRow, AtStep, At
  <2>4. QED
    BY <1>35, <2>2, <2>3, FaultsAssumption
       DEF RequestRegistration, Start, DomainTypeOK, WriteRow, Asked, histories, Fault,
           InsertPaid
<1>36. ASSUME NEW w \in Workers, NEW u \in Users, RenewDomain(w, u) PROVE DomainTypeOK'
  <2>1. [IdleHandler EXCEPT !.pc = "renew", !.expiry = domain.expiry] \in DomainHandler
    BY Constants, RowType DEF DomainHandler, Steps
  <2>2. handler' \in [Workers -> DomainHandler]
    BY <1>36, <2>1, Starts DEF RenewDomain
  <2>3. domain' \in DomainRow /\ registrar' \in RegistrarRow
    BY <1>36, Constants, RowType, HandlerType
       DEF RenewDomain, Start, DomainTypeOK, BehindRegistrar, Held, DomainRow,
           RegistrarRow, Status,
       WriteRow, Asked, histories, Fault, InsertPaid, NewRow, AtStep, At
  <2>4. QED
    BY <1>36, <2>2, <2>3, FaultsAssumption
       DEF RenewDomain, Start, DomainTypeOK, WriteRow, Asked, histories, Fault, InsertPaid
<1>37. ASSUME NEW w \in Workers, NEW u \in Users, GetDomain(w, u) PROVE DomainTypeOK'
  <2>1. [IdleHandler EXCEPT !.pc = "info", !.expiry = domain.expiry] \in DomainHandler
    BY Constants, RowType DEF DomainHandler, Steps
  <2>2. handler' \in [Workers -> DomainHandler]
    BY <1>37, <2>1, Starts DEF GetDomain
  <2>3. domain' \in DomainRow /\ registrar' \in RegistrarRow
    BY <1>37, Constants, RowType, HandlerType
       DEF GetDomain, Start, DomainTypeOK, BehindRegistrar, Held, DomainRow,
           RegistrarRow, Status,
       WriteRow, Asked, histories, Fault, InsertPaid, NewRow, AtStep, At
  <2>4. QED
    BY <1>37, <2>2, <2>3, FaultsAssumption
       DEF GetDomain, Start, DomainTypeOK, WriteRow, Asked, histories, Fault, InsertPaid
<1>38. ASSUME NEW w \in Workers, NEW u \in Users, DeleteDomain(w, u) PROVE DomainTypeOK'
  <2>1. [IdleHandler EXCEPT !.pc = "delete"] \in DomainHandler
    BY Constants, RowType DEF DomainHandler, Steps
  <2>2. handler' \in [Workers -> DomainHandler]
    BY <1>38, <2>1, Starts DEF DeleteDomain
  <2>3. domain' \in DomainRow /\ registrar' \in RegistrarRow
    BY <1>38, Constants, RowType, HandlerType
       DEF DeleteDomain, Start, DomainTypeOK, BehindRegistrar, Held, DomainRow,
           RegistrarRow, Status,
       WriteRow, Asked, histories, Fault, InsertPaid, NewRow, AtStep, At
  <2>4. QED
    BY <1>38, <2>2, <2>3, FaultsAssumption
       DEF DeleteDomain, Start, DomainTypeOK, WriteRow, Asked, histories, Fault, InsertPaid
<1>39. ASSUME NEW w \in Workers, NEW u \in Users, InitiateTransfer(w, u) PROVE DomainTypeOK'
  <2>1. [IdleHandler EXCEPT !.pc = "transfer", !.u = u] \in DomainHandler
    BY Constants, RowType DEF DomainHandler, Steps
  <2>2. handler' \in [Workers -> DomainHandler]
    BY <1>39, <2>1, Starts DEF InitiateTransfer
  <2>3. domain' \in DomainRow /\ registrar' \in RegistrarRow
    BY <1>39, Constants, RowType, HandlerType
       DEF InitiateTransfer, Start, DomainTypeOK, BehindRegistrar, Held, DomainRow,
           RegistrarRow, Status,
       WriteRow, Asked, histories, Fault, InsertPaid, NewRow, AtStep, At
  <2>4. QED
    BY <1>39, <2>2, <2>3, FaultsAssumption
       DEF InitiateTransfer, Start, DomainTypeOK, WriteRow, Asked, histories, Fault,
           InsertPaid
<1>40. ASSUME NEW w \in Workers, NEW u \in Users, GetTransferStatus(w, u)
           PROVE DomainTypeOK'
  <2>1. [IdleHandler EXCEPT !.pc = "transferInfo",
                          !.seen = domain.status = "PENDING_TRANSFER"] \in DomainHandler
    BY Constants, RowType DEF DomainHandler, Steps
  <2>2. handler' \in [Workers -> DomainHandler]
    BY <1>40, <2>1, Starts DEF GetTransferStatus
  <2>3. domain' \in DomainRow /\ registrar' \in RegistrarRow
    BY <1>40, Constants, RowType, HandlerType
       DEF GetTransferStatus, Start, DomainTypeOK, BehindRegistrar, Held, DomainRow,
           RegistrarRow, Status,
       WriteRow, Asked, histories, Fault, InsertPaid, NewRow, AtStep, At
  <2>4. QED
    BY <1>40, <2>2, <2>3, FaultsAssumption
       DEF GetTransferStatus, Start, DomainTypeOK, WriteRow, Asked, histories, Fault,
           InsertPaid
<1>41. ASSUME NEW w \in Workers, NEW u \in Users, CancelTransfer(w, u) PROVE DomainTypeOK'
  <2>1. [IdleHandler EXCEPT !.pc = "delete"] \in DomainHandler
    BY Constants, RowType DEF DomainHandler, Steps
  <2>2. handler' \in [Workers -> DomainHandler]
    BY <1>41, <2>1, Starts DEF CancelTransfer
  <2>3. domain' \in DomainRow /\ registrar' \in RegistrarRow
    BY <1>41, Constants, RowType, HandlerType
       DEF CancelTransfer, Start, DomainTypeOK, BehindRegistrar, Held, DomainRow,
           RegistrarRow, Status,
       WriteRow, Asked, histories, Fault, InsertPaid, NewRow, AtStep, At
  <2>4. QED
    BY <1>41, <2>2, <2>3, FaultsAssumption
       DEF CancelTransfer, Start, DomainTypeOK, WriteRow, Asked, histories, Fault,
           InsertPaid
<1>42. ASSUME NEW w \in Workers, NEW u \in Users, BlockDomain(w, u) PROVE DomainTypeOK'
  <2>1. [IdleHandler EXCEPT !.pc = "block", !.u = u] \in DomainHandler
    BY Constants, RowType DEF DomainHandler, Steps
  <2>2. handler' \in [Workers -> DomainHandler]
    BY <1>42, <2>1, Starts DEF BlockDomain
  <2>3. domain' \in DomainRow /\ registrar' \in RegistrarRow
    BY <1>42, Constants, RowType, HandlerType
       DEF BlockDomain, Start, DomainTypeOK, BehindRegistrar, Held, DomainRow,
           RegistrarRow, Status,
       WriteRow, Asked, histories, Fault, InsertPaid, NewRow, AtStep, At
  <2>4. QED
    BY <1>42, <2>2, <2>3, FaultsAssumption
       DEF BlockDomain, Start, DomainTypeOK, WriteRow, Asked, histories, Fault, InsertPaid
<1>43. ASSUME NEW w \in Workers, NEW u \in Users, NEW k \in Settings, NEW v \in Choices(k),
             NEW b \in BOOLEAN, ToggleSetting(w, u, k, v, b) PROVE DomainTypeOK'
  <2>1. [IdleHandler EXCEPT !.pc = "toggle", !.k = k, !.v = v, !.bulk = b] \in DomainHandler
    BY Constants, RowType DEF DomainHandler, Steps
  <2>2. handler' \in [Workers -> DomainHandler]
    BY <1>43, <2>1, Starts DEF ToggleSetting
  <2>3. domain' \in DomainRow /\ registrar' \in RegistrarRow
    BY <1>43, Constants, RowType, HandlerType
       DEF ToggleSetting, Start, DomainTypeOK, BehindRegistrar, Held, DomainRow,
           RegistrarRow, Status,
       WriteRow, Asked, histories, Fault, InsertPaid, NewRow, AtStep, At
  <2>4. QED
    BY <1>43, <2>2, <2>3, FaultsAssumption
       DEF ToggleSetting, Start, DomainTypeOK, WriteRow, Asked, histories, Fault, InsertPaid
<1>44. ASSUME TakenElsewhere PROVE DomainTypeOK'
  <2>1. handler' \in [Workers -> DomainHandler]
    BY <1>44 DEF DomainTypeOK, TakenElsewhere
  <2>2. domain' \in DomainRow /\ registrar' \in RegistrarRow
    BY <1>44, Constants, RowType, HandlerType
       DEF TakenElsewhere, DomainTypeOK, BehindRegistrar, Held, DomainRow, RegistrarRow,
           Status,
       WriteRow, Asked, histories, Fault, InsertPaid, NewRow, AtStep, At
  <2>3. QED
    BY <1>44, <2>1, <2>2, FaultsAssumption
       DEF TakenElsewhere, DomainTypeOK, WriteRow, Asked, histories, Fault, InsertPaid
<1>45. ASSUME TransferArrives PROVE DomainTypeOK'
  <2>1. handler' \in [Workers -> DomainHandler]
    BY <1>45 DEF DomainTypeOK, TransferArrives
  <2>2. domain' \in DomainRow /\ registrar' \in RegistrarRow
    <3>1. PICK set \in [Settings -> Values] :
              registrar' = [at |-> "transferred", expiry |-> 1, set |-> Told(set)]
      BY <1>45 DEF TransferArrives
    <3>2. domain' = domain
      BY <1>45 DEF TransferArrives
    <3>3. QED
      BY <3>1, <3>2, Constants, SettingTypes, RowType DEF RegistrarRow
  <2>3. QED
    BY <1>45, <2>1, <2>2, FaultsAssumption
       DEF TransferArrives, DomainTypeOK, WriteRow, Asked, histories, Fault, InsertPaid
<1>46. ASSUME TransferDenied PROVE DomainTypeOK'
  <2>1. handler' \in [Workers -> DomainHandler]
    BY <1>46 DEF DomainTypeOK, TransferDenied
  <2>2. domain' \in DomainRow /\ registrar' \in RegistrarRow
    BY <1>46, Constants, RowType, HandlerType
       DEF TransferDenied, DomainTypeOK, BehindRegistrar, Held, DomainRow, RegistrarRow,
           Status,
       WriteRow, Asked, histories, Fault, InsertPaid, NewRow, AtStep, At
  <2>3. QED
    BY <1>46, <2>1, <2>2, FaultsAssumption
       DEF TransferDenied, DomainTypeOK, WriteRow, Asked, histories, Fault, InsertPaid
<1>47. QED
  BY <1>1, <1>2, <1>3, <1>4, <1>5, <1>6, <1>7, <1>8, <1>9, <1>10, <1>11, <1>12, <1>13,
      <1>14, <1>15, <1>16, <1>17, <1>18, <1>19, <1>20, <1>21, <1>22, <1>23, <1>24, <1>25,
          <1>26, <1>27, <1>28, <1>29, <1>30, <1>31, <1>32, <1>33, <1>34, <1>35, <1>36,
              <1>37, <1>38, <1>39, <1>40, <1>41, <1>42, <1>43, <1>44, <1>45, <1>46
     DEF DomainNext, World, StartHandler, Continue

\* The registrar's years only grow once it holds the name, and a handler that is about
\* to write them has read no more than there are.
LEMMA BehindStep ==
    ASSUME DomainTypeOK, BehindRegistrar, ExpiryNeverAhead, DomainNext
    PROVE  BehindRegistrar'
<1>1. ASSUME NEW w \in Workers, VerifyAvailable(w)
      PROVE  BehindRegistrar'
  BY <1>1, VerifyAvailableEffect, Numbers DEF BehindRegistrar, ExpiryNeverAhead, Held,
      AtStep, At
<1>2. ASSUME NEW w \in Workers, ParkRequest(w)
      PROVE  BehindRegistrar'
  BY <1>2, ParkRequestEffect, Numbers DEF BehindRegistrar, ExpiryNeverAhead, Held,
      AtStep, At
<1>3. ASSUME NEW w \in Workers, Reverify(w)
      PROVE  BehindRegistrar'
  BY <1>3, ReverifyEffect, Numbers DEF BehindRegistrar, ExpiryNeverAhead, Held, AtStep, At
<1>4. ASSUME NEW w \in Workers, ReverifyFails(w)
      PROVE  BehindRegistrar'
  BY <1>4, ReverifyFailsEffect, Numbers DEF BehindRegistrar, ExpiryNeverAhead, Held,
      AtStep, At
<1>5. ASSUME NEW w \in Workers, RegisterDomain(w)
      PROVE  BehindRegistrar'
  BY <1>5, RegisterDomainEffect, Numbers DEF BehindRegistrar, ExpiryNeverAhead, Held,
      AtStep, At
<1>6. ASSUME NEW w \in Workers, RegistrationRefused(w)
      PROVE  BehindRegistrar'
  BY <1>6, RegistrationRefusedEffect, Numbers DEF BehindRegistrar, ExpiryNeverAhead,
      Held, AtStep, At
<1>7. ASSUME NEW w \in Workers, RegistrationUnanswered(w)
      PROVE  BehindRegistrar'
  BY <1>7, RegistrationUnansweredEffect, Numbers DEF BehindRegistrar, ExpiryNeverAhead,
      Held, AtStep, At
<1>8. ASSUME NEW w \in Workers, MarkRejected(w)
      PROVE  BehindRegistrar'
  BY <1>8, MarkRejectedEffect, Numbers DEF BehindRegistrar, ExpiryNeverAhead, Held,
      AtStep, At
<1>9. ASSUME NEW w \in Workers, MarkRejectedFails(w)
      PROVE  BehindRegistrar'
  BY <1>9, MarkRejectedFailsEffect, Numbers DEF BehindRegistrar, ExpiryNeverAhead, Held,
      AtStep, At
<1>10. ASSUME NEW w \in Workers, ReleaseRegistration(w)
      PROVE  BehindRegistrar'
  BY <1>10, ReleaseRegistrationEffect, Numbers DEF BehindRegistrar, ExpiryNeverAhead,
      Held, AtStep, At
<1>11. ASSUME NEW w \in Workers, ActivateDomain(w)
      PROVE  BehindRegistrar'
  BY <1>11, ActivateDomainEffect, Numbers DEF BehindRegistrar, ExpiryNeverAhead, Held,
      AtStep, At
<1>12. ASSUME NEW w \in Workers, LockDomain(w)
      PROVE  BehindRegistrar'
  BY <1>12, LockDomainEffect, Numbers DEF BehindRegistrar, ExpiryNeverAhead, Held,
      AtStep, At
<1>13. ASSUME NEW w \in Workers, CommitRejection(w)
      PROVE  BehindRegistrar'
  BY <1>13, CommitRejectionEffect, Numbers DEF BehindRegistrar, ExpiryNeverAhead, Held,
      AtStep, At
<1>14. ASSUME NEW w \in Workers, RenewAtRegistrar(w)
      PROVE  BehindRegistrar'
  BY <1>14, RenewAtRegistrarEffect, Numbers DEF BehindRegistrar, ExpiryNeverAhead, Held,
      AtStep, At
<1>15. ASSUME NEW w \in Workers, RenewalRefused(w)
      PROVE  BehindRegistrar'
  BY <1>15, RenewalRefusedEffect, Numbers DEF BehindRegistrar, ExpiryNeverAhead, Held,
      AtStep, At
<1>16. ASSUME NEW w \in Workers, SaveRenewal(w)
      PROVE  BehindRegistrar'
  BY <1>16, SaveRenewalEffect, Numbers DEF BehindRegistrar, ExpiryNeverAhead, Held,
      AtStep, At
<1>17. ASSUME NEW w \in Workers, CompareExpiry(w)
      PROVE  BehindRegistrar'
  BY <1>17, CompareExpiryEffect, Numbers DEF BehindRegistrar, ExpiryNeverAhead, Held,
      AtStep, At
<1>18. ASSUME NEW w \in Workers, SyncExpiry(w)
      PROVE  BehindRegistrar'
  BY <1>18, SyncExpiryEffect, Numbers DEF BehindRegistrar, ExpiryNeverAhead, Held,
      AtStep, At
<1>19. ASSUME NEW w \in Workers, ApplySetting(w)
      PROVE  BehindRegistrar'
  BY <1>19, ApplySettingEffect, Numbers DEF BehindRegistrar, ExpiryNeverAhead, Held,
      AtStep, At
<1>20. ASSUME NEW w \in Workers, SettingRefused(w)
      PROVE  BehindRegistrar'
  BY <1>20, SettingRefusedEffect, Numbers DEF BehindRegistrar, ExpiryNeverAhead, Held,
      AtStep, At
<1>21. ASSUME NEW w \in Workers, SettingFails(w)
      PROVE  BehindRegistrar'
  BY <1>21, SettingFailsEffect, Numbers DEF BehindRegistrar, ExpiryNeverAhead, Held,
      AtStep, At
<1>22. ASSUME NEW w \in Workers, SaveSetting(w)
      PROVE  BehindRegistrar'
  BY <1>22, SaveSettingEffect, Numbers DEF BehindRegistrar, ExpiryNeverAhead, Held,
      AtStep, At
<1>23. ASSUME NEW w \in Workers, MarkDeleted(w)
      PROVE  BehindRegistrar'
  BY <1>23, MarkDeletedEffect, Numbers DEF BehindRegistrar, ExpiryNeverAhead, Held,
      AtStep, At
<1>24. ASSUME NEW w \in Workers, TransferDomain(w)
      PROVE  BehindRegistrar'
  BY <1>24, TransferDomainEffect, Numbers DEF BehindRegistrar, ExpiryNeverAhead, Held,
      AtStep, At
<1>25. ASSUME NEW w \in Workers, TransferRefused(w)
      PROVE  BehindRegistrar'
  BY <1>25, TransferRefusedEffect, Numbers DEF BehindRegistrar, ExpiryNeverAhead, Held,
      AtStep, At
<1>26. ASSUME NEW w \in Workers, CreateTransfer(w)
      PROVE  BehindRegistrar'
  BY <1>26, CreateTransferEffect, Numbers DEF BehindRegistrar, ExpiryNeverAhead, Held,
      AtStep, At
<1>27. ASSUME NEW w \in Workers, CheckTransfer(w)
      PROVE  BehindRegistrar'
  BY <1>27, CheckTransferEffect, Numbers DEF BehindRegistrar, ExpiryNeverAhead, Held,
      AtStep, At
<1>28. ASSUME NEW w \in Workers, CompleteTransfer(w)
      PROVE  BehindRegistrar'
  BY <1>28, CompleteTransferEffect, Numbers DEF BehindRegistrar, ExpiryNeverAhead, Held,
      AtStep, At
<1>29. ASSUME NEW w \in Workers, RegisterBlocked(w)
      PROVE  BehindRegistrar'
  BY <1>29, RegisterBlockedEffect, Numbers DEF BehindRegistrar, ExpiryNeverAhead, Held,
      AtStep, At
<1>30. ASSUME NEW w \in Workers, BlockRefused(w)
      PROVE  BehindRegistrar'
  BY <1>30, BlockRefusedEffect, Numbers DEF BehindRegistrar, ExpiryNeverAhead, Held,
      AtStep, At
<1>31. ASSUME NEW w \in Workers, CreateBlocked(w)
      PROVE  BehindRegistrar'
  BY <1>31, CreateBlockedEffect, Numbers DEF BehindRegistrar, ExpiryNeverAhead, Held,
      AtStep, At
<1>32. ASSUME NEW w \in Workers, Fail(w)
      PROVE  BehindRegistrar'
  BY <1>32, FailEffect, Numbers DEF BehindRegistrar, ExpiryNeverAhead, Held, AtStep, At
<1>33. ASSUME NEW w \in Workers, ClaimRegistration(w)
      PROVE  BehindRegistrar'
  BY <1>33, ClaimRegistrationEffect, Numbers DEF BehindRegistrar, ExpiryNeverAhead, Held,
      AtStep, At
<1>34. ASSUME NEW w \in Workers, RejectRegistration(w)
      PROVE  BehindRegistrar'
  BY <1>34, RejectRegistrationEffect, Numbers DEF BehindRegistrar, ExpiryNeverAhead,
      Held, AtStep, At
<1>35. ASSUME NEW w \in Workers, NEW u \in Users, NEW d \in NameServers,
             RequestRegistration(w, u, d)
      PROVE  BehindRegistrar'
  BY <1>35, RequestRegistrationEffect, Numbers DEF BehindRegistrar, ExpiryNeverAhead,
      Held, AtStep, At
<1>36. ASSUME NEW w \in Workers, NEW u \in Users, RenewDomain(w, u)
      PROVE  BehindRegistrar'
  BY <1>36, RenewDomainEffect, Numbers DEF BehindRegistrar, ExpiryNeverAhead, Held,
      AtStep, At
<1>37. ASSUME NEW w \in Workers, NEW u \in Users, GetDomain(w, u)
      PROVE  BehindRegistrar'
  BY <1>37, GetDomainEffect, Numbers DEF BehindRegistrar, ExpiryNeverAhead, Held, AtStep, At
<1>38. ASSUME NEW w \in Workers, NEW u \in Users, DeleteDomain(w, u)
      PROVE  BehindRegistrar'
  BY <1>38, DeleteDomainEffect, Numbers DEF BehindRegistrar, ExpiryNeverAhead, Held,
      AtStep, At
<1>39. ASSUME NEW w \in Workers, NEW u \in Users, InitiateTransfer(w, u)
      PROVE  BehindRegistrar'
  BY <1>39, InitiateTransferEffect, Numbers DEF BehindRegistrar, ExpiryNeverAhead, Held,
      AtStep, At
<1>40. ASSUME NEW w \in Workers, NEW u \in Users, GetTransferStatus(w, u)
      PROVE  BehindRegistrar'
  BY <1>40, GetTransferStatusEffect, Numbers DEF BehindRegistrar, ExpiryNeverAhead, Held,
      AtStep, At
<1>41. ASSUME NEW w \in Workers, NEW u \in Users, CancelTransfer(w, u)
      PROVE  BehindRegistrar'
  BY <1>41, CancelTransferEffect, Numbers DEF BehindRegistrar, ExpiryNeverAhead, Held,
      AtStep, At
<1>42. ASSUME NEW w \in Workers, NEW u \in Users, BlockDomain(w, u)
      PROVE  BehindRegistrar'
  BY <1>42, BlockDomainEffect, Numbers DEF BehindRegistrar, ExpiryNeverAhead, Held,
      AtStep, At
<1>43. ASSUME NEW w \in Workers, NEW u \in Users, NEW k \in Settings, NEW v \in Choices(k),
             NEW b \in BOOLEAN, ToggleSetting(w, u, k, v, b)
      PROVE  BehindRegistrar'
  BY <1>43, ToggleSettingEffect, Numbers DEF BehindRegistrar, ExpiryNeverAhead, Held,
      AtStep, At
<1>44. ASSUME TakenElsewhere
      PROVE  BehindRegistrar'
  BY <1>44, TakenElsewhereEffect, Numbers DEF BehindRegistrar, ExpiryNeverAhead, Held,
      AtStep, At
<1>45. ASSUME TransferArrives
      PROVE  BehindRegistrar'
  BY <1>45, TransferArrivesEffect, Numbers DEF BehindRegistrar, ExpiryNeverAhead, Held,
      AtStep, At
<1>46. ASSUME TransferDenied
      PROVE  BehindRegistrar'
  BY <1>46, TransferDeniedEffect, Numbers DEF BehindRegistrar, ExpiryNeverAhead, Held,
      AtStep, At
<1>47. QED
  BY <1>1, <1>2, <1>3, <1>4, <1>5, <1>6, <1>7, <1>8, <1>9, <1>10, <1>11, <1>12, <1>13,
      <1>14, <1>15, <1>16, <1>17, <1>18, <1>19, <1>20, <1>21, <1>22, <1>23, <1>24, <1>25,
          <1>26, <1>27, <1>28, <1>29, <1>30, <1>31, <1>32, <1>33, <1>34, <1>35, <1>36,
              <1>37, <1>38, <1>39, <1>40, <1>41, <1>42, <1>43, <1>44, <1>45, <1>46
     DEF DomainNext, World, StartHandler, Continue

\* What is written as an expiry was read from the row or the registrar, or was paid for.
LEMMA ExpiryStep ==
    ASSUME DomainTypeOK, BehindRegistrar, ExpiryNeverAhead, DomainNext
    PROVE  ExpiryNeverAhead'
<1>1. ASSUME NEW w \in Workers, VerifyAvailable(w)
      PROVE  ExpiryNeverAhead'
  BY <1>1, VerifyAvailableEffect, Numbers DEF BehindRegistrar, ExpiryNeverAhead, Held,
      AtStep, At
<1>2. ASSUME NEW w \in Workers, ParkRequest(w)
      PROVE  ExpiryNeverAhead'
  BY <1>2, ParkRequestEffect, Numbers DEF BehindRegistrar, ExpiryNeverAhead, Held,
      AtStep, At
<1>3. ASSUME NEW w \in Workers, Reverify(w)
      PROVE  ExpiryNeverAhead'
  BY <1>3, ReverifyEffect, Numbers DEF BehindRegistrar, ExpiryNeverAhead, Held, AtStep, At
<1>4. ASSUME NEW w \in Workers, ReverifyFails(w)
      PROVE  ExpiryNeverAhead'
  BY <1>4, ReverifyFailsEffect, Numbers DEF BehindRegistrar, ExpiryNeverAhead, Held,
      AtStep, At
<1>5. ASSUME NEW w \in Workers, RegisterDomain(w)
      PROVE  ExpiryNeverAhead'
  BY <1>5, RegisterDomainEffect, Numbers DEF BehindRegistrar, ExpiryNeverAhead, Held,
      AtStep, At
<1>6. ASSUME NEW w \in Workers, RegistrationRefused(w)
      PROVE  ExpiryNeverAhead'
  BY <1>6, RegistrationRefusedEffect, Numbers DEF BehindRegistrar, ExpiryNeverAhead,
      Held, AtStep, At
<1>7. ASSUME NEW w \in Workers, RegistrationUnanswered(w)
      PROVE  ExpiryNeverAhead'
  BY <1>7, RegistrationUnansweredEffect, Numbers DEF BehindRegistrar, ExpiryNeverAhead,
      Held, AtStep, At
<1>8. ASSUME NEW w \in Workers, MarkRejected(w)
      PROVE  ExpiryNeverAhead'
  BY <1>8, MarkRejectedEffect, Numbers DEF BehindRegistrar, ExpiryNeverAhead, Held,
      AtStep, At
<1>9. ASSUME NEW w \in Workers, MarkRejectedFails(w)
      PROVE  ExpiryNeverAhead'
  BY <1>9, MarkRejectedFailsEffect, Numbers DEF BehindRegistrar, ExpiryNeverAhead, Held,
      AtStep, At
<1>10. ASSUME NEW w \in Workers, ReleaseRegistration(w)
      PROVE  ExpiryNeverAhead'
  BY <1>10, ReleaseRegistrationEffect, Numbers DEF BehindRegistrar, ExpiryNeverAhead,
      Held, AtStep, At
<1>11. ASSUME NEW w \in Workers, ActivateDomain(w)
      PROVE  ExpiryNeverAhead'
  BY <1>11, ActivateDomainEffect, Numbers DEF BehindRegistrar, ExpiryNeverAhead, Held,
      AtStep, At
<1>12. ASSUME NEW w \in Workers, LockDomain(w)
      PROVE  ExpiryNeverAhead'
  BY <1>12, LockDomainEffect, Numbers DEF BehindRegistrar, ExpiryNeverAhead, Held,
      AtStep, At
<1>13. ASSUME NEW w \in Workers, CommitRejection(w)
      PROVE  ExpiryNeverAhead'
  BY <1>13, CommitRejectionEffect, Numbers DEF BehindRegistrar, ExpiryNeverAhead, Held,
      AtStep, At
<1>14. ASSUME NEW w \in Workers, RenewAtRegistrar(w)
      PROVE  ExpiryNeverAhead'
  BY <1>14, RenewAtRegistrarEffect, Numbers DEF BehindRegistrar, ExpiryNeverAhead, Held,
      AtStep, At
<1>15. ASSUME NEW w \in Workers, RenewalRefused(w)
      PROVE  ExpiryNeverAhead'
  BY <1>15, RenewalRefusedEffect, Numbers DEF BehindRegistrar, ExpiryNeverAhead, Held,
      AtStep, At
<1>16. ASSUME NEW w \in Workers, SaveRenewal(w)
      PROVE  ExpiryNeverAhead'
  BY <1>16, SaveRenewalEffect, Numbers DEF BehindRegistrar, ExpiryNeverAhead, Held,
      AtStep, At
<1>17. ASSUME NEW w \in Workers, CompareExpiry(w)
      PROVE  ExpiryNeverAhead'
  BY <1>17, CompareExpiryEffect, Numbers DEF BehindRegistrar, ExpiryNeverAhead, Held,
      AtStep, At
<1>18. ASSUME NEW w \in Workers, SyncExpiry(w)
      PROVE  ExpiryNeverAhead'
  BY <1>18, SyncExpiryEffect, Numbers DEF BehindRegistrar, ExpiryNeverAhead, Held,
      AtStep, At
<1>19. ASSUME NEW w \in Workers, ApplySetting(w)
      PROVE  ExpiryNeverAhead'
  BY <1>19, ApplySettingEffect, Numbers DEF BehindRegistrar, ExpiryNeverAhead, Held,
      AtStep, At
<1>20. ASSUME NEW w \in Workers, SettingRefused(w)
      PROVE  ExpiryNeverAhead'
  BY <1>20, SettingRefusedEffect, Numbers DEF BehindRegistrar, ExpiryNeverAhead, Held,
      AtStep, At
<1>21. ASSUME NEW w \in Workers, SettingFails(w)
      PROVE  ExpiryNeverAhead'
  BY <1>21, SettingFailsEffect, Numbers DEF BehindRegistrar, ExpiryNeverAhead, Held,
      AtStep, At
<1>22. ASSUME NEW w \in Workers, SaveSetting(w)
      PROVE  ExpiryNeverAhead'
  BY <1>22, SaveSettingEffect, Numbers DEF BehindRegistrar, ExpiryNeverAhead, Held,
      AtStep, At
<1>23. ASSUME NEW w \in Workers, MarkDeleted(w)
      PROVE  ExpiryNeverAhead'
  BY <1>23, MarkDeletedEffect, Numbers DEF BehindRegistrar, ExpiryNeverAhead, Held,
      AtStep, At
<1>24. ASSUME NEW w \in Workers, TransferDomain(w)
      PROVE  ExpiryNeverAhead'
  BY <1>24, TransferDomainEffect, Numbers DEF BehindRegistrar, ExpiryNeverAhead, Held,
      AtStep, At
<1>25. ASSUME NEW w \in Workers, TransferRefused(w)
      PROVE  ExpiryNeverAhead'
  BY <1>25, TransferRefusedEffect, Numbers DEF BehindRegistrar, ExpiryNeverAhead, Held,
      AtStep, At
<1>26. ASSUME NEW w \in Workers, CreateTransfer(w)
      PROVE  ExpiryNeverAhead'
  BY <1>26, CreateTransferEffect, Numbers DEF BehindRegistrar, ExpiryNeverAhead, Held,
      AtStep, At
<1>27. ASSUME NEW w \in Workers, CheckTransfer(w)
      PROVE  ExpiryNeverAhead'
  BY <1>27, CheckTransferEffect, Numbers DEF BehindRegistrar, ExpiryNeverAhead, Held,
      AtStep, At
<1>28. ASSUME NEW w \in Workers, CompleteTransfer(w)
      PROVE  ExpiryNeverAhead'
  BY <1>28, CompleteTransferEffect, Numbers DEF BehindRegistrar, ExpiryNeverAhead, Held,
      AtStep, At
<1>29. ASSUME NEW w \in Workers, RegisterBlocked(w)
      PROVE  ExpiryNeverAhead'
  BY <1>29, RegisterBlockedEffect, Numbers DEF BehindRegistrar, ExpiryNeverAhead, Held,
      AtStep, At
<1>30. ASSUME NEW w \in Workers, BlockRefused(w)
      PROVE  ExpiryNeverAhead'
  BY <1>30, BlockRefusedEffect, Numbers DEF BehindRegistrar, ExpiryNeverAhead, Held,
      AtStep, At
<1>31. ASSUME NEW w \in Workers, CreateBlocked(w)
      PROVE  ExpiryNeverAhead'
  BY <1>31, CreateBlockedEffect, Numbers DEF BehindRegistrar, ExpiryNeverAhead, Held,
      AtStep, At
<1>32. ASSUME NEW w \in Workers, Fail(w)
      PROVE  ExpiryNeverAhead'
  BY <1>32, FailEffect, Numbers DEF BehindRegistrar, ExpiryNeverAhead, Held, AtStep, At
<1>33. ASSUME NEW w \in Workers, ClaimRegistration(w)
      PROVE  ExpiryNeverAhead'
  BY <1>33, ClaimRegistrationEffect, Numbers DEF BehindRegistrar, ExpiryNeverAhead, Held,
      AtStep, At
<1>34. ASSUME NEW w \in Workers, RejectRegistration(w)
      PROVE  ExpiryNeverAhead'
  BY <1>34, RejectRegistrationEffect, Numbers DEF BehindRegistrar, ExpiryNeverAhead,
      Held, AtStep, At
<1>35. ASSUME NEW w \in Workers, NEW u \in Users, NEW d \in NameServers,
             RequestRegistration(w, u, d)
      PROVE  ExpiryNeverAhead'
  BY <1>35, RequestRegistrationEffect, Numbers DEF BehindRegistrar, ExpiryNeverAhead,
      Held, AtStep, At
<1>36. ASSUME NEW w \in Workers, NEW u \in Users, RenewDomain(w, u)
      PROVE  ExpiryNeverAhead'
  BY <1>36, RenewDomainEffect, Numbers DEF BehindRegistrar, ExpiryNeverAhead, Held,
      AtStep, At
<1>37. ASSUME NEW w \in Workers, NEW u \in Users, GetDomain(w, u)
      PROVE  ExpiryNeverAhead'
  BY <1>37, GetDomainEffect, Numbers DEF BehindRegistrar, ExpiryNeverAhead, Held, AtStep, At
<1>38. ASSUME NEW w \in Workers, NEW u \in Users, DeleteDomain(w, u)
      PROVE  ExpiryNeverAhead'
  BY <1>38, DeleteDomainEffect, Numbers DEF BehindRegistrar, ExpiryNeverAhead, Held,
      AtStep, At
<1>39. ASSUME NEW w \in Workers, NEW u \in Users, InitiateTransfer(w, u)
      PROVE  ExpiryNeverAhead'
  BY <1>39, InitiateTransferEffect, Numbers DEF BehindRegistrar, ExpiryNeverAhead, Held,
      AtStep, At
<1>40. ASSUME NEW w \in Workers, NEW u \in Users, GetTransferStatus(w, u)
      PROVE  ExpiryNeverAhead'
  BY <1>40, GetTransferStatusEffect, Numbers DEF BehindRegistrar, ExpiryNeverAhead, Held,
      AtStep, At
<1>41. ASSUME NEW w \in Workers, NEW u \in Users, CancelTransfer(w, u)
      PROVE  ExpiryNeverAhead'
  BY <1>41, CancelTransferEffect, Numbers DEF BehindRegistrar, ExpiryNeverAhead, Held,
      AtStep, At
<1>42. ASSUME NEW w \in Workers, NEW u \in Users, BlockDomain(w, u)
      PROVE  ExpiryNeverAhead'
  BY <1>42, BlockDomainEffect, Numbers DEF BehindRegistrar, ExpiryNeverAhead, Held,
      AtStep, At
<1>43. ASSUME NEW w \in Workers, NEW u \in Users, NEW k \in Settings, NEW v \in Choices(k),
             NEW b \in BOOLEAN, ToggleSetting(w, u, k, v, b)
      PROVE  ExpiryNeverAhead'
  BY <1>43, ToggleSettingEffect, Numbers DEF BehindRegistrar, ExpiryNeverAhead, Held,
      AtStep, At
<1>44. ASSUME TakenElsewhere
      PROVE  ExpiryNeverAhead'
  BY <1>44, TakenElsewhereEffect, Numbers DEF BehindRegistrar, ExpiryNeverAhead, Held,
      AtStep, At
<1>45. ASSUME TransferArrives
      PROVE  ExpiryNeverAhead'
  BY <1>45, TransferArrivesEffect, Numbers DEF BehindRegistrar, ExpiryNeverAhead, Held,
      AtStep, At
<1>46. ASSUME TransferDenied
      PROVE  ExpiryNeverAhead'
  BY <1>46, TransferDeniedEffect, Numbers DEF BehindRegistrar, ExpiryNeverAhead, Held,
      AtStep, At
<1>47. QED
  BY <1>1, <1>2, <1>3, <1>4, <1>5, <1>6, <1>7, <1>8, <1>9, <1>10, <1>11, <1>12, <1>13,
      <1>14, <1>15, <1>16, <1>17, <1>18, <1>19, <1>20, <1>21, <1>22, <1>23, <1>24, <1>25,
          <1>26, <1>27, <1>28, <1>29, <1>30, <1>31, <1>32, <1>33, <1>34, <1>35, <1>36,
              <1>37, <1>38, <1>39, <1>40, <1>41, <1>42, <1>43, <1>44, <1>45, <1>46
     DEF DomainNext, World, StartHandler, Continue

\* ACTIVE is only written by handlers that have seen the registrar hold the name.
LEMMA ActiveStep ==
    ASSUME DomainTypeOK, BehindRegistrar, ActiveIsHeld, DomainNext
    PROVE  ActiveIsHeld'
<1>1. ASSUME NEW w \in Workers, VerifyAvailable(w)
      PROVE  ActiveIsHeld'
  BY <1>1, VerifyAvailableEffect DEF BehindRegistrar, ActiveIsHeld, Held, AtStep, At
<1>2. ASSUME NEW w \in Workers, ParkRequest(w)
      PROVE  ActiveIsHeld'
  BY <1>2, ParkRequestEffect DEF BehindRegistrar, ActiveIsHeld, Held, AtStep, At
<1>3. ASSUME NEW w \in Workers, Reverify(w)
      PROVE  ActiveIsHeld'
  BY <1>3, ReverifyEffect DEF BehindRegistrar, ActiveIsHeld, Held, AtStep, At
<1>4. ASSUME NEW w \in Workers, ReverifyFails(w)
      PROVE  ActiveIsHeld'
  BY <1>4, ReverifyFailsEffect DEF BehindRegistrar, ActiveIsHeld, Held, AtStep, At
<1>5. ASSUME NEW w \in Workers, RegisterDomain(w)
      PROVE  ActiveIsHeld'
  BY <1>5, RegisterDomainEffect DEF BehindRegistrar, ActiveIsHeld, Held, AtStep, At
<1>6. ASSUME NEW w \in Workers, RegistrationRefused(w)
      PROVE  ActiveIsHeld'
  BY <1>6, RegistrationRefusedEffect DEF BehindRegistrar, ActiveIsHeld, Held, AtStep, At
<1>7. ASSUME NEW w \in Workers, RegistrationUnanswered(w)
      PROVE  ActiveIsHeld'
  BY <1>7, RegistrationUnansweredEffect DEF BehindRegistrar, ActiveIsHeld, Held, AtStep, At
<1>8. ASSUME NEW w \in Workers, MarkRejected(w)
      PROVE  ActiveIsHeld'
  BY <1>8, MarkRejectedEffect DEF BehindRegistrar, ActiveIsHeld, Held, AtStep, At
<1>9. ASSUME NEW w \in Workers, MarkRejectedFails(w)
      PROVE  ActiveIsHeld'
  BY <1>9, MarkRejectedFailsEffect DEF BehindRegistrar, ActiveIsHeld, Held, AtStep, At
<1>10. ASSUME NEW w \in Workers, ReleaseRegistration(w)
      PROVE  ActiveIsHeld'
  BY <1>10, ReleaseRegistrationEffect DEF BehindRegistrar, ActiveIsHeld, Held, AtStep, At
<1>11. ASSUME NEW w \in Workers, ActivateDomain(w)
      PROVE  ActiveIsHeld'
  BY <1>11, ActivateDomainEffect DEF BehindRegistrar, ActiveIsHeld, Held, AtStep, At
<1>12. ASSUME NEW w \in Workers, LockDomain(w)
      PROVE  ActiveIsHeld'
  BY <1>12, LockDomainEffect DEF BehindRegistrar, ActiveIsHeld, Held, AtStep, At
<1>13. ASSUME NEW w \in Workers, CommitRejection(w)
      PROVE  ActiveIsHeld'
  BY <1>13, CommitRejectionEffect DEF BehindRegistrar, ActiveIsHeld, Held, AtStep, At
<1>14. ASSUME NEW w \in Workers, RenewAtRegistrar(w)
      PROVE  ActiveIsHeld'
  BY <1>14, RenewAtRegistrarEffect DEF BehindRegistrar, ActiveIsHeld, Held, AtStep, At
<1>15. ASSUME NEW w \in Workers, RenewalRefused(w)
      PROVE  ActiveIsHeld'
  BY <1>15, RenewalRefusedEffect DEF BehindRegistrar, ActiveIsHeld, Held, AtStep, At
<1>16. ASSUME NEW w \in Workers, SaveRenewal(w)
      PROVE  ActiveIsHeld'
  BY <1>16, SaveRenewalEffect DEF BehindRegistrar, ActiveIsHeld, Held, AtStep, At
<1>17. ASSUME NEW w \in Workers, CompareExpiry(w)
      PROVE  ActiveIsHeld'
  BY <1>17, CompareExpiryEffect DEF BehindRegistrar, ActiveIsHeld, Held, AtStep, At
<1>18. ASSUME NEW w \in Workers, SyncExpiry(w)
      PROVE  ActiveIsHeld'
  BY <1>18, SyncExpiryEffect DEF BehindRegistrar, ActiveIsHeld, Held, AtStep, At
<1>19. ASSUME NEW w \in Workers, ApplySetting(w)
      PROVE  ActiveIsHeld'
  BY <1>19, ApplySettingEffect DEF BehindRegistrar, ActiveIsHeld, Held, AtStep, At
<1>20. ASSUME NEW w \in Workers, SettingRefused(w)
      PROVE  ActiveIsHeld'
  BY <1>20, SettingRefusedEffect DEF BehindRegistrar, ActiveIsHeld, Held, AtStep, At
<1>21. ASSUME NEW w \in Workers, SettingFails(w)
      PROVE  ActiveIsHeld'
  BY <1>21, SettingFailsEffect DEF BehindRegistrar, ActiveIsHeld, Held, AtStep, At
<1>22. ASSUME NEW w \in Workers, SaveSetting(w)
      PROVE  ActiveIsHeld'
  BY <1>22, SaveSettingEffect DEF BehindRegistrar, ActiveIsHeld, Held, AtStep, At
<1>23. ASSUME NEW w \in Workers, MarkDeleted(w)
      PROVE  ActiveIsHeld'
  BY <1>23, MarkDeletedEffect DEF BehindRegistrar, ActiveIsHeld, Held, AtStep, At
<1>24. ASSUME NEW w \in Workers, TransferDomain(w)
      PROVE  ActiveIsHeld'
  BY <1>24, TransferDomainEffect DEF BehindRegistrar, ActiveIsHeld, Held, AtStep, At
<1>25. ASSUME NEW w \in Workers, TransferRefused(w)
      PROVE  ActiveIsHeld'
  BY <1>25, TransferRefusedEffect DEF BehindRegistrar, ActiveIsHeld, Held, AtStep, At
<1>26. ASSUME NEW w \in Workers, CreateTransfer(w)
      PROVE  ActiveIsHeld'
  BY <1>26, CreateTransferEffect DEF BehindRegistrar, ActiveIsHeld, Held, AtStep, At
<1>27. ASSUME NEW w \in Workers, CheckTransfer(w)
      PROVE  ActiveIsHeld'
  BY <1>27, CheckTransferEffect DEF BehindRegistrar, ActiveIsHeld, Held, AtStep, At
<1>28. ASSUME NEW w \in Workers, CompleteTransfer(w)
      PROVE  ActiveIsHeld'
  BY <1>28, CompleteTransferEffect DEF BehindRegistrar, ActiveIsHeld, Held, AtStep, At
<1>29. ASSUME NEW w \in Workers, RegisterBlocked(w)
      PROVE  ActiveIsHeld'
  BY <1>29, RegisterBlockedEffect DEF BehindRegistrar, ActiveIsHeld, Held, AtStep, At
<1>30. ASSUME NEW w \in Workers, BlockRefused(w)
      PROVE  ActiveIsHeld'
  BY <1>30, BlockRefusedEffect DEF BehindRegistrar, ActiveIsHeld, Held, AtStep, At
<1>31. ASSUME NEW w \in Workers, CreateBlocked(w)
      PROVE  ActiveIsHeld'
  BY <1>31, CreateBlockedEffect DEF BehindRegistrar, ActiveIsHeld, Held, AtStep, At
<1>32. ASSUME NEW w \in Workers, Fail(w)
      PROVE  ActiveIsHeld'
  BY <1>32, FailEffect DEF BehindRegistrar, ActiveIsHeld, Held, AtStep, At
<1>33. ASSUME NEW w \in Workers, ClaimRegistration(w)
      PROVE  ActiveIsHeld'
  BY <1>33, ClaimRegistrationEffect DEF BehindRegistrar, ActiveIsHeld, Held, AtStep, At
<1>34. ASSUME NEW w \in Workers, RejectRegistration(w)
      PROVE  ActiveIsHeld'
  BY <1>34, RejectRegistrationEffect DEF BehindRegistrar, ActiveIsHeld, Held, AtStep, At
<1>35. ASSUME NEW w \in Workers, NEW u \in Users, NEW d \in NameServers,
             RequestRegistration(w, u, d)
      PROVE  ActiveIsHeld'
  BY <1>35, RequestRegistrationEffect DEF BehindRegistrar, ActiveIsHeld, Held, AtStep, At
<1>36. ASSUME NEW w \in Workers, NEW u \in Users, RenewDomain(w, u)
      PROVE  ActiveIsHeld'
  BY <1>36, RenewDomainEffect DEF BehindRegistrar, ActiveIsHeld, Held, AtStep, At
<1>37. ASSUME NEW w \in Workers, NEW u \in Users, GetDomain(w, u)
      PROVE  ActiveIsHeld'
  BY <1>37, GetDomainEffect DEF BehindRegistrar, ActiveIsHeld, Held, AtStep, At
<1>38. ASSUME NEW w \in Workers, NEW u \in Users, DeleteDomain(w, u)
      PROVE  ActiveIsHeld'
  BY <1>38, DeleteDomainEffect DEF BehindRegistrar, ActiveIsHeld, Held, AtStep, At
<1>39. ASSUME NEW w \in Workers, NEW u \in Users, InitiateTransfer(w, u)
      PROVE  ActiveIsHeld'
  BY <1>39, InitiateTransferEffect DEF BehindRegistrar, ActiveIsHeld, Held, AtStep, At
<1>40. ASSUME NEW w \in Workers, NEW u \in Users, GetTransferStatus(w, u)
      PROVE  ActiveIsHeld'
  BY <1>40, GetTransferStatusEffect DEF BehindRegistrar, ActiveIsHeld, Held, AtStep, At
<1>41. ASSUME NEW w \in Workers, NEW u \in Users, CancelTransfer(w, u)
      PROVE  ActiveIsHeld'
  BY <1>41, CancelTransferEffect DEF BehindRegistrar, ActiveIsHeld, Held, AtStep, At
<1>42. ASSUME NEW w \in Workers, NEW u \in Users, BlockDomain(w, u)
      PROVE  ActiveIsHeld'
  BY <1>42, BlockDomainEffect DEF BehindRegistrar, ActiveIsHeld, Held, AtStep, At
<1>43. ASSUME NEW w \in Workers, NEW u \in Users, NEW k \in Settings, NEW v \in Choices(k),
             NEW b \in BOOLEAN, ToggleSetting(w, u, k, v, b)
      PROVE  ActiveIsHeld'
  BY <1>43, ToggleSettingEffect DEF BehindRegistrar, ActiveIsHeld, Held, AtStep, At
<1>44. ASSUME TakenElsewhere
      PROVE  ActiveIsHeld'
  BY <1>44, TakenElsewhereEffect DEF BehindRegistrar, ActiveIsHeld, Held, AtStep, At
<1>45. ASSUME TransferArrives
      PROVE  ActiveIsHeld'
  BY <1>45, TransferArrivesEffect DEF BehindRegistrar, ActiveIsHeld, Held, AtStep, At
<1>46. ASSUME TransferDenied
      PROVE  ActiveIsHeld'
  BY <1>46, TransferDeniedEffect DEF BehindRegistrar, ActiveIsHeld, Held, AtStep, At
<1>47. QED
  BY <1>1, <1>2, <1>3, <1>4, <1>5, <1>6, <1>7, <1>8, <1>9, <1>10, <1>11, <1>12, <1>13,
      <1>14, <1>15, <1>16, <1>17, <1>18, <1>19, <1>20, <1>21, <1>22, <1>23, <1>24, <1>25,
          <1>26, <1>27, <1>28, <1>29, <1>30, <1>31, <1>32, <1>33, <1>34, <1>35, <1>36,
              <1>37, <1>38, <1>39, <1>40, <1>41, <1>42, <1>43, <1>44, <1>45, <1>46
     DEF DomainNext, World, StartHandler, Continue

\* A claim ends with the approval that holds it, unless its outcome is in doubt.
LEMMA ClaimsStep ==
    ASSUME DomainTypeOK, ClaimsEnd, DomainNext
    PROVE  ClaimsEnd'
<1>1. ASSUME NEW w \in Workers, VerifyAvailable(w)
      PROVE  ClaimsEnd'
  BY <1>1, VerifyAvailableEffect DEF ClaimsEnd, Approving
<1>2. ASSUME NEW w \in Workers, ParkRequest(w)
      PROVE  ClaimsEnd'
  BY <1>2, ParkRequestEffect DEF ClaimsEnd, Approving
<1>3. ASSUME NEW w \in Workers, Reverify(w)
      PROVE  ClaimsEnd'
  BY <1>3, ReverifyEffect DEF ClaimsEnd, Approving
<1>4. ASSUME NEW w \in Workers, ReverifyFails(w)
      PROVE  ClaimsEnd'
  BY <1>4, ReverifyFailsEffect DEF ClaimsEnd, Approving
<1>5. ASSUME NEW w \in Workers, RegisterDomain(w)
      PROVE  ClaimsEnd'
  BY <1>5, RegisterDomainEffect DEF ClaimsEnd, Approving
<1>6. ASSUME NEW w \in Workers, RegistrationRefused(w)
      PROVE  ClaimsEnd'
  BY <1>6, RegistrationRefusedEffect DEF ClaimsEnd, Approving
<1>7. ASSUME NEW w \in Workers, RegistrationUnanswered(w)
      PROVE  ClaimsEnd'
  BY <1>7, RegistrationUnansweredEffect DEF ClaimsEnd, Approving
<1>8. ASSUME NEW w \in Workers, MarkRejected(w)
      PROVE  ClaimsEnd'
  BY <1>8, MarkRejectedEffect DEF ClaimsEnd, Approving
<1>9. ASSUME NEW w \in Workers, MarkRejectedFails(w)
      PROVE  ClaimsEnd'
  BY <1>9, MarkRejectedFailsEffect DEF ClaimsEnd, Approving
<1>10. ASSUME NEW w \in Workers, ReleaseRegistration(w)
      PROVE  ClaimsEnd'
  BY <1>10, ReleaseRegistrationEffect DEF ClaimsEnd, Approving
<1>11. ASSUME NEW w \in Workers, ActivateDomain(w)
      PROVE  ClaimsEnd'
  BY <1>11, ActivateDomainEffect DEF ClaimsEnd, Approving
<1>12. ASSUME NEW w \in Workers, LockDomain(w)
      PROVE  ClaimsEnd'
  BY <1>12, LockDomainEffect DEF ClaimsEnd, Approving
<1>13. ASSUME NEW w \in Workers, CommitRejection(w)
      PROVE  ClaimsEnd'
  BY <1>13, CommitRejectionEffect DEF ClaimsEnd, Approving
<1>14. ASSUME NEW w \in Workers, RenewAtRegistrar(w)
      PROVE  ClaimsEnd'
  BY <1>14, RenewAtRegistrarEffect DEF ClaimsEnd, Approving
<1>15. ASSUME NEW w \in Workers, RenewalRefused(w)
      PROVE  ClaimsEnd'
  BY <1>15, RenewalRefusedEffect DEF ClaimsEnd, Approving
<1>16. ASSUME NEW w \in Workers, SaveRenewal(w)
      PROVE  ClaimsEnd'
  BY <1>16, SaveRenewalEffect DEF ClaimsEnd, Approving
<1>17. ASSUME NEW w \in Workers, CompareExpiry(w)
      PROVE  ClaimsEnd'
  BY <1>17, CompareExpiryEffect DEF ClaimsEnd, Approving
<1>18. ASSUME NEW w \in Workers, SyncExpiry(w)
      PROVE  ClaimsEnd'
  BY <1>18, SyncExpiryEffect DEF ClaimsEnd, Approving
<1>19. ASSUME NEW w \in Workers, ApplySetting(w)
      PROVE  ClaimsEnd'
  BY <1>19, ApplySettingEffect DEF ClaimsEnd, Approving
<1>20. ASSUME NEW w \in Workers, SettingRefused(w)
      PROVE  ClaimsEnd'
  BY <1>20, SettingRefusedEffect DEF ClaimsEnd, Approving
<1>21. ASSUME NEW w \in Workers, SettingFails(w)
      PROVE  ClaimsEnd'
  BY <1>21, SettingFailsEffect DEF ClaimsEnd, Approving
<1>22. ASSUME NEW w \in Workers, SaveSetting(w)
      PROVE  ClaimsEnd'
  BY <1>22, SaveSettingEffect DEF ClaimsEnd, Approving
<1>23. ASSUME NEW w \in Workers, MarkDeleted(w)
      PROVE  ClaimsEnd'
  BY <1>23, MarkDeletedEffect DEF ClaimsEnd, Approving
<1>24. ASSUME NEW w \in Workers, TransferDomain(w)
      PROVE  ClaimsEnd'
  BY <1>24, TransferDomainEffect DEF ClaimsEnd, Approving
<1>25. ASSUME NEW w \in Workers, TransferRefused(w)
      PROVE  ClaimsEnd'
  BY <1>25, TransferRefusedEffect DEF ClaimsEnd, Approving
<1>26. ASSUME NEW w \in Workers, CreateTransfer(w)
      PROVE  ClaimsEnd'
  BY <1>26, CreateTransferEffect DEF ClaimsEnd, Approving
<1>27. ASSUME NEW w \in Workers, CheckTransfer(w)
      PROVE  ClaimsEnd'
  BY <1>27, CheckTransferEffect DEF ClaimsEnd, Approving
<1>28. ASSUME NEW w \in Workers, CompleteTransfer(w)
      PROVE  ClaimsEnd'
  BY <1>28, CompleteTransferEffect DEF ClaimsEnd, Approving
<1>29. ASSUME NEW w \in Workers, RegisterBlocked(w)
      PROVE  ClaimsEnd'
  BY <1>29, RegisterBlockedEffect DEF ClaimsEnd, Approving
<1>30. ASSUME NEW w \in Workers, BlockRefused(w)
      PROVE  ClaimsEnd'
  BY <1>30, BlockRefusedEffect DEF ClaimsEnd, Approving
<1>31. ASSUME NEW w \in Workers, CreateBlocked(w)
      PROVE  ClaimsEnd'
  BY <1>31, CreateBlockedEffect DEF ClaimsEnd, Approving
<1>32. ASSUME NEW w \in Workers, Fail(w)
      PROVE  ClaimsEnd'
  BY <1>32, FailEffect DEF ClaimsEnd, Approving
<1>33. ASSUME NEW w \in Workers, ClaimRegistration(w)
      PROVE  ClaimsEnd'
  BY <1>33, ClaimRegistrationEffect DEF ClaimsEnd, Approving
<1>34. ASSUME NEW w \in Workers, RejectRegistration(w)
      PROVE  ClaimsEnd'
  BY <1>34, RejectRegistrationEffect DEF ClaimsEnd, Approving
<1>35. ASSUME NEW w \in Workers, NEW u \in Users, NEW d \in NameServers,
             RequestRegistration(w, u, d)
      PROVE  ClaimsEnd'
  BY <1>35, RequestRegistrationEffect DEF ClaimsEnd, Approving
<1>36. ASSUME NEW w \in Workers, NEW u \in Users, RenewDomain(w, u)
      PROVE  ClaimsEnd'
  BY <1>36, RenewDomainEffect DEF ClaimsEnd, Approving
<1>37. ASSUME NEW w \in Workers, NEW u \in Users, GetDomain(w, u)
      PROVE  ClaimsEnd'
  BY <1>37, GetDomainEffect DEF ClaimsEnd, Approving
<1>38. ASSUME NEW w \in Workers, NEW u \in Users, DeleteDomain(w, u)
      PROVE  ClaimsEnd'
  BY <1>38, DeleteDomainEffect DEF ClaimsEnd, Approving
<1>39. ASSUME NEW w \in Workers, NEW u \in Users, InitiateTransfer(w, u)
      PROVE  ClaimsEnd'
  BY <1>39, InitiateTransferEffect DEF ClaimsEnd, Approving
<1>40. ASSUME NEW w \in Workers, NEW u \in Users, GetTransferStatus(w, u)
      PROVE  ClaimsEnd'
  BY <1>40, GetTransferStatusEffect DEF ClaimsEnd, Approving
<1>41. ASSUME NEW w \in Workers, NEW u \in Users, CancelTransfer(w, u)
      PROVE  ClaimsEnd'
  BY <1>41, CancelTransferEffect DEF ClaimsEnd, Approving
<1>42. ASSUME NEW w \in Workers, NEW u \in Users, BlockDomain(w, u)
      PROVE  ClaimsEnd'
  BY <1>42, BlockDomainEffect DEF ClaimsEnd, Approving
<1>43. ASSUME NEW w \in Workers, NEW u \in Users, NEW k \in Settings, NEW v \in Choices(k),
             NEW b \in BOOLEAN, ToggleSetting(w, u, k, v, b)
      PROVE  ClaimsEnd'
  BY <1>43, ToggleSettingEffect DEF ClaimsEnd, Approving
<1>44. ASSUME TakenElsewhere
      PROVE  ClaimsEnd'
  BY <1>44, TakenElsewhereEffect DEF ClaimsEnd, Approving
<1>45. ASSUME TransferArrives
      PROVE  ClaimsEnd'
  BY <1>45, TransferArrivesEffect DEF ClaimsEnd, Approving
<1>46. ASSUME TransferDenied
      PROVE  ClaimsEnd'
  BY <1>46, TransferDeniedEffect DEF ClaimsEnd, Approving
<1>47. QED
  BY <1>1, <1>2, <1>3, <1>4, <1>5, <1>6, <1>7, <1>8, <1>9, <1>10, <1>11, <1>12, <1>13,
      <1>14, <1>15, <1>16, <1>17, <1>18, <1>19, <1>20, <1>21, <1>22, <1>23, <1>24, <1>25,
          <1>26, <1>27, <1>28, <1>29, <1>30, <1>31, <1>32, <1>33, <1>34, <1>35, <1>36,
              <1>37, <1>38, <1>39, <1>40, <1>41, <1>42, <1>43, <1>44, <1>45, <1>46
     DEF DomainNext, World, StartHandler, Continue

\* crowded records that handlers have overlapped.
LEMMA OneStep ==
    ASSUME DomainTypeOK, OneAtATime \/ crowded, DomainNext
    PROVE  (OneAtATime \/ crowded)'
<1>1. ASSUME NEW w \in Workers, VerifyAvailable(w)
      PROVE  (OneAtATime \/ crowded)'
  BY <1>1, VerifyAvailableEffect DEF OneAtATime, Busy
<1>2. ASSUME NEW w \in Workers, ParkRequest(w)
      PROVE  (OneAtATime \/ crowded)'
  BY <1>2, ParkRequestEffect DEF OneAtATime, Busy
<1>3. ASSUME NEW w \in Workers, Reverify(w)
      PROVE  (OneAtATime \/ crowded)'
  BY <1>3, ReverifyEffect DEF OneAtATime, Busy
<1>4. ASSUME NEW w \in Workers, ReverifyFails(w)
      PROVE  (OneAtATime \/ crowded)'
  BY <1>4, ReverifyFailsEffect DEF OneAtATime, Busy
<1>5. ASSUME NEW w \in Workers, RegisterDomain(w)
      PROVE  (OneAtATime \/ crowded)'
  BY <1>5, RegisterDomainEffect DEF OneAtATime, Busy
<1>6. ASSUME NEW w \in Workers, RegistrationRefused(w)
      PROVE  (OneAtATime \/ crowded)'
  BY <1>6, RegistrationRefusedEffect DEF OneAtATime, Busy
<1>7. ASSUME NEW w \in Workers, RegistrationUnanswered(w)
      PROVE  (OneAtATime \/ crowded)'
  BY <1>7, RegistrationUnansweredEffect DEF OneAtATime, Busy
<1>8. ASSUME NEW w \in Workers, MarkRejected(w)
      PROVE  (OneAtATime \/ crowded)'
  BY <1>8, MarkRejectedEffect DEF OneAtATime, Busy
<1>9. ASSUME NEW w \in Workers, MarkRejectedFails(w)
      PROVE  (OneAtATime \/ crowded)'
  BY <1>9, MarkRejectedFailsEffect DEF OneAtATime, Busy
<1>10. ASSUME NEW w \in Workers, ReleaseRegistration(w)
      PROVE  (OneAtATime \/ crowded)'
  BY <1>10, ReleaseRegistrationEffect DEF OneAtATime, Busy
<1>11. ASSUME NEW w \in Workers, ActivateDomain(w)
      PROVE  (OneAtATime \/ crowded)'
  BY <1>11, ActivateDomainEffect DEF OneAtATime, Busy
<1>12. ASSUME NEW w \in Workers, LockDomain(w)
      PROVE  (OneAtATime \/ crowded)'
  BY <1>12, LockDomainEffect DEF OneAtATime, Busy
<1>13. ASSUME NEW w \in Workers, CommitRejection(w)
      PROVE  (OneAtATime \/ crowded)'
  BY <1>13, CommitRejectionEffect DEF OneAtATime, Busy
<1>14. ASSUME NEW w \in Workers, RenewAtRegistrar(w)
      PROVE  (OneAtATime \/ crowded)'
  BY <1>14, RenewAtRegistrarEffect DEF OneAtATime, Busy
<1>15. ASSUME NEW w \in Workers, RenewalRefused(w)
      PROVE  (OneAtATime \/ crowded)'
  BY <1>15, RenewalRefusedEffect DEF OneAtATime, Busy
<1>16. ASSUME NEW w \in Workers, SaveRenewal(w)
      PROVE  (OneAtATime \/ crowded)'
  BY <1>16, SaveRenewalEffect DEF OneAtATime, Busy
<1>17. ASSUME NEW w \in Workers, CompareExpiry(w)
      PROVE  (OneAtATime \/ crowded)'
  BY <1>17, CompareExpiryEffect DEF OneAtATime, Busy
<1>18. ASSUME NEW w \in Workers, SyncExpiry(w)
      PROVE  (OneAtATime \/ crowded)'
  BY <1>18, SyncExpiryEffect DEF OneAtATime, Busy
<1>19. ASSUME NEW w \in Workers, ApplySetting(w)
      PROVE  (OneAtATime \/ crowded)'
  BY <1>19, ApplySettingEffect DEF OneAtATime, Busy
<1>20. ASSUME NEW w \in Workers, SettingRefused(w)
      PROVE  (OneAtATime \/ crowded)'
  BY <1>20, SettingRefusedEffect DEF OneAtATime, Busy
<1>21. ASSUME NEW w \in Workers, SettingFails(w)
      PROVE  (OneAtATime \/ crowded)'
  BY <1>21, SettingFailsEffect DEF OneAtATime, Busy
<1>22. ASSUME NEW w \in Workers, SaveSetting(w)
      PROVE  (OneAtATime \/ crowded)'
  BY <1>22, SaveSettingEffect DEF OneAtATime, Busy
<1>23. ASSUME NEW w \in Workers, MarkDeleted(w)
      PROVE  (OneAtATime \/ crowded)'
  BY <1>23, MarkDeletedEffect DEF OneAtATime, Busy
<1>24. ASSUME NEW w \in Workers, TransferDomain(w)
      PROVE  (OneAtATime \/ crowded)'
  BY <1>24, TransferDomainEffect DEF OneAtATime, Busy
<1>25. ASSUME NEW w \in Workers, TransferRefused(w)
      PROVE  (OneAtATime \/ crowded)'
  BY <1>25, TransferRefusedEffect DEF OneAtATime, Busy
<1>26. ASSUME NEW w \in Workers, CreateTransfer(w)
      PROVE  (OneAtATime \/ crowded)'
  BY <1>26, CreateTransferEffect DEF OneAtATime, Busy
<1>27. ASSUME NEW w \in Workers, CheckTransfer(w)
      PROVE  (OneAtATime \/ crowded)'
  BY <1>27, CheckTransferEffect DEF OneAtATime, Busy
<1>28. ASSUME NEW w \in Workers, CompleteTransfer(w)
      PROVE  (OneAtATime \/ crowded)'
  BY <1>28, CompleteTransferEffect DEF OneAtATime, Busy
<1>29. ASSUME NEW w \in Workers, RegisterBlocked(w)
      PROVE  (OneAtATime \/ crowded)'
  BY <1>29, RegisterBlockedEffect DEF OneAtATime, Busy
<1>30. ASSUME NEW w \in Workers, BlockRefused(w)
      PROVE  (OneAtATime \/ crowded)'
  BY <1>30, BlockRefusedEffect DEF OneAtATime, Busy
<1>31. ASSUME NEW w \in Workers, CreateBlocked(w)
      PROVE  (OneAtATime \/ crowded)'
  BY <1>31, CreateBlockedEffect DEF OneAtATime, Busy
<1>32. ASSUME NEW w \in Workers, Fail(w)
      PROVE  (OneAtATime \/ crowded)'
  BY <1>32, FailEffect DEF OneAtATime, Busy
<1>33. ASSUME NEW w \in Workers, ClaimRegistration(w)
      PROVE  (OneAtATime \/ crowded)'
  BY <1>33, ClaimRegistrationEffect DEF OneAtATime, Busy
<1>34. ASSUME NEW w \in Workers, RejectRegistration(w)
      PROVE  (OneAtATime \/ crowded)'
  BY <1>34, RejectRegistrationEffect DEF OneAtATime, Busy
<1>35. ASSUME NEW w \in Workers, NEW u \in Users, NEW d \in NameServers,
             RequestRegistration(w, u, d)
      PROVE  (OneAtATime \/ crowded)'
  BY <1>35, RequestRegistrationEffect DEF OneAtATime, Busy
<1>36. ASSUME NEW w \in Workers, NEW u \in Users, RenewDomain(w, u)
      PROVE  (OneAtATime \/ crowded)'
  BY <1>36, RenewDomainEffect DEF OneAtATime, Busy
<1>37. ASSUME NEW w \in Workers, NEW u \in Users, GetDomain(w, u)
      PROVE  (OneAtATime \/ crowded)'
  BY <1>37, GetDomainEffect DEF OneAtATime, Busy
<1>38. ASSUME NEW w \in Workers, NEW u \in Users, DeleteDomain(w, u)
      PROVE  (OneAtATime \/ crowded)'
  BY <1>38, DeleteDomainEffect DEF OneAtATime, Busy
<1>39. ASSUME NEW w \in Workers, NEW u \in Users, InitiateTransfer(w, u)
      PROVE  (OneAtATime \/ crowded)'
  BY <1>39, InitiateTransferEffect DEF OneAtATime, Busy
<1>40. ASSUME NEW w \in Workers, NEW u \in Users, GetTransferStatus(w, u)
      PROVE  (OneAtATime \/ crowded)'
  BY <1>40, GetTransferStatusEffect DEF OneAtATime, Busy
<1>41. ASSUME NEW w \in Workers, NEW u \in Users, CancelTransfer(w, u)
      PROVE  (OneAtATime \/ crowded)'
  BY <1>41, CancelTransferEffect DEF OneAtATime, Busy
<1>42. ASSUME NEW w \in Workers, NEW u \in Users, BlockDomain(w, u)
      PROVE  (OneAtATime \/ crowded)'
  BY <1>42, BlockDomainEffect DEF OneAtATime, Busy
<1>43. ASSUME NEW w \in Workers, NEW u \in Users, NEW k \in Settings, NEW v \in Choices(k),
             NEW b \in BOOLEAN, ToggleSetting(w, u, k, v, b)
      PROVE  (OneAtATime \/ crowded)'
  BY <1>43, ToggleSettingEffect DEF OneAtATime, Busy
<1>44. ASSUME TakenElsewhere
      PROVE  (OneAtATime \/ crowded)'
  BY <1>44, TakenElsewhereEffect DEF OneAtATime, Busy
<1>45. ASSUME TransferArrives
      PROVE  (OneAtATime \/ crowded)'
  BY <1>45, TransferArrivesEffect DEF OneAtATime, Busy
<1>46. ASSUME TransferDenied
      PROVE  (OneAtATime \/ crowded)'
  BY <1>46, TransferDeniedEffect DEF OneAtATime, Busy
<1>47. QED
  BY <1>1, <1>2, <1>3, <1>4, <1>5, <1>6, <1>7, <1>8, <1>9, <1>10, <1>11, <1>12, <1>13,
      <1>14, <1>15, <1>16, <1>17, <1>18, <1>19, <1>20, <1>21, <1>22, <1>23, <1>24, <1>25,
          <1>26, <1>27, <1>28, <1>29, <1>30, <1>31, <1>32, <1>33, <1>34, <1>35, <1>36,
              <1>37, <1>38, <1>39, <1>40, <1>41, <1>42, <1>43, <1>44, <1>45, <1>46
     DEF DomainNext, World, StartHandler, Continue

\* A handler that has the name to itself finds the row as it has read it.
LEMMA FreshStep ==
    ASSUME DomainTypeOK, crowded \/ (OneAtATime /\ ReadsAreFresh), DomainNext
    PROVE  crowded' \/ ReadsAreFresh'
<1>1. ASSUME NEW w \in Workers, VerifyAvailable(w)
      PROVE  crowded' \/ ReadsAreFresh'
  BY <1>1, VerifyAvailableEffect DEF OneAtATime, ReadsAreFresh, Busy, AtStep, At,
      Approving, Live
<1>2. ASSUME NEW w \in Workers, ParkRequest(w)
      PROVE  crowded' \/ ReadsAreFresh'
  BY <1>2, ParkRequestEffect DEF OneAtATime, ReadsAreFresh, Busy, AtStep, At, Approving,
      Live
<1>3. ASSUME NEW w \in Workers, Reverify(w)
      PROVE  crowded' \/ ReadsAreFresh'
  BY <1>3, ReverifyEffect DEF OneAtATime, ReadsAreFresh, Busy, AtStep, At, Approving, Live
<1>4. ASSUME NEW w \in Workers, ReverifyFails(w)
      PROVE  crowded' \/ ReadsAreFresh'
  BY <1>4, ReverifyFailsEffect DEF OneAtATime, ReadsAreFresh, Busy, AtStep, At,
      Approving, Live
<1>5. ASSUME NEW w \in Workers, RegisterDomain(w)
      PROVE  crowded' \/ ReadsAreFresh'
  BY <1>5, RegisterDomainEffect DEF OneAtATime, ReadsAreFresh, Busy, AtStep, At,
      Approving, Live
<1>6. ASSUME NEW w \in Workers, RegistrationRefused(w)
      PROVE  crowded' \/ ReadsAreFresh'
  BY <1>6, RegistrationRefusedEffect DEF OneAtATime, ReadsAreFresh, Busy, AtStep, At,
      Approving, Live
<1>7. ASSUME NEW w \in Workers, RegistrationUnanswered(w)
      PROVE  crowded' \/ ReadsAreFresh'
  BY <1>7, RegistrationUnansweredEffect DEF OneAtATime, ReadsAreFresh, Busy, AtStep, At,
      Approving, Live
<1>8. ASSUME NEW w \in Workers, MarkRejected(w)
      PROVE  crowded' \/ ReadsAreFresh'
  BY <1>8, MarkRejectedEffect DEF OneAtATime, ReadsAreFresh, Busy, AtStep, At, Approving,
      Live
<1>9. ASSUME NEW w \in Workers, MarkRejectedFails(w)
      PROVE  crowded' \/ ReadsAreFresh'
  BY <1>9, MarkRejectedFailsEffect DEF OneAtATime, ReadsAreFresh, Busy, AtStep, At,
      Approving, Live
<1>10. ASSUME NEW w \in Workers, ReleaseRegistration(w)
      PROVE  crowded' \/ ReadsAreFresh'
  BY <1>10, ReleaseRegistrationEffect DEF OneAtATime, ReadsAreFresh, Busy, AtStep, At,
      Approving, Live
<1>11. ASSUME NEW w \in Workers, ActivateDomain(w)
      PROVE  crowded' \/ ReadsAreFresh'
  BY <1>11, ActivateDomainEffect DEF OneAtATime, ReadsAreFresh, Busy, AtStep, At,
      Approving, Live
<1>12. ASSUME NEW w \in Workers, LockDomain(w)
      PROVE  crowded' \/ ReadsAreFresh'
  BY <1>12, LockDomainEffect DEF OneAtATime, ReadsAreFresh, Busy, AtStep, At, Approving,
      Live
<1>13. ASSUME NEW w \in Workers, CommitRejection(w)
      PROVE  crowded' \/ ReadsAreFresh'
  BY <1>13, CommitRejectionEffect DEF OneAtATime, ReadsAreFresh, Busy, AtStep, At,
      Approving, Live
<1>14. ASSUME NEW w \in Workers, RenewAtRegistrar(w)
      PROVE  crowded' \/ ReadsAreFresh'
  BY <1>14, RenewAtRegistrarEffect DEF OneAtATime, ReadsAreFresh, Busy, AtStep, At,
      Approving, Live
<1>15. ASSUME NEW w \in Workers, RenewalRefused(w)
      PROVE  crowded' \/ ReadsAreFresh'
  BY <1>15, RenewalRefusedEffect DEF OneAtATime, ReadsAreFresh, Busy, AtStep, At,
      Approving, Live
<1>16. ASSUME NEW w \in Workers, SaveRenewal(w)
      PROVE  crowded' \/ ReadsAreFresh'
  BY <1>16, SaveRenewalEffect DEF OneAtATime, ReadsAreFresh, Busy, AtStep, At, Approving,
      Live
<1>17. ASSUME NEW w \in Workers, CompareExpiry(w)
      PROVE  crowded' \/ ReadsAreFresh'
  BY <1>17, CompareExpiryEffect DEF OneAtATime, ReadsAreFresh, Busy, AtStep, At,
      Approving, Live
<1>18. ASSUME NEW w \in Workers, SyncExpiry(w)
      PROVE  crowded' \/ ReadsAreFresh'
  BY <1>18, SyncExpiryEffect DEF OneAtATime, ReadsAreFresh, Busy, AtStep, At, Approving,
      Live
<1>19. ASSUME NEW w \in Workers, ApplySetting(w)
      PROVE  crowded' \/ ReadsAreFresh'
  BY <1>19, ApplySettingEffect DEF OneAtATime, ReadsAreFresh, Busy, AtStep, At,
      Approving, Live
<1>20. ASSUME NEW w \in Workers, SettingRefused(w)
      PROVE  crowded' \/ ReadsAreFresh'
  BY <1>20, SettingRefusedEffect DEF OneAtATime, ReadsAreFresh, Busy, AtStep, At,
      Approving, Live
<1>21. ASSUME NEW w \in Workers, SettingFails(w)
      PROVE  crowded' \/ ReadsAreFresh'
  BY <1>21, SettingFailsEffect DEF OneAtATime, ReadsAreFresh, Busy, AtStep, At,
      Approving, Live
<1>22. ASSUME NEW w \in Workers, SaveSetting(w)
      PROVE  crowded' \/ ReadsAreFresh'
  BY <1>22, SaveSettingEffect DEF OneAtATime, ReadsAreFresh, Busy, AtStep, At, Approving,
      Live
<1>23. ASSUME NEW w \in Workers, MarkDeleted(w)
      PROVE  crowded' \/ ReadsAreFresh'
  BY <1>23, MarkDeletedEffect DEF OneAtATime, ReadsAreFresh, Busy, AtStep, At, Approving,
      Live
<1>24. ASSUME NEW w \in Workers, TransferDomain(w)
      PROVE  crowded' \/ ReadsAreFresh'
  BY <1>24, TransferDomainEffect DEF OneAtATime, ReadsAreFresh, Busy, AtStep, At,
      Approving, Live
<1>25. ASSUME NEW w \in Workers, TransferRefused(w)
      PROVE  crowded' \/ ReadsAreFresh'
  BY <1>25, TransferRefusedEffect DEF OneAtATime, ReadsAreFresh, Busy, AtStep, At,
      Approving, Live
<1>26. ASSUME NEW w \in Workers, CreateTransfer(w)
      PROVE  crowded' \/ ReadsAreFresh'
  BY <1>26, CreateTransferEffect DEF OneAtATime, ReadsAreFresh, Busy, AtStep, At,
      Approving, Live
<1>27. ASSUME NEW w \in Workers, CheckTransfer(w)
      PROVE  crowded' \/ ReadsAreFresh'
  BY <1>27, CheckTransferEffect DEF OneAtATime, ReadsAreFresh, Busy, AtStep, At,
      Approving, Live
<1>28. ASSUME NEW w \in Workers, CompleteTransfer(w)
      PROVE  crowded' \/ ReadsAreFresh'
  BY <1>28, CompleteTransferEffect DEF OneAtATime, ReadsAreFresh, Busy, AtStep, At,
      Approving, Live
<1>29. ASSUME NEW w \in Workers, RegisterBlocked(w)
      PROVE  crowded' \/ ReadsAreFresh'
  BY <1>29, RegisterBlockedEffect DEF OneAtATime, ReadsAreFresh, Busy, AtStep, At,
      Approving, Live
<1>30. ASSUME NEW w \in Workers, BlockRefused(w)
      PROVE  crowded' \/ ReadsAreFresh'
  BY <1>30, BlockRefusedEffect DEF OneAtATime, ReadsAreFresh, Busy, AtStep, At,
      Approving, Live
<1>31. ASSUME NEW w \in Workers, CreateBlocked(w)
      PROVE  crowded' \/ ReadsAreFresh'
  BY <1>31, CreateBlockedEffect DEF OneAtATime, ReadsAreFresh, Busy, AtStep, At,
      Approving, Live
<1>32. ASSUME NEW w \in Workers, Fail(w)
      PROVE  crowded' \/ ReadsAreFresh'
  BY <1>32, FailEffect DEF OneAtATime, ReadsAreFresh, Busy, AtStep, At, Approving, Live
<1>33. ASSUME NEW w \in Workers, ClaimRegistration(w)
      PROVE  crowded' \/ ReadsAreFresh'
  BY <1>33, ClaimRegistrationEffect DEF OneAtATime, ReadsAreFresh, Busy, AtStep, At,
      Approving, Live
<1>34. ASSUME NEW w \in Workers, RejectRegistration(w)
      PROVE  crowded' \/ ReadsAreFresh'
  BY <1>34, RejectRegistrationEffect DEF OneAtATime, ReadsAreFresh, Busy, AtStep, At,
      Approving, Live
<1>35. ASSUME NEW w \in Workers, NEW u \in Users, NEW d \in NameServers,
             RequestRegistration(w, u, d)
      PROVE  crowded' \/ ReadsAreFresh'
  BY <1>35, RequestRegistrationEffect DEF OneAtATime, ReadsAreFresh, Busy, AtStep, At,
      Approving, Live
<1>36. ASSUME NEW w \in Workers, NEW u \in Users, RenewDomain(w, u)
      PROVE  crowded' \/ ReadsAreFresh'
  BY <1>36, RenewDomainEffect DEF OneAtATime, ReadsAreFresh, Busy, AtStep, At, Approving,
      Live
<1>37. ASSUME NEW w \in Workers, NEW u \in Users, GetDomain(w, u)
      PROVE  crowded' \/ ReadsAreFresh'
  BY <1>37, GetDomainEffect DEF OneAtATime, ReadsAreFresh, Busy, AtStep, At, Approving, Live
<1>38. ASSUME NEW w \in Workers, NEW u \in Users, DeleteDomain(w, u)
      PROVE  crowded' \/ ReadsAreFresh'
  BY <1>38, DeleteDomainEffect DEF OneAtATime, ReadsAreFresh, Busy, AtStep, At,
      Approving, Live
<1>39. ASSUME NEW w \in Workers, NEW u \in Users, InitiateTransfer(w, u)
      PROVE  crowded' \/ ReadsAreFresh'
  BY <1>39, InitiateTransferEffect DEF OneAtATime, ReadsAreFresh, Busy, AtStep, At,
      Approving, Live
<1>40. ASSUME NEW w \in Workers, NEW u \in Users, GetTransferStatus(w, u)
      PROVE  crowded' \/ ReadsAreFresh'
  BY <1>40, GetTransferStatusEffect DEF OneAtATime, ReadsAreFresh, Busy, AtStep, At,
      Approving, Live
<1>41. ASSUME NEW w \in Workers, NEW u \in Users, CancelTransfer(w, u)
      PROVE  crowded' \/ ReadsAreFresh'
  BY <1>41, CancelTransferEffect DEF OneAtATime, ReadsAreFresh, Busy, AtStep, At,
      Approving, Live
<1>42. ASSUME NEW w \in Workers, NEW u \in Users, BlockDomain(w, u)
      PROVE  crowded' \/ ReadsAreFresh'
  BY <1>42, BlockDomainEffect DEF OneAtATime, ReadsAreFresh, Busy, AtStep, At, Approving,
      Live
<1>43. ASSUME NEW w \in Workers, NEW u \in Users, NEW k \in Settings, NEW v \in Choices(k),
             NEW b \in BOOLEAN, ToggleSetting(w, u, k, v, b)
      PROVE  crowded' \/ ReadsAreFresh'
  BY <1>43, ToggleSettingEffect DEF OneAtATime, ReadsAreFresh, Busy, AtStep, At,
      Approving, Live
<1>44. ASSUME TakenElsewhere
      PROVE  crowded' \/ ReadsAreFresh'
  BY <1>44, TakenElsewhereEffect DEF OneAtATime, ReadsAreFresh, Busy, AtStep, At,
      Approving, Live
<1>45. ASSUME TransferArrives
      PROVE  crowded' \/ ReadsAreFresh'
  BY <1>45, TransferArrivesEffect DEF OneAtATime, ReadsAreFresh, Busy, AtStep, At,
      Approving, Live
<1>46. ASSUME TransferDenied
      PROVE  crowded' \/ ReadsAreFresh'
  BY <1>46, TransferDeniedEffect DEF OneAtATime, ReadsAreFresh, Busy, AtStep, At,
      Approving, Live
<1>47. QED
  BY <1>1, <1>2, <1>3, <1>4, <1>5, <1>6, <1>7, <1>8, <1>9, <1>10, <1>11, <1>12, <1>13,
      <1>14, <1>15, <1>16, <1>17, <1>18, <1>19, <1>20, <1>21, <1>22, <1>23, <1>24, <1>25,
          <1>26, <1>27, <1>28, <1>29, <1>30, <1>31, <1>32, <1>33, <1>34, <1>35, <1>36,
              <1>37, <1>38, <1>39, <1>40, <1>41, <1>42, <1>43, <1>44, <1>45, <1>46
     DEF DomainNext, World, StartHandler, Continue

\* Between the payment and its row there is the handler that has paid.
LEMMA PaidStep ==
    ASSUME DomainTypeOK, crowded \/ (OneAtATime /\ ReadsAreFresh), PaidIsOnRecord,
        DomainNext
    PROVE  PaidIsOnRecord'
<1>1. ASSUME NEW w \in Workers, VerifyAvailable(w)
      PROVE  PaidIsOnRecord'
  BY <1>1, VerifyAvailableEffect DEF PaidIsOnRecord, OneAtATime, ReadsAreFresh, Busy,
      AtStep, At, Approving, Live, OnRecord, Held
<1>2. ASSUME NEW w \in Workers, ParkRequest(w)
      PROVE  PaidIsOnRecord'
  BY <1>2, ParkRequestEffect DEF PaidIsOnRecord, OneAtATime, ReadsAreFresh, Busy, AtStep,
      At, Approving, Live, OnRecord, Held
<1>3. ASSUME NEW w \in Workers, Reverify(w)
      PROVE  PaidIsOnRecord'
  BY <1>3, ReverifyEffect DEF PaidIsOnRecord, OneAtATime, ReadsAreFresh, Busy, AtStep,
      At, Approving, Live, OnRecord, Held
<1>4. ASSUME NEW w \in Workers, ReverifyFails(w)
      PROVE  PaidIsOnRecord'
  BY <1>4, ReverifyFailsEffect DEF PaidIsOnRecord, OneAtATime, ReadsAreFresh, Busy,
      AtStep, At, Approving, Live, OnRecord, Held
<1>5. ASSUME NEW w \in Workers, RegisterDomain(w)
      PROVE  PaidIsOnRecord'
  BY <1>5, RegisterDomainEffect DEF PaidIsOnRecord, OneAtATime, ReadsAreFresh, Busy,
      AtStep, At, Approving, Live, OnRecord, Held
<1>6. ASSUME NEW w \in Workers, RegistrationRefused(w)
      PROVE  PaidIsOnRecord'
  BY <1>6, RegistrationRefusedEffect DEF PaidIsOnRecord, OneAtATime, ReadsAreFresh, Busy,
      AtStep, At, Approving, Live, OnRecord, Held
<1>7. ASSUME NEW w \in Workers, RegistrationUnanswered(w)
      PROVE  PaidIsOnRecord'
  BY <1>7, RegistrationUnansweredEffect DEF PaidIsOnRecord, OneAtATime, ReadsAreFresh,
      Busy, AtStep, At, Approving, Live, OnRecord, Held
<1>8. ASSUME NEW w \in Workers, MarkRejected(w)
      PROVE  PaidIsOnRecord'
  BY <1>8, MarkRejectedEffect DEF PaidIsOnRecord, OneAtATime, ReadsAreFresh, Busy,
      AtStep, At, Approving, Live, OnRecord, Held
<1>9. ASSUME NEW w \in Workers, MarkRejectedFails(w)
      PROVE  PaidIsOnRecord'
  BY <1>9, MarkRejectedFailsEffect DEF PaidIsOnRecord, OneAtATime, ReadsAreFresh, Busy,
      AtStep, At, Approving, Live, OnRecord, Held
<1>10. ASSUME NEW w \in Workers, ReleaseRegistration(w)
      PROVE  PaidIsOnRecord'
  BY <1>10, ReleaseRegistrationEffect DEF PaidIsOnRecord, OneAtATime, ReadsAreFresh,
      Busy, AtStep, At, Approving, Live, OnRecord, Held
<1>11. ASSUME NEW w \in Workers, ActivateDomain(w)
      PROVE  PaidIsOnRecord'
  BY <1>11, ActivateDomainEffect DEF PaidIsOnRecord, OneAtATime, ReadsAreFresh, Busy,
      AtStep, At, Approving, Live, OnRecord, Held
<1>12. ASSUME NEW w \in Workers, LockDomain(w)
      PROVE  PaidIsOnRecord'
  BY <1>12, LockDomainEffect DEF PaidIsOnRecord, OneAtATime, ReadsAreFresh, Busy, AtStep,
      At, Approving, Live, OnRecord, Held
<1>13. ASSUME NEW w \in Workers, CommitRejection(w)
      PROVE  PaidIsOnRecord'
  BY <1>13, CommitRejectionEffect DEF PaidIsOnRecord, OneAtATime, ReadsAreFresh, Busy,
      AtStep, At, Approving, Live, OnRecord, Held
<1>14. ASSUME NEW w \in Workers, RenewAtRegistrar(w)
      PROVE  PaidIsOnRecord'
  BY <1>14, RenewAtRegistrarEffect DEF PaidIsOnRecord, OneAtATime, ReadsAreFresh, Busy,
      AtStep, At, Approving, Live, OnRecord, Held
<1>15. ASSUME NEW w \in Workers, RenewalRefused(w)
      PROVE  PaidIsOnRecord'
  BY <1>15, RenewalRefusedEffect DEF PaidIsOnRecord, OneAtATime, ReadsAreFresh, Busy,
      AtStep, At, Approving, Live, OnRecord, Held
<1>16. ASSUME NEW w \in Workers, SaveRenewal(w)
      PROVE  PaidIsOnRecord'
  BY <1>16, SaveRenewalEffect DEF PaidIsOnRecord, OneAtATime, ReadsAreFresh, Busy,
      AtStep, At, Approving, Live, OnRecord, Held
<1>17. ASSUME NEW w \in Workers, CompareExpiry(w)
      PROVE  PaidIsOnRecord'
  BY <1>17, CompareExpiryEffect DEF PaidIsOnRecord, OneAtATime, ReadsAreFresh, Busy,
      AtStep, At, Approving, Live, OnRecord, Held
<1>18. ASSUME NEW w \in Workers, SyncExpiry(w)
      PROVE  PaidIsOnRecord'
  BY <1>18, SyncExpiryEffect DEF PaidIsOnRecord, OneAtATime, ReadsAreFresh, Busy, AtStep,
      At, Approving, Live, OnRecord, Held
<1>19. ASSUME NEW w \in Workers, ApplySetting(w)
      PROVE  PaidIsOnRecord'
  BY <1>19, ApplySettingEffect DEF PaidIsOnRecord, OneAtATime, ReadsAreFresh, Busy,
      AtStep, At, Approving, Live, OnRecord, Held
<1>20. ASSUME NEW w \in Workers, SettingRefused(w)
      PROVE  PaidIsOnRecord'
  BY <1>20, SettingRefusedEffect DEF PaidIsOnRecord, OneAtATime, ReadsAreFresh, Busy,
      AtStep, At, Approving, Live, OnRecord, Held
<1>21. ASSUME NEW w \in Workers, SettingFails(w)
      PROVE  PaidIsOnRecord'
  BY <1>21, SettingFailsEffect DEF PaidIsOnRecord, OneAtATime, ReadsAreFresh, Busy,
      AtStep, At, Approving, Live, OnRecord, Held
<1>22. ASSUME NEW w \in Workers, SaveSetting(w)
      PROVE  PaidIsOnRecord'
  BY <1>22, SaveSettingEffect DEF PaidIsOnRecord, OneAtATime, ReadsAreFresh, Busy,
      AtStep, At, Approving, Live, OnRecord, Held
<1>23. ASSUME NEW w \in Workers, MarkDeleted(w)
      PROVE  PaidIsOnRecord'
  BY <1>23, MarkDeletedEffect DEF PaidIsOnRecord, OneAtATime, ReadsAreFresh, Busy,
      AtStep, At, Approving, Live, OnRecord, Held
<1>24. ASSUME NEW w \in Workers, TransferDomain(w)
      PROVE  PaidIsOnRecord'
  BY <1>24, TransferDomainEffect DEF PaidIsOnRecord, OneAtATime, ReadsAreFresh, Busy,
      AtStep, At, Approving, Live, OnRecord, Held
<1>25. ASSUME NEW w \in Workers, TransferRefused(w)
      PROVE  PaidIsOnRecord'
  BY <1>25, TransferRefusedEffect DEF PaidIsOnRecord, OneAtATime, ReadsAreFresh, Busy,
      AtStep, At, Approving, Live, OnRecord, Held
<1>26. ASSUME NEW w \in Workers, CreateTransfer(w)
      PROVE  PaidIsOnRecord'
  BY <1>26, CreateTransferEffect DEF PaidIsOnRecord, OneAtATime, ReadsAreFresh, Busy,
      AtStep, At, Approving, Live, OnRecord, Held
<1>27. ASSUME NEW w \in Workers, CheckTransfer(w)
      PROVE  PaidIsOnRecord'
  BY <1>27, CheckTransferEffect DEF PaidIsOnRecord, OneAtATime, ReadsAreFresh, Busy,
      AtStep, At, Approving, Live, OnRecord, Held
<1>28. ASSUME NEW w \in Workers, CompleteTransfer(w)
      PROVE  PaidIsOnRecord'
  BY <1>28, CompleteTransferEffect DEF PaidIsOnRecord, OneAtATime, ReadsAreFresh, Busy,
      AtStep, At, Approving, Live, OnRecord, Held
<1>29. ASSUME NEW w \in Workers, RegisterBlocked(w)
      PROVE  PaidIsOnRecord'
  BY <1>29, RegisterBlockedEffect DEF PaidIsOnRecord, OneAtATime, ReadsAreFresh, Busy,
      AtStep, At, Approving, Live, OnRecord, Held
<1>30. ASSUME NEW w \in Workers, BlockRefused(w)
      PROVE  PaidIsOnRecord'
  BY <1>30, BlockRefusedEffect DEF PaidIsOnRecord, OneAtATime, ReadsAreFresh, Busy,
      AtStep, At, Approving, Live, OnRecord, Held
<1>31. ASSUME NEW w \in Workers, CreateBlocked(w)
      PROVE  PaidIsOnRecord'
  BY <1>31, CreateBlockedEffect DEF PaidIsOnRecord, OneAtATime, ReadsAreFresh, Busy,
      AtStep, At, Approving, Live, OnRecord, Held
<1>32. ASSUME NEW w \in Workers, Fail(w)
      PROVE  PaidIsOnRecord'
  BY <1>32, FailEffect DEF PaidIsOnRecord, OneAtATime, ReadsAreFresh, Busy, AtStep, At,
      Approving, Live, OnRecord, Held
<1>33. ASSUME NEW w \in Workers, ClaimRegistration(w)
      PROVE  PaidIsOnRecord'
  BY <1>33, ClaimRegistrationEffect DEF PaidIsOnRecord, OneAtATime, ReadsAreFresh, Busy,
      AtStep, At, Approving, Live, OnRecord, Held
<1>34. ASSUME NEW w \in Workers, RejectRegistration(w)
      PROVE  PaidIsOnRecord'
  BY <1>34, RejectRegistrationEffect DEF PaidIsOnRecord, OneAtATime, ReadsAreFresh, Busy,
      AtStep, At, Approving, Live, OnRecord, Held
<1>35. ASSUME NEW w \in Workers, NEW u \in Users, NEW d \in NameServers,
             RequestRegistration(w, u, d)
      PROVE  PaidIsOnRecord'
  BY <1>35, RequestRegistrationEffect DEF PaidIsOnRecord, OneAtATime, ReadsAreFresh,
      Busy, AtStep, At, Approving, Live, OnRecord, Held
<1>36. ASSUME NEW w \in Workers, NEW u \in Users, RenewDomain(w, u)
      PROVE  PaidIsOnRecord'
  BY <1>36, RenewDomainEffect DEF PaidIsOnRecord, OneAtATime, ReadsAreFresh, Busy,
      AtStep, At, Approving, Live, OnRecord, Held
<1>37. ASSUME NEW w \in Workers, NEW u \in Users, GetDomain(w, u)
      PROVE  PaidIsOnRecord'
  BY <1>37, GetDomainEffect DEF PaidIsOnRecord, OneAtATime, ReadsAreFresh, Busy, AtStep,
      At, Approving, Live, OnRecord, Held
<1>38. ASSUME NEW w \in Workers, NEW u \in Users, DeleteDomain(w, u)
      PROVE  PaidIsOnRecord'
  BY <1>38, DeleteDomainEffect DEF PaidIsOnRecord, OneAtATime, ReadsAreFresh, Busy,
      AtStep, At, Approving, Live, OnRecord, Held
<1>39. ASSUME NEW w \in Workers, NEW u \in Users, InitiateTransfer(w, u)
      PROVE  PaidIsOnRecord'
  BY <1>39, InitiateTransferEffect DEF PaidIsOnRecord, OneAtATime, ReadsAreFresh, Busy,
      AtStep, At, Approving, Live, OnRecord, Held
<1>40. ASSUME NEW w \in Workers, NEW u \in Users, GetTransferStatus(w, u)
      PROVE  PaidIsOnRecord'
  BY <1>40, GetTransferStatusEffect DEF PaidIsOnRecord, OneAtATime, ReadsAreFresh, Busy,
      AtStep, At, Approving, Live, OnRecord, Held
<1>41. ASSUME NEW w \in Workers, NEW u \in Users, CancelTransfer(w, u)
      PROVE  PaidIsOnRecord'
  BY <1>41, CancelTransferEffect DEF PaidIsOnRecord, OneAtATime, ReadsAreFresh, Busy,
      AtStep, At, Approving, Live, OnRecord, Held
<1>42. ASSUME NEW w \in Workers, NEW u \in Users, BlockDomain(w, u)
      PROVE  PaidIsOnRecord'
  BY <1>42, BlockDomainEffect DEF PaidIsOnRecord, OneAtATime, ReadsAreFresh, Busy,
      AtStep, At, Approving, Live, OnRecord, Held
<1>43. ASSUME NEW w \in Workers, NEW u \in Users, NEW k \in Settings, NEW v \in Choices(k),
             NEW b \in BOOLEAN, ToggleSetting(w, u, k, v, b)
      PROVE  PaidIsOnRecord'
  BY <1>43, ToggleSettingEffect DEF PaidIsOnRecord, OneAtATime, ReadsAreFresh, Busy,
      AtStep, At, Approving, Live, OnRecord, Held
<1>44. ASSUME TakenElsewhere
      PROVE  PaidIsOnRecord'
  BY <1>44, TakenElsewhereEffect DEF PaidIsOnRecord, OneAtATime, ReadsAreFresh, Busy,
      AtStep, At, Approving, Live, OnRecord, Held
<1>45. ASSUME TransferArrives
      PROVE  PaidIsOnRecord'
  BY <1>45, TransferArrivesEffect DEF PaidIsOnRecord, OneAtATime, ReadsAreFresh, Busy,
      AtStep, At, Approving, Live, OnRecord, Held
<1>46. ASSUME TransferDenied
      PROVE  PaidIsOnRecord'
  BY <1>46, TransferDeniedEffect DEF PaidIsOnRecord, OneAtATime, ReadsAreFresh, Busy,
      AtStep, At, Approving, Live, OnRecord, Held
<1>47. QED
  BY <1>1, <1>2, <1>3, <1>4, <1>5, <1>6, <1>7, <1>8, <1>9, <1>10, <1>11, <1>12, <1>13,
      <1>14, <1>15, <1>16, <1>17, <1>18, <1>19, <1>20, <1>21, <1>22, <1>23, <1>24, <1>25,
          <1>26, <1>27, <1>28, <1>29, <1>30, <1>31, <1>32, <1>33, <1>34, <1>35, <1>36,
              <1>37, <1>38, <1>39, <1>40, <1>41, <1>42, <1>43, <1>44, <1>45, <1>46
     DEF DomainNext, World, StartHandler, Continue

\* Between the registrar's settings and the row's there is a handler.
LEMMA SettingsStep ==
    ASSUME DomainTypeOK, crowded \/ (OneAtATime /\ ReadsAreFresh),
        crowded \/ SettingsFollow, DomainNext
    PROVE  crowded' \/ SettingsFollow'
<1>1. ASSUME NEW w \in Workers, VerifyAvailable(w)
      PROVE  crowded' \/ SettingsFollow'
  BY <1>1, VerifyAvailableEffect, Numbers DEF SettingsFollow, InStep, OneAtATime,
      ReadsAreFresh, Busy, AtStep, At, Approving, Live, Held
<1>2. ASSUME NEW w \in Workers, ParkRequest(w)
      PROVE  crowded' \/ SettingsFollow'
  BY <1>2, ParkRequestEffect, Numbers DEF SettingsFollow, InStep, OneAtATime,
      ReadsAreFresh, Busy, AtStep, At, Approving, Live, Held
<1>3. ASSUME NEW w \in Workers, Reverify(w)
      PROVE  crowded' \/ SettingsFollow'
  BY <1>3, ReverifyEffect, Numbers DEF SettingsFollow, InStep, OneAtATime, ReadsAreFresh,
      Busy, AtStep, At, Approving, Live, Held
<1>4. ASSUME NEW w \in Workers, ReverifyFails(w)
      PROVE  crowded' \/ SettingsFollow'
  BY <1>4, ReverifyFailsEffect, Numbers DEF SettingsFollow, InStep, OneAtATime,
      ReadsAreFresh, Busy, AtStep, At, Approving, Live, Held
<1>5. ASSUME NEW w \in Workers, RegisterDomain(w)
      PROVE  crowded' \/ SettingsFollow'
  BY <1>5, RegisterDomainEffect, Numbers DEF SettingsFollow, InStep, OneAtATime,
      ReadsAreFresh, Busy, AtStep, At, Approving, Live, Held
<1>6. ASSUME NEW w \in Workers, RegistrationRefused(w)
      PROVE  crowded' \/ SettingsFollow'
  BY <1>6, RegistrationRefusedEffect, Numbers DEF SettingsFollow, InStep, OneAtATime,
      ReadsAreFresh, Busy, AtStep, At, Approving, Live, Held
<1>7. ASSUME NEW w \in Workers, RegistrationUnanswered(w)
      PROVE  crowded' \/ SettingsFollow'
  BY <1>7, RegistrationUnansweredEffect, Numbers DEF SettingsFollow, InStep, OneAtATime,
      ReadsAreFresh, Busy, AtStep, At, Approving, Live, Held
<1>8. ASSUME NEW w \in Workers, MarkRejected(w)
      PROVE  crowded' \/ SettingsFollow'
  BY <1>8, MarkRejectedEffect, Numbers DEF SettingsFollow, InStep, OneAtATime,
      ReadsAreFresh, Busy, AtStep, At, Approving, Live, Held
<1>9. ASSUME NEW w \in Workers, MarkRejectedFails(w)
      PROVE  crowded' \/ SettingsFollow'
  BY <1>9, MarkRejectedFailsEffect, Numbers DEF SettingsFollow, InStep, OneAtATime,
      ReadsAreFresh, Busy, AtStep, At, Approving, Live, Held
<1>10. ASSUME NEW w \in Workers, ReleaseRegistration(w)
      PROVE  crowded' \/ SettingsFollow'
  BY <1>10, ReleaseRegistrationEffect, Numbers DEF SettingsFollow, InStep, OneAtATime,
      ReadsAreFresh, Busy, AtStep, At, Approving, Live, Held
<1>11. ASSUME NEW w \in Workers, ActivateDomain(w)
      PROVE  crowded' \/ SettingsFollow'
  <2>1. ASSUME ~crowded, ~stray, faults = 0 PROVE ~unsettled' /\ InStep'
    <3>1. \A o \in Workers \ {w} : handler[o].pc = "idle" /\ handler'[o].pc = "idle"
      BY <1>11, <2>1, ActivateDomainEffect DEF OneAtATime, Busy
    <3>2. ~unsettled /\ InStep
      BY <2>1 DEF SettingsFollow
    <3>3. ~unsettled'
      BY <1>11, <2>1, <3>2, ActivateDomainEffect, Numbers
    <3>4. handler'[w].pc = "lock" /\ registrar' = registrar
          /\ domain'.set = Locked(handler[w].v)
      BY <1>11, ActivateDomainEffect
    <3>5. registrar.at = "registered" => registrar.set = Told(Requested(handler[w].v))
      BY <1>11, <3>2, ActivateDomainEffect DEF InStep, AtStep, At
    <3>6. registrar'.at = "registered" => WithLock(registrar'.set) = Told(domain'.set)
      BY <3>4, <3>5, HandlerType, SettingTypes, Telling DEF Locked
    <3>7. InStep'
      BY <3>1, <3>4, <3>6 DEF InStep, AtStep, At
    <3>8. QED
      BY <3>3, <3>7
  <2>2. QED
    BY <1>11, <2>1, ActivateDomainEffect, Numbers DEF SettingsFollow
<1>12. ASSUME NEW w \in Workers, LockDomain(w)
      PROVE  crowded' \/ SettingsFollow'
  <2>1. ASSUME ~crowded, ~stray, faults = 0, faults' = faults PROVE ~unsettled' /\ InStep'
    <3>1. \A o \in Workers \ {w} : handler[o].pc = "idle" /\ handler'[o].pc = "idle"
      BY <1>12, <2>1, LockDomainEffect DEF OneAtATime, Busy
    <3>2. ~unsettled /\ InStep
      BY <2>1 DEF SettingsFollow
    <3>3. ~unsettled'
      BY <1>12, <2>1, <3>2, LockDomainEffect, Numbers
    <3>4. handler[w].pc = "lock" /\ handler'[w].pc = "idle" /\ domain' = domain
          /\ registrar'.at = registrar.at
      BY <1>12, LockDomainEffect
    <3>5. registrar.at = "registered" => WithLock(registrar.set) = Told(domain.set)
      BY <3>2, <3>4 DEF InStep, AtStep, At
    <3>6. ASSUME registrar.at = "registered", faults' = faults 
          PROVE registrar'.set = Told(domain.set)
      <4>1. registrar'.set = WithLock(registrar.set)
        BY <1>12, <3>6, Numbers, RowType DEF LockDomain, Fault, RegistrarRow
      <4>2. QED
        BY <3>5, <3>6, <4>1
    <3>7. ASSUME faults' = faults PROVE InStep'
      <4>1. registrar'.at = "registered" => registrar'.set = Told(domain'.set)
        BY <3>4, <3>5, <3>6, <3>7
      <4>2. QED
        BY <3>1, <3>4, <4>1 DEF InStep, AtStep, At
    <3>8. QED
      BY <2>1, <3>3, <3>7
  <2>2. QED
    BY <1>12, <2>1, LockDomainEffect, Numbers DEF SettingsFollow
<1>13. ASSUME NEW w \in Workers, CommitRejection(w)
      PROVE  crowded' \/ SettingsFollow'
  BY <1>13, CommitRejectionEffect, Numbers DEF SettingsFollow, InStep, OneAtATime,
      ReadsAreFresh, Busy, AtStep, At, Approving, Live, Held
<1>14. ASSUME NEW w \in Workers, RenewAtRegistrar(w)
      PROVE  crowded' \/ SettingsFollow'
  BY <1>14, RenewAtRegistrarEffect, Numbers DEF SettingsFollow, InStep, OneAtATime,
      ReadsAreFresh, Busy, AtStep, At, Approving, Live, Held
<1>15. ASSUME NEW w \in Workers, RenewalRefused(w)
      PROVE  crowded' \/ SettingsFollow'
  BY <1>15, RenewalRefusedEffect, Numbers DEF SettingsFollow, InStep, OneAtATime,
      ReadsAreFresh, Busy, AtStep, At, Approving, Live, Held
<1>16. ASSUME NEW w \in Workers, SaveRenewal(w)
      PROVE  crowded' \/ SettingsFollow'
  BY <1>16, SaveRenewalEffect, Numbers DEF SettingsFollow, InStep, OneAtATime,
      ReadsAreFresh, Busy, AtStep, At, Approving, Live, Held
<1>17. ASSUME NEW w \in Workers, CompareExpiry(w)
      PROVE  crowded' \/ SettingsFollow'
  BY <1>17, CompareExpiryEffect, Numbers DEF SettingsFollow, InStep, OneAtATime,
      ReadsAreFresh, Busy, AtStep, At, Approving, Live, Held
<1>18. ASSUME NEW w \in Workers, SyncExpiry(w)
      PROVE  crowded' \/ SettingsFollow'
  BY <1>18, SyncExpiryEffect, Numbers DEF SettingsFollow, InStep, OneAtATime,
      ReadsAreFresh, Busy, AtStep, At, Approving, Live, Held
<1>19. ASSUME NEW w \in Workers, ApplySetting(w)
      PROVE  crowded' \/ SettingsFollow'
  <2>1. ASSUME ~crowded, ~stray, faults = 0 PROVE ~unsettled' /\ InStep'
    <3>1. \A o \in Workers \ {w} : handler[o].pc = "idle" /\ handler'[o].pc = "idle"
      BY <1>19, <2>1, ApplySettingEffect DEF OneAtATime, Busy
    <3>2. ~unsettled /\ InStep
      BY <2>1 DEF SettingsFollow
    <3>3. ~unsettled'
      BY <1>19, <2>1, <3>2, ApplySettingEffect, Numbers
    <3>4. registrar'.set = [registrar.set EXCEPT ![handler[w].k] = Sent(handler[w].v)]
      BY <1>19, RowType DEF ApplySetting, RegistrarRow
    <3>5. handler[w].pc = "toggle" /\ handler'[w].pc = "saveSetting" /\ domain' = domain
          /\ registrar'.at = registrar.at
      BY <1>19, ApplySettingEffect
    <3>6. registrar.at = "registered" => registrar.set = Told(domain.set)
      BY <3>1, <3>2, <3>5 DEF InStep
    <3>7. handler'[w].k = handler[w].k /\ handler'[w].v = handler[w].v
      BY <1>19, MovesTo DEF ApplySetting
    <3>8. registrar'.at = "registered" =>
              registrar'.set = Told([domain'.set EXCEPT ![handler'[w].k] = handler'[w].v])
      BY <3>4, <3>5, <3>6, <3>7, HandlerType, RowType, Telling
    <3>9. InStep'
      BY <3>1, <3>5, <3>8 DEF InStep, AtStep, At
    <3>10. QED
      BY <3>3, <3>9
  <2>2. QED
    BY <1>19, <2>1, ApplySettingEffect, Numbers DEF SettingsFollow
<1>20. ASSUME NEW w \in Workers, SettingRefused(w)
      PROVE  crowded' \/ SettingsFollow'
  BY <1>20, SettingRefusedEffect, Numbers DEF SettingsFollow, InStep, OneAtATime,
      ReadsAreFresh, Busy, AtStep, At, Approving, Live, Held
<1>21. ASSUME NEW w \in Workers, SettingFails(w)
      PROVE  crowded' \/ SettingsFollow'
  BY <1>21, SettingFailsEffect, Numbers DEF SettingsFollow, InStep, OneAtATime,
      ReadsAreFresh, Busy, AtStep, At, Approving, Live, Held
<1>22. ASSUME NEW w \in Workers, SaveSetting(w)
      PROVE  crowded' \/ SettingsFollow'
  <2>1. ASSUME ~crowded, ~stray, faults = 0 PROVE ~unsettled' /\ InStep'
    <3>1. \A o \in Workers \ {w} : handler[o].pc = "idle" /\ handler'[o].pc = "idle"
      BY <1>22, <2>1, SaveSettingEffect DEF OneAtATime, Busy
    <3>2. ~unsettled /\ InStep
      BY <2>1 DEF SettingsFollow
    <3>3. ~unsettled'
      BY <1>22, <2>1, <3>2, SaveSettingEffect, Numbers
    <3>4. domain'.set = [domain.set EXCEPT ![handler[w].k] = handler[w].v]
      BY <1>22, RowType DEF SaveSetting, WriteRow, DomainRow
    <3>5. handler'[w].pc = "idle" /\ registrar' = registrar
      BY <1>22, SaveSettingEffect
    <3>6. registrar.at = "registered" =>
              registrar.set = Told([domain.set EXCEPT ![handler[w].k] = handler[w].v])
      BY <1>22, <3>2, SaveSettingEffect DEF InStep, AtStep, At
    <3>7. registrar'.at = "registered" => registrar'.set = Told(domain'.set)
      BY <3>4, <3>5, <3>6
    <3>8. InStep'
      BY <3>1, <3>5, <3>7 DEF InStep, AtStep, At
    <3>9. QED
      BY <3>3, <3>8
  <2>2. QED
    BY <1>22, <2>1, SaveSettingEffect, Numbers DEF SettingsFollow
<1>23. ASSUME NEW w \in Workers, MarkDeleted(w)
      PROVE  crowded' \/ SettingsFollow'
  BY <1>23, MarkDeletedEffect, Numbers DEF SettingsFollow, InStep, OneAtATime,
      ReadsAreFresh, Busy, AtStep, At, Approving, Live, Held
<1>24. ASSUME NEW w \in Workers, TransferDomain(w)
      PROVE  crowded' \/ SettingsFollow'
  BY <1>24, TransferDomainEffect, Numbers DEF SettingsFollow, InStep, OneAtATime,
      ReadsAreFresh, Busy, AtStep, At, Approving, Live, Held
<1>25. ASSUME NEW w \in Workers, TransferRefused(w)
      PROVE  crowded' \/ SettingsFollow'
  BY <1>25, TransferRefusedEffect, Numbers DEF SettingsFollow, InStep, OneAtATime,
      ReadsAreFresh, Busy, AtStep, At, Approving, Live, Held
<1>26. ASSUME NEW w \in Workers, CreateTransfer(w)
      PROVE  crowded' \/ SettingsFollow'
  <2>1. ASSUME ~crowded, ~stray', faults = 0 PROVE ~unsettled' /\ InStep'
    <3>1. \A o \in Workers \ {w} : handler[o].pc = "idle" /\ handler'[o].pc = "idle"
      BY <1>26, <2>1, CreateTransferEffect DEF OneAtATime, Busy
    <3>2. ~unsettled /\ InStep
      BY <1>26, <2>1, CreateTransferEffect DEF SettingsFollow
    <3>3. ~unsettled'
      BY <1>26, <2>1, <3>2, CreateTransferEffect, Numbers
    <3>4. registrar'.at # "registered"
      BY <1>26, <2>1, CreateTransferEffect DEF ReadsAreFresh, AtStep, At
    <3>5. QED
      BY <3>3, <3>4 DEF InStep
  <2>2. QED
    BY <1>26, <2>1, CreateTransferEffect, Numbers DEF SettingsFollow
<1>27. ASSUME NEW w \in Workers, CheckTransfer(w)
      PROVE  crowded' \/ SettingsFollow'
  BY <1>27, CheckTransferEffect, Numbers DEF SettingsFollow, InStep, OneAtATime,
      ReadsAreFresh, Busy, AtStep, At, Approving, Live, Held
<1>28. ASSUME NEW w \in Workers, CompleteTransfer(w)
      PROVE  crowded' \/ SettingsFollow'
  BY <1>28, CompleteTransferEffect, Numbers DEF SettingsFollow, InStep, OneAtATime,
      ReadsAreFresh, Busy, AtStep, At, Approving, Live, Held
<1>29. ASSUME NEW w \in Workers, RegisterBlocked(w)
      PROVE  crowded' \/ SettingsFollow'
  BY <1>29, RegisterBlockedEffect, Numbers DEF SettingsFollow, InStep, OneAtATime,
      ReadsAreFresh, Busy, AtStep, At, Approving, Live, Held
<1>30. ASSUME NEW w \in Workers, BlockRefused(w)
      PROVE  crowded' \/ SettingsFollow'
  BY <1>30, BlockRefusedEffect, Numbers DEF SettingsFollow, InStep, OneAtATime,
      ReadsAreFresh, Busy, AtStep, At, Approving, Live, Held
<1>31. ASSUME NEW w \in Workers, CreateBlocked(w)
      PROVE  crowded' \/ SettingsFollow'
  <2>1. ASSUME ~crowded, ~stray', faults = 0 PROVE ~unsettled' /\ InStep'
    <3>1. \A o \in Workers \ {w} : handler[o].pc = "idle" /\ handler'[o].pc = "idle"
      BY <1>31, <2>1, CreateBlockedEffect DEF OneAtATime, Busy
    <3>2. handler[w].pc = "createBlocked" /\ handler'[w].pc = "lock"
          /\ domain'.set = Locked("default")
      BY <1>31, <2>1, CreateBlockedEffect
    <3>3. ~unsettled /\ InStep /\ registrar' = registrar /\ unsettled' = unsettled
      BY <1>31, <2>1, CreateBlockedEffect DEF SettingsFollow
    <3>4. registrar'.at = "registered" => WithLock(registrar'.set) = Told(domain'.set)
      <4>1. registrar.at = "registered" => registrar.set = Told(Requested("default"))
        BY <3>2, <3>3 DEF InStep, AtStep, At
      <4>2. QED
        BY <3>2, <3>3, <4>1, Constants, SettingTypes, Telling DEF Locked
    <3>5. InStep'
      BY <3>1, <3>2, <3>4 DEF InStep, AtStep, At
    <3>6. QED
      BY <3>3, <3>5
  <2>2. QED
    BY <1>31, <2>1, CreateBlockedEffect DEF SettingsFollow
<1>32. ASSUME NEW w \in Workers, Fail(w)
      PROVE  crowded' \/ SettingsFollow'
  BY <1>32, FailEffect, Numbers DEF SettingsFollow, InStep, OneAtATime, ReadsAreFresh,
      Busy, AtStep, At, Approving, Live, Held
<1>33. ASSUME NEW w \in Workers, ClaimRegistration(w)
      PROVE  crowded' \/ SettingsFollow'
  BY <1>33, ClaimRegistrationEffect, Numbers DEF SettingsFollow, InStep, OneAtATime,
      ReadsAreFresh, Busy, AtStep, At, Approving, Live, Held
<1>34. ASSUME NEW w \in Workers, RejectRegistration(w)
      PROVE  crowded' \/ SettingsFollow'
  BY <1>34, RejectRegistrationEffect, Numbers DEF SettingsFollow, InStep, OneAtATime,
      ReadsAreFresh, Busy, AtStep, At, Approving, Live, Held
<1>35. ASSUME NEW w \in Workers, NEW u \in Users, NEW d \in NameServers,
             RequestRegistration(w, u, d)
      PROVE  crowded' \/ SettingsFollow'
  BY <1>35, RequestRegistrationEffect, Numbers DEF SettingsFollow, InStep, OneAtATime,
      ReadsAreFresh, Busy, AtStep, At, Approving, Live, Held
<1>36. ASSUME NEW w \in Workers, NEW u \in Users, RenewDomain(w, u)
      PROVE  crowded' \/ SettingsFollow'
  BY <1>36, RenewDomainEffect, Numbers DEF SettingsFollow, InStep, OneAtATime,
      ReadsAreFresh, Busy, AtStep, At, Approving, Live, Held
<1>37. ASSUME NEW w \in Workers, NEW u \in Users, GetDomain(w, u)
      PROVE  crowded' \/ SettingsFollow'
  BY <1>37, GetDomainEffect, Numbers DEF SettingsFollow, InStep, OneAtATime,
      ReadsAreFresh, Busy, AtStep, At, Approving, Live, Held
<1>38. ASSUME NEW w \in Workers, NEW u \in Users, DeleteDomain(w, u)
      PROVE  crowded' \/ SettingsFollow'
  BY <1>38, DeleteDomainEffect, Numbers DEF SettingsFollow, InStep, OneAtATime,
      ReadsAreFresh, Busy, AtStep, At, Approving, Live, Held
<1>39. ASSUME NEW w \in Workers, NEW u \in Users, InitiateTransfer(w, u)
      PROVE  crowded' \/ SettingsFollow'
  BY <1>39, InitiateTransferEffect, Numbers DEF SettingsFollow, InStep, OneAtATime,
      ReadsAreFresh, Busy, AtStep, At, Approving, Live, Held
<1>40. ASSUME NEW w \in Workers, NEW u \in Users, GetTransferStatus(w, u)
      PROVE  crowded' \/ SettingsFollow'
  BY <1>40, GetTransferStatusEffect, Numbers DEF SettingsFollow, InStep, OneAtATime,
      ReadsAreFresh, Busy, AtStep, At, Approving, Live, Held
<1>41. ASSUME NEW w \in Workers, NEW u \in Users, CancelTransfer(w, u)
      PROVE  crowded' \/ SettingsFollow'
  BY <1>41, CancelTransferEffect, Numbers DEF SettingsFollow, InStep, OneAtATime,
      ReadsAreFresh, Busy, AtStep, At, Approving, Live, Held
<1>42. ASSUME NEW w \in Workers, NEW u \in Users, BlockDomain(w, u)
      PROVE  crowded' \/ SettingsFollow'
  BY <1>42, BlockDomainEffect, Numbers DEF SettingsFollow, InStep, OneAtATime,
      ReadsAreFresh, Busy, AtStep, At, Approving, Live, Held
<1>43. ASSUME NEW w \in Workers, NEW u \in Users, NEW k \in Settings, NEW v \in Choices(k),
             NEW b \in BOOLEAN, ToggleSetting(w, u, k, v, b)
      PROVE  crowded' \/ SettingsFollow'
  BY <1>43, ToggleSettingEffect, Numbers DEF SettingsFollow, InStep, OneAtATime,
      ReadsAreFresh, Busy, AtStep, At, Approving, Live, Held
<1>44. ASSUME TakenElsewhere
      PROVE  crowded' \/ SettingsFollow'
  BY <1>44, TakenElsewhereEffect, Numbers DEF SettingsFollow, InStep, OneAtATime,
      ReadsAreFresh, Busy, AtStep, At, Approving, Live, Held
<1>45. ASSUME TransferArrives
      PROVE  crowded' \/ SettingsFollow'
  BY <1>45, TransferArrivesEffect, Numbers DEF SettingsFollow, InStep, OneAtATime,
      ReadsAreFresh, Busy, AtStep, At, Approving, Live, Held
<1>46. ASSUME TransferDenied
      PROVE  crowded' \/ SettingsFollow'
  BY <1>46, TransferDeniedEffect, Numbers DEF SettingsFollow, InStep, OneAtATime,
      ReadsAreFresh, Busy, AtStep, At, Approving, Live, Held
<1>47. QED
  BY <1>1, <1>2, <1>3, <1>4, <1>5, <1>6, <1>7, <1>8, <1>9, <1>10, <1>11, <1>12, <1>13,
      <1>14, <1>15, <1>16, <1>17, <1>18, <1>19, <1>20, <1>21, <1>22, <1>23, <1>24, <1>25,
          <1>26, <1>27, <1>28, <1>29, <1>30, <1>31, <1>32, <1>33, <1>34, <1>35, <1>36,
              <1>37, <1>38, <1>39, <1>40, <1>41, <1>42, <1>43, <1>44, <1>45, <1>46
     DEF DomainNext, World, StartHandler, Continue

--------------------------------------------------------------------------------

LEMMA DomainInvInit == DomainInit => DomainInv
<1>1. SUFFICES ASSUME DomainInit PROVE DomainInv
  OBVIOUS
<1>2. /\ domain.status = "NONE" /\ domain.expiry = 0 /\ domain.set = Requested("default")
      /\ registrar.at \in {"free", "elsewhere"} /\ registrar.expiry = 0
      /\ \A w \in Workers : handler[w].pc = "idle" /\ handler[w].expiry = 0
  BY <1>1 DEF DomainInit, NewRow, IdleHandler
<1>3. ~unsettled
  BY <1>1 DEF DomainInit
<1>4. BehindRegistrar /\ ActiveIsHeld /\ ExpiryNeverAhead /\ ClaimsEnd
  BY <1>2 DEF BehindRegistrar, Held, AtStep, At, ActiveIsHeld, ExpiryNeverAhead, ClaimsEnd
<1>5. OneAtATime /\ ReadsAreFresh
  BY <1>2, <1>3 DEF OneAtATime, Busy, ReadsAreFresh, Approving, AtStep, At
<1>6. PaidIsOnRecord /\ SettingsFollow
  BY <1>2, <1>3 DEF PaidIsOnRecord, SettingsFollow, InStep
<1>7. QED
  BY <1>4, <1>5, <1>6 DEF DomainInv

LEMMA DomainInvStep ==
    ASSUME DomainTypeOK, DomainInv, [DomainNext]_domainVars
    PROVE  DomainTypeOK' /\ DomainInv'
<1>1. /\ BehindRegistrar /\ ActiveIsHeld /\ ExpiryNeverAhead /\ ClaimsEnd
      /\ crowded \/ (OneAtATime /\ ReadsAreFresh)
      /\ OneAtATime \/ crowded
      /\ crowded \/ SettingsFollow
      /\ PaidIsOnRecord
  BY DEF DomainInv, PaidIsOnRecord
<1>2. CASE DomainNext
  <2>1. DomainTypeOK'
    BY <1>1, <1>2, DomainTypeStep
  <2>2. BehindRegistrar' /\ ActiveIsHeld' /\ ExpiryNeverAhead' /\ ClaimsEnd'
    BY <1>1, <1>2, BehindStep, ActiveStep, ExpiryStep, ClaimsStep
  <2>3. (OneAtATime \/ crowded)' /\ (crowded' \/ ReadsAreFresh')
    BY <1>1, <1>2, OneStep, FreshStep
  <2>4. PaidIsOnRecord' /\ (crowded' \/ SettingsFollow')
    BY <1>1, <1>2, PaidStep, SettingsStep
  <2>5. QED
    BY <2>1, <2>2, <2>3, <2>4 DEF DomainInv
<1>3. CASE UNCHANGED domainVars
  BY <1>3 DEF domainVars, DomainTypeOK, DomainInv, BehindRegistrar, ActiveIsHeld,
     ExpiryNeverAhead, ClaimsEnd, OneAtATime, ReadsAreFresh, PaidIsOnRecord,
     SettingsFollow, InStep, Held, Busy, AtStep, At
<1>4. QED
  BY <1>2, <1>3

\* Together with the type invariant, DomainInv is inductive.
THEOREM DomainsCorrect == DomainSpec => [](DomainTypeOK /\ DomainInv)
<1>1. DomainInit => DomainTypeOK /\ DomainInv
  BY DomainTypeInit, DomainInvInit
<1>2. DomainTypeOK /\ DomainInv /\ [DomainNext]_domainVars => (DomainTypeOK /\ DomainInv)'
  BY DomainInvStep
<1>3. QED
  BY <1>1, <1>2, PTL DEF DomainSpec

\* The row, the registrar's record and every handler in progress keep their types: no
\* step of domain.service.ts writes a year beyond what the registrar has.
THEOREM DomainTypeCorrect == DomainSpec => []DomainTypeOK
  BY DomainsCorrect, PTL

\* Whatever overlaps and breaks off, a row shown as active stands for a name in the
\* platform's account (approveDomainRegistration, renewDomain, getTransferStatus,
\* blockDomain).
THEOREM ActiveDomainsAreHeld == DomainSpec => []ActiveIsHeld
<1>1. DomainInv => ActiveIsHeld
  BY DEF DomainInv
<1>2. QED
  BY <1>1, DomainsCorrect, PTL

\* However many renewals and synchronisations of getDomain overlap, no row promises a
\* year that was not paid for at NameSilo.
THEOREM TermsArePaidFor == DomainSpec => []ExpiryNeverAhead
<1>1. DomainInv => ExpiryNeverAhead
  BY DEF DomainInv
<1>2. QED
  BY <1>1, DomainsCorrect, PTL

\* A claimed request is in the hands of an approval or awaits reconciliation
\* (approveDomainRegistration and its catch clause).
THEOREM ClaimsAreKept == DomainSpec => []ClaimsEnd
<1>1. DomainInv => ClaimsEnd
  BY DEF DomainInv
<1>2. QED
  BY <1>1, DomainsCorrect, PTL

\* As long as handlers take turns, a name that was paid for is on record, but for the
\* two cases the services log (initiateDomainTransfer, blockDomain).
THEOREM PaymentsAreOnRecord == DomainSpec => []PaidIsOnRecord
<1>1. DomainInv => PaidIsOnRecord
  BY DEF DomainInv, PaidIsOnRecord
<1>2. QED
  BY <1>1, DomainsCorrect, PTL

\* As long as handlers take turns and no call fails, NameSilo has what it is told of a
\* registered name's row: its settings, and of its name servers the first four
\* (toggleLock, toggleAutoRenew, updateNameservers).
THEOREM SettingsAreInStep == DomainSpec => []SettingsAgree
<1>1. DomainInv => SettingsAgree
  BY DEF DomainInv, SettingsFollow, InStep, SettingsAgree, Busy
<1>2. QED
  BY <1>1, DomainsCorrect, PTL

--------------------------------------------------------------------------------
\* Action properties.

\* Only three writes name a customer, and they find no live row.
LEMMA OwnerStep ==
    ASSUME DomainTypeOK, crowded \/ (OneAtATime /\ ReadsAreFresh), DomainNext
    PROVE  domain.status \in Live /\ domain'.status \in Live /\ ~crowded'
               => domain'.owner = domain.owner
<1>1. ASSUME NEW w \in Workers, VerifyAvailable(w)
      PROVE  domain.status \in Live /\ domain'.status \in Live /\ ~crowded'
               => domain'.owner = domain.owner
  BY <1>1, VerifyAvailableEffect DEF ReadsAreFresh, AtStep, At, Live
<1>2. ASSUME NEW w \in Workers, ParkRequest(w)
      PROVE  domain.status \in Live /\ domain'.status \in Live /\ ~crowded'
               => domain'.owner = domain.owner
  BY <1>2, ParkRequestEffect DEF ReadsAreFresh, AtStep, At, Live
<1>3. ASSUME NEW w \in Workers, Reverify(w)
      PROVE  domain.status \in Live /\ domain'.status \in Live /\ ~crowded'
               => domain'.owner = domain.owner
  BY <1>3, ReverifyEffect DEF ReadsAreFresh, AtStep, At, Live
<1>4. ASSUME NEW w \in Workers, ReverifyFails(w)
      PROVE  domain.status \in Live /\ domain'.status \in Live /\ ~crowded'
               => domain'.owner = domain.owner
  BY <1>4, ReverifyFailsEffect DEF ReadsAreFresh, AtStep, At, Live
<1>5. ASSUME NEW w \in Workers, RegisterDomain(w)
      PROVE  domain.status \in Live /\ domain'.status \in Live /\ ~crowded'
               => domain'.owner = domain.owner
  BY <1>5, RegisterDomainEffect DEF ReadsAreFresh, AtStep, At, Live
<1>6. ASSUME NEW w \in Workers, RegistrationRefused(w)
      PROVE  domain.status \in Live /\ domain'.status \in Live /\ ~crowded'
               => domain'.owner = domain.owner
  BY <1>6, RegistrationRefusedEffect DEF ReadsAreFresh, AtStep, At, Live
<1>7. ASSUME NEW w \in Workers, RegistrationUnanswered(w)
      PROVE  domain.status \in Live /\ domain'.status \in Live /\ ~crowded'
               => domain'.owner = domain.owner
  BY <1>7, RegistrationUnansweredEffect DEF ReadsAreFresh, AtStep, At, Live
<1>8. ASSUME NEW w \in Workers, MarkRejected(w)
      PROVE  domain.status \in Live /\ domain'.status \in Live /\ ~crowded'
               => domain'.owner = domain.owner
  BY <1>8, MarkRejectedEffect DEF ReadsAreFresh, AtStep, At, Live
<1>9. ASSUME NEW w \in Workers, MarkRejectedFails(w)
      PROVE  domain.status \in Live /\ domain'.status \in Live /\ ~crowded'
               => domain'.owner = domain.owner
  BY <1>9, MarkRejectedFailsEffect DEF ReadsAreFresh, AtStep, At, Live
<1>10. ASSUME NEW w \in Workers, ReleaseRegistration(w)
      PROVE  domain.status \in Live /\ domain'.status \in Live /\ ~crowded'
               => domain'.owner = domain.owner
  BY <1>10, ReleaseRegistrationEffect DEF ReadsAreFresh, AtStep, At, Live
<1>11. ASSUME NEW w \in Workers, ActivateDomain(w)
      PROVE  domain.status \in Live /\ domain'.status \in Live /\ ~crowded'
               => domain'.owner = domain.owner
  BY <1>11, ActivateDomainEffect DEF ReadsAreFresh, AtStep, At, Live
<1>12. ASSUME NEW w \in Workers, LockDomain(w)
      PROVE  domain.status \in Live /\ domain'.status \in Live /\ ~crowded'
               => domain'.owner = domain.owner
  BY <1>12, LockDomainEffect DEF ReadsAreFresh, AtStep, At, Live
<1>13. ASSUME NEW w \in Workers, CommitRejection(w)
      PROVE  domain.status \in Live /\ domain'.status \in Live /\ ~crowded'
               => domain'.owner = domain.owner
  BY <1>13, CommitRejectionEffect DEF ReadsAreFresh, AtStep, At, Live
<1>14. ASSUME NEW w \in Workers, RenewAtRegistrar(w)
      PROVE  domain.status \in Live /\ domain'.status \in Live /\ ~crowded'
               => domain'.owner = domain.owner
  BY <1>14, RenewAtRegistrarEffect DEF ReadsAreFresh, AtStep, At, Live
<1>15. ASSUME NEW w \in Workers, RenewalRefused(w)
      PROVE  domain.status \in Live /\ domain'.status \in Live /\ ~crowded'
               => domain'.owner = domain.owner
  BY <1>15, RenewalRefusedEffect DEF ReadsAreFresh, AtStep, At, Live
<1>16. ASSUME NEW w \in Workers, SaveRenewal(w)
      PROVE  domain.status \in Live /\ domain'.status \in Live /\ ~crowded'
               => domain'.owner = domain.owner
  BY <1>16, SaveRenewalEffect DEF ReadsAreFresh, AtStep, At, Live
<1>17. ASSUME NEW w \in Workers, CompareExpiry(w)
      PROVE  domain.status \in Live /\ domain'.status \in Live /\ ~crowded'
               => domain'.owner = domain.owner
  BY <1>17, CompareExpiryEffect DEF ReadsAreFresh, AtStep, At, Live
<1>18. ASSUME NEW w \in Workers, SyncExpiry(w)
      PROVE  domain.status \in Live /\ domain'.status \in Live /\ ~crowded'
               => domain'.owner = domain.owner
  BY <1>18, SyncExpiryEffect DEF ReadsAreFresh, AtStep, At, Live
<1>19. ASSUME NEW w \in Workers, ApplySetting(w)
      PROVE  domain.status \in Live /\ domain'.status \in Live /\ ~crowded'
               => domain'.owner = domain.owner
  BY <1>19, ApplySettingEffect DEF ReadsAreFresh, AtStep, At, Live
<1>20. ASSUME NEW w \in Workers, SettingRefused(w)
      PROVE  domain.status \in Live /\ domain'.status \in Live /\ ~crowded'
               => domain'.owner = domain.owner
  BY <1>20, SettingRefusedEffect DEF ReadsAreFresh, AtStep, At, Live
<1>21. ASSUME NEW w \in Workers, SettingFails(w)
      PROVE  domain.status \in Live /\ domain'.status \in Live /\ ~crowded'
               => domain'.owner = domain.owner
  BY <1>21, SettingFailsEffect DEF ReadsAreFresh, AtStep, At, Live
<1>22. ASSUME NEW w \in Workers, SaveSetting(w)
      PROVE  domain.status \in Live /\ domain'.status \in Live /\ ~crowded'
               => domain'.owner = domain.owner
  BY <1>22, SaveSettingEffect DEF ReadsAreFresh, AtStep, At, Live
<1>23. ASSUME NEW w \in Workers, MarkDeleted(w)
      PROVE  domain.status \in Live /\ domain'.status \in Live /\ ~crowded'
               => domain'.owner = domain.owner
  BY <1>23, MarkDeletedEffect DEF ReadsAreFresh, AtStep, At, Live
<1>24. ASSUME NEW w \in Workers, TransferDomain(w)
      PROVE  domain.status \in Live /\ domain'.status \in Live /\ ~crowded'
               => domain'.owner = domain.owner
  BY <1>24, TransferDomainEffect DEF ReadsAreFresh, AtStep, At, Live
<1>25. ASSUME NEW w \in Workers, TransferRefused(w)
      PROVE  domain.status \in Live /\ domain'.status \in Live /\ ~crowded'
               => domain'.owner = domain.owner
  BY <1>25, TransferRefusedEffect DEF ReadsAreFresh, AtStep, At, Live
<1>26. ASSUME NEW w \in Workers, CreateTransfer(w)
      PROVE  domain.status \in Live /\ domain'.status \in Live /\ ~crowded'
               => domain'.owner = domain.owner
  BY <1>26, CreateTransferEffect DEF ReadsAreFresh, AtStep, At, Live
<1>27. ASSUME NEW w \in Workers, CheckTransfer(w)
      PROVE  domain.status \in Live /\ domain'.status \in Live /\ ~crowded'
               => domain'.owner = domain.owner
  BY <1>27, CheckTransferEffect DEF ReadsAreFresh, AtStep, At, Live
<1>28. ASSUME NEW w \in Workers, CompleteTransfer(w)
      PROVE  domain.status \in Live /\ domain'.status \in Live /\ ~crowded'
               => domain'.owner = domain.owner
  BY <1>28, CompleteTransferEffect DEF ReadsAreFresh, AtStep, At, Live
<1>29. ASSUME NEW w \in Workers, RegisterBlocked(w)
      PROVE  domain.status \in Live /\ domain'.status \in Live /\ ~crowded'
               => domain'.owner = domain.owner
  BY <1>29, RegisterBlockedEffect DEF ReadsAreFresh, AtStep, At, Live
<1>30. ASSUME NEW w \in Workers, BlockRefused(w)
      PROVE  domain.status \in Live /\ domain'.status \in Live /\ ~crowded'
               => domain'.owner = domain.owner
  BY <1>30, BlockRefusedEffect DEF ReadsAreFresh, AtStep, At, Live
<1>31. ASSUME NEW w \in Workers, CreateBlocked(w)
      PROVE  domain.status \in Live /\ domain'.status \in Live /\ ~crowded'
               => domain'.owner = domain.owner
  BY <1>31, CreateBlockedEffect DEF ReadsAreFresh, AtStep, At, Live
<1>32. ASSUME NEW w \in Workers, Fail(w)
      PROVE  domain.status \in Live /\ domain'.status \in Live /\ ~crowded'
               => domain'.owner = domain.owner
  BY <1>32, FailEffect DEF ReadsAreFresh, AtStep, At, Live
<1>33. ASSUME NEW w \in Workers, ClaimRegistration(w)
      PROVE  domain.status \in Live /\ domain'.status \in Live /\ ~crowded'
               => domain'.owner = domain.owner
  BY <1>33, ClaimRegistrationEffect DEF ReadsAreFresh, AtStep, At, Live
<1>34. ASSUME NEW w \in Workers, RejectRegistration(w)
      PROVE  domain.status \in Live /\ domain'.status \in Live /\ ~crowded'
               => domain'.owner = domain.owner
  BY <1>34, RejectRegistrationEffect DEF ReadsAreFresh, AtStep, At, Live
<1>35. ASSUME NEW w \in Workers, NEW u \in Users, NEW d \in NameServers,
             RequestRegistration(w, u, d)
      PROVE  domain.status \in Live /\ domain'.status \in Live /\ ~crowded'
               => domain'.owner = domain.owner
  BY <1>35, RequestRegistrationEffect DEF ReadsAreFresh, AtStep, At, Live
<1>36. ASSUME NEW w \in Workers, NEW u \in Users, RenewDomain(w, u)
      PROVE  domain.status \in Live /\ domain'.status \in Live /\ ~crowded'
               => domain'.owner = domain.owner
  BY <1>36, RenewDomainEffect DEF ReadsAreFresh, AtStep, At, Live
<1>37. ASSUME NEW w \in Workers, NEW u \in Users, GetDomain(w, u)
      PROVE  domain.status \in Live /\ domain'.status \in Live /\ ~crowded'
               => domain'.owner = domain.owner
  BY <1>37, GetDomainEffect DEF ReadsAreFresh, AtStep, At, Live
<1>38. ASSUME NEW w \in Workers, NEW u \in Users, DeleteDomain(w, u)
      PROVE  domain.status \in Live /\ domain'.status \in Live /\ ~crowded'
               => domain'.owner = domain.owner
  BY <1>38, DeleteDomainEffect DEF ReadsAreFresh, AtStep, At, Live
<1>39. ASSUME NEW w \in Workers, NEW u \in Users, InitiateTransfer(w, u)
      PROVE  domain.status \in Live /\ domain'.status \in Live /\ ~crowded'
               => domain'.owner = domain.owner
  BY <1>39, InitiateTransferEffect DEF ReadsAreFresh, AtStep, At, Live
<1>40. ASSUME NEW w \in Workers, NEW u \in Users, GetTransferStatus(w, u)
      PROVE  domain.status \in Live /\ domain'.status \in Live /\ ~crowded'
               => domain'.owner = domain.owner
  BY <1>40, GetTransferStatusEffect DEF ReadsAreFresh, AtStep, At, Live
<1>41. ASSUME NEW w \in Workers, NEW u \in Users, CancelTransfer(w, u)
      PROVE  domain.status \in Live /\ domain'.status \in Live /\ ~crowded'
               => domain'.owner = domain.owner
  BY <1>41, CancelTransferEffect DEF ReadsAreFresh, AtStep, At, Live
<1>42. ASSUME NEW w \in Workers, NEW u \in Users, BlockDomain(w, u)
      PROVE  domain.status \in Live /\ domain'.status \in Live /\ ~crowded'
               => domain'.owner = domain.owner
  BY <1>42, BlockDomainEffect DEF ReadsAreFresh, AtStep, At, Live
<1>43. ASSUME NEW w \in Workers, NEW u \in Users, NEW k \in Settings, NEW v \in Choices(k),
             NEW b \in BOOLEAN, ToggleSetting(w, u, k, v, b)
      PROVE  domain.status \in Live /\ domain'.status \in Live /\ ~crowded'
               => domain'.owner = domain.owner
  BY <1>43, ToggleSettingEffect DEF ReadsAreFresh, AtStep, At, Live
<1>44. ASSUME TakenElsewhere
      PROVE  domain.status \in Live /\ domain'.status \in Live /\ ~crowded'
               => domain'.owner = domain.owner
  BY <1>44, TakenElsewhereEffect DEF ReadsAreFresh, AtStep, At, Live
<1>45. ASSUME TransferArrives
      PROVE  domain.status \in Live /\ domain'.status \in Live /\ ~crowded'
               => domain'.owner = domain.owner
  BY <1>45, TransferArrivesEffect DEF ReadsAreFresh, AtStep, At, Live
<1>46. ASSUME TransferDenied
      PROVE  domain.status \in Live /\ domain'.status \in Live /\ ~crowded'
               => domain'.owner = domain.owner
  BY <1>46, TransferDeniedEffect DEF ReadsAreFresh, AtStep, At, Live
<1>47. QED
  BY <1>1, <1>2, <1>3, <1>4, <1>5, <1>6, <1>7, <1>8, <1>9, <1>10, <1>11, <1>12, <1>13,
      <1>14, <1>15, <1>16, <1>17, <1>18, <1>19, <1>20, <1>21, <1>22, <1>23, <1>24, <1>25,
          <1>26, <1>27, <1>28, <1>29, <1>30, <1>31, <1>32, <1>33, <1>34, <1>35, <1>36,
              <1>37, <1>38, <1>39, <1>40, <1>41, <1>42, <1>43, <1>44, <1>45, <1>46
     DEF DomainNext, World, StartHandler, Continue

\* An approval that reaches its rollback has not ended in doubt.
LEMMA RequeueStep ==
    ASSUME DomainTypeOK, crowded \/ (OneAtATime /\ ReadsAreFresh), DomainNext
    PROVE  unsettled /\ ~crowded' => domain'.status # "PENDING_APPROVAL"
               \/ domain.status # "PENDING_REGISTRATION"
<1>1. ASSUME NEW w \in Workers, VerifyAvailable(w)
      PROVE  unsettled /\ ~crowded' => domain'.status # "PENDING_APPROVAL"
               \/ domain.status # "PENDING_REGISTRATION"
  BY <1>1, VerifyAvailableEffect DEF ReadsAreFresh, AtStep, At, Live, Approving
<1>2. ASSUME NEW w \in Workers, ParkRequest(w)
      PROVE  unsettled /\ ~crowded' => domain'.status # "PENDING_APPROVAL"
               \/ domain.status # "PENDING_REGISTRATION"
  BY <1>2, ParkRequestEffect DEF ReadsAreFresh, AtStep, At, Live, Approving
<1>3. ASSUME NEW w \in Workers, Reverify(w)
      PROVE  unsettled /\ ~crowded' => domain'.status # "PENDING_APPROVAL"
               \/ domain.status # "PENDING_REGISTRATION"
  BY <1>3, ReverifyEffect DEF ReadsAreFresh, AtStep, At, Live, Approving
<1>4. ASSUME NEW w \in Workers, ReverifyFails(w)
      PROVE  unsettled /\ ~crowded' => domain'.status # "PENDING_APPROVAL"
               \/ domain.status # "PENDING_REGISTRATION"
  BY <1>4, ReverifyFailsEffect DEF ReadsAreFresh, AtStep, At, Live, Approving
<1>5. ASSUME NEW w \in Workers, RegisterDomain(w)
      PROVE  unsettled /\ ~crowded' => domain'.status # "PENDING_APPROVAL"
               \/ domain.status # "PENDING_REGISTRATION"
  BY <1>5, RegisterDomainEffect DEF ReadsAreFresh, AtStep, At, Live, Approving
<1>6. ASSUME NEW w \in Workers, RegistrationRefused(w)
      PROVE  unsettled /\ ~crowded' => domain'.status # "PENDING_APPROVAL"
               \/ domain.status # "PENDING_REGISTRATION"
  BY <1>6, RegistrationRefusedEffect DEF ReadsAreFresh, AtStep, At, Live, Approving
<1>7. ASSUME NEW w \in Workers, RegistrationUnanswered(w)
      PROVE  unsettled /\ ~crowded' => domain'.status # "PENDING_APPROVAL"
               \/ domain.status # "PENDING_REGISTRATION"
  BY <1>7, RegistrationUnansweredEffect DEF ReadsAreFresh, AtStep, At, Live, Approving
<1>8. ASSUME NEW w \in Workers, MarkRejected(w)
      PROVE  unsettled /\ ~crowded' => domain'.status # "PENDING_APPROVAL"
               \/ domain.status # "PENDING_REGISTRATION"
  BY <1>8, MarkRejectedEffect DEF ReadsAreFresh, AtStep, At, Live, Approving
<1>9. ASSUME NEW w \in Workers, MarkRejectedFails(w)
      PROVE  unsettled /\ ~crowded' => domain'.status # "PENDING_APPROVAL"
               \/ domain.status # "PENDING_REGISTRATION"
  BY <1>9, MarkRejectedFailsEffect DEF ReadsAreFresh, AtStep, At, Live, Approving
<1>10. ASSUME NEW w \in Workers, ReleaseRegistration(w)
      PROVE  unsettled /\ ~crowded' => domain'.status # "PENDING_APPROVAL"
               \/ domain.status # "PENDING_REGISTRATION"
  BY <1>10, ReleaseRegistrationEffect DEF ReadsAreFresh, AtStep, At, Live, Approving
<1>11. ASSUME NEW w \in Workers, ActivateDomain(w)
      PROVE  unsettled /\ ~crowded' => domain'.status # "PENDING_APPROVAL"
               \/ domain.status # "PENDING_REGISTRATION"
  BY <1>11, ActivateDomainEffect DEF ReadsAreFresh, AtStep, At, Live, Approving
<1>12. ASSUME NEW w \in Workers, LockDomain(w)
      PROVE  unsettled /\ ~crowded' => domain'.status # "PENDING_APPROVAL"
               \/ domain.status # "PENDING_REGISTRATION"
  BY <1>12, LockDomainEffect DEF ReadsAreFresh, AtStep, At, Live, Approving
<1>13. ASSUME NEW w \in Workers, CommitRejection(w)
      PROVE  unsettled /\ ~crowded' => domain'.status # "PENDING_APPROVAL"
               \/ domain.status # "PENDING_REGISTRATION"
  BY <1>13, CommitRejectionEffect DEF ReadsAreFresh, AtStep, At, Live, Approving
<1>14. ASSUME NEW w \in Workers, RenewAtRegistrar(w)
      PROVE  unsettled /\ ~crowded' => domain'.status # "PENDING_APPROVAL"
               \/ domain.status # "PENDING_REGISTRATION"
  BY <1>14, RenewAtRegistrarEffect DEF ReadsAreFresh, AtStep, At, Live, Approving
<1>15. ASSUME NEW w \in Workers, RenewalRefused(w)
      PROVE  unsettled /\ ~crowded' => domain'.status # "PENDING_APPROVAL"
               \/ domain.status # "PENDING_REGISTRATION"
  BY <1>15, RenewalRefusedEffect DEF ReadsAreFresh, AtStep, At, Live, Approving
<1>16. ASSUME NEW w \in Workers, SaveRenewal(w)
      PROVE  unsettled /\ ~crowded' => domain'.status # "PENDING_APPROVAL"
               \/ domain.status # "PENDING_REGISTRATION"
  BY <1>16, SaveRenewalEffect DEF ReadsAreFresh, AtStep, At, Live, Approving
<1>17. ASSUME NEW w \in Workers, CompareExpiry(w)
      PROVE  unsettled /\ ~crowded' => domain'.status # "PENDING_APPROVAL"
               \/ domain.status # "PENDING_REGISTRATION"
  BY <1>17, CompareExpiryEffect DEF ReadsAreFresh, AtStep, At, Live, Approving
<1>18. ASSUME NEW w \in Workers, SyncExpiry(w)
      PROVE  unsettled /\ ~crowded' => domain'.status # "PENDING_APPROVAL"
               \/ domain.status # "PENDING_REGISTRATION"
  BY <1>18, SyncExpiryEffect DEF ReadsAreFresh, AtStep, At, Live, Approving
<1>19. ASSUME NEW w \in Workers, ApplySetting(w)
      PROVE  unsettled /\ ~crowded' => domain'.status # "PENDING_APPROVAL"
               \/ domain.status # "PENDING_REGISTRATION"
  BY <1>19, ApplySettingEffect DEF ReadsAreFresh, AtStep, At, Live, Approving
<1>20. ASSUME NEW w \in Workers, SettingRefused(w)
      PROVE  unsettled /\ ~crowded' => domain'.status # "PENDING_APPROVAL"
               \/ domain.status # "PENDING_REGISTRATION"
  BY <1>20, SettingRefusedEffect DEF ReadsAreFresh, AtStep, At, Live, Approving
<1>21. ASSUME NEW w \in Workers, SettingFails(w)
      PROVE  unsettled /\ ~crowded' => domain'.status # "PENDING_APPROVAL"
               \/ domain.status # "PENDING_REGISTRATION"
  BY <1>21, SettingFailsEffect DEF ReadsAreFresh, AtStep, At, Live, Approving
<1>22. ASSUME NEW w \in Workers, SaveSetting(w)
      PROVE  unsettled /\ ~crowded' => domain'.status # "PENDING_APPROVAL"
               \/ domain.status # "PENDING_REGISTRATION"
  BY <1>22, SaveSettingEffect DEF ReadsAreFresh, AtStep, At, Live, Approving
<1>23. ASSUME NEW w \in Workers, MarkDeleted(w)
      PROVE  unsettled /\ ~crowded' => domain'.status # "PENDING_APPROVAL"
               \/ domain.status # "PENDING_REGISTRATION"
  BY <1>23, MarkDeletedEffect DEF ReadsAreFresh, AtStep, At, Live, Approving
<1>24. ASSUME NEW w \in Workers, TransferDomain(w)
      PROVE  unsettled /\ ~crowded' => domain'.status # "PENDING_APPROVAL"
               \/ domain.status # "PENDING_REGISTRATION"
  BY <1>24, TransferDomainEffect DEF ReadsAreFresh, AtStep, At, Live, Approving
<1>25. ASSUME NEW w \in Workers, TransferRefused(w)
      PROVE  unsettled /\ ~crowded' => domain'.status # "PENDING_APPROVAL"
               \/ domain.status # "PENDING_REGISTRATION"
  BY <1>25, TransferRefusedEffect DEF ReadsAreFresh, AtStep, At, Live, Approving
<1>26. ASSUME NEW w \in Workers, CreateTransfer(w)
      PROVE  unsettled /\ ~crowded' => domain'.status # "PENDING_APPROVAL"
               \/ domain.status # "PENDING_REGISTRATION"
  BY <1>26, CreateTransferEffect DEF ReadsAreFresh, AtStep, At, Live, Approving
<1>27. ASSUME NEW w \in Workers, CheckTransfer(w)
      PROVE  unsettled /\ ~crowded' => domain'.status # "PENDING_APPROVAL"
               \/ domain.status # "PENDING_REGISTRATION"
  BY <1>27, CheckTransferEffect DEF ReadsAreFresh, AtStep, At, Live, Approving
<1>28. ASSUME NEW w \in Workers, CompleteTransfer(w)
      PROVE  unsettled /\ ~crowded' => domain'.status # "PENDING_APPROVAL"
               \/ domain.status # "PENDING_REGISTRATION"
  BY <1>28, CompleteTransferEffect DEF ReadsAreFresh, AtStep, At, Live, Approving
<1>29. ASSUME NEW w \in Workers, RegisterBlocked(w)
      PROVE  unsettled /\ ~crowded' => domain'.status # "PENDING_APPROVAL"
               \/ domain.status # "PENDING_REGISTRATION"
  BY <1>29, RegisterBlockedEffect DEF ReadsAreFresh, AtStep, At, Live, Approving
<1>30. ASSUME NEW w \in Workers, BlockRefused(w)
      PROVE  unsettled /\ ~crowded' => domain'.status # "PENDING_APPROVAL"
               \/ domain.status # "PENDING_REGISTRATION"
  BY <1>30, BlockRefusedEffect DEF ReadsAreFresh, AtStep, At, Live, Approving
<1>31. ASSUME NEW w \in Workers, CreateBlocked(w)
      PROVE  unsettled /\ ~crowded' => domain'.status # "PENDING_APPROVAL"
               \/ domain.status # "PENDING_REGISTRATION"
  BY <1>31, CreateBlockedEffect DEF ReadsAreFresh, AtStep, At, Live, Approving
<1>32. ASSUME NEW w \in Workers, Fail(w)
      PROVE  unsettled /\ ~crowded' => domain'.status # "PENDING_APPROVAL"
               \/ domain.status # "PENDING_REGISTRATION"
  BY <1>32, FailEffect DEF ReadsAreFresh, AtStep, At, Live, Approving
<1>33. ASSUME NEW w \in Workers, ClaimRegistration(w)
      PROVE  unsettled /\ ~crowded' => domain'.status # "PENDING_APPROVAL"
               \/ domain.status # "PENDING_REGISTRATION"
  BY <1>33, ClaimRegistrationEffect DEF ReadsAreFresh, AtStep, At, Live, Approving
<1>34. ASSUME NEW w \in Workers, RejectRegistration(w)
      PROVE  unsettled /\ ~crowded' => domain'.status # "PENDING_APPROVAL"
               \/ domain.status # "PENDING_REGISTRATION"
  BY <1>34, RejectRegistrationEffect DEF ReadsAreFresh, AtStep, At, Live, Approving
<1>35. ASSUME NEW w \in Workers, NEW u \in Users, NEW d \in NameServers,
             RequestRegistration(w, u, d)
      PROVE  unsettled /\ ~crowded' => domain'.status # "PENDING_APPROVAL"
               \/ domain.status # "PENDING_REGISTRATION"
  BY <1>35, RequestRegistrationEffect DEF ReadsAreFresh, AtStep, At, Live, Approving
<1>36. ASSUME NEW w \in Workers, NEW u \in Users, RenewDomain(w, u)
      PROVE  unsettled /\ ~crowded' => domain'.status # "PENDING_APPROVAL"
               \/ domain.status # "PENDING_REGISTRATION"
  BY <1>36, RenewDomainEffect DEF ReadsAreFresh, AtStep, At, Live, Approving
<1>37. ASSUME NEW w \in Workers, NEW u \in Users, GetDomain(w, u)
      PROVE  unsettled /\ ~crowded' => domain'.status # "PENDING_APPROVAL"
               \/ domain.status # "PENDING_REGISTRATION"
  BY <1>37, GetDomainEffect DEF ReadsAreFresh, AtStep, At, Live, Approving
<1>38. ASSUME NEW w \in Workers, NEW u \in Users, DeleteDomain(w, u)
      PROVE  unsettled /\ ~crowded' => domain'.status # "PENDING_APPROVAL"
               \/ domain.status # "PENDING_REGISTRATION"
  BY <1>38, DeleteDomainEffect DEF ReadsAreFresh, AtStep, At, Live, Approving
<1>39. ASSUME NEW w \in Workers, NEW u \in Users, InitiateTransfer(w, u)
      PROVE  unsettled /\ ~crowded' => domain'.status # "PENDING_APPROVAL"
               \/ domain.status # "PENDING_REGISTRATION"
  BY <1>39, InitiateTransferEffect DEF ReadsAreFresh, AtStep, At, Live, Approving
<1>40. ASSUME NEW w \in Workers, NEW u \in Users, GetTransferStatus(w, u)
      PROVE  unsettled /\ ~crowded' => domain'.status # "PENDING_APPROVAL"
               \/ domain.status # "PENDING_REGISTRATION"
  BY <1>40, GetTransferStatusEffect DEF ReadsAreFresh, AtStep, At, Live, Approving
<1>41. ASSUME NEW w \in Workers, NEW u \in Users, CancelTransfer(w, u)
      PROVE  unsettled /\ ~crowded' => domain'.status # "PENDING_APPROVAL"
               \/ domain.status # "PENDING_REGISTRATION"
  BY <1>41, CancelTransferEffect DEF ReadsAreFresh, AtStep, At, Live, Approving
<1>42. ASSUME NEW w \in Workers, NEW u \in Users, BlockDomain(w, u)
      PROVE  unsettled /\ ~crowded' => domain'.status # "PENDING_APPROVAL"
               \/ domain.status # "PENDING_REGISTRATION"
  BY <1>42, BlockDomainEffect DEF ReadsAreFresh, AtStep, At, Live, Approving
<1>43. ASSUME NEW w \in Workers, NEW u \in Users, NEW k \in Settings, NEW v \in Choices(k),
             NEW b \in BOOLEAN, ToggleSetting(w, u, k, v, b)
      PROVE  unsettled /\ ~crowded' => domain'.status # "PENDING_APPROVAL"
               \/ domain.status # "PENDING_REGISTRATION"
  BY <1>43, ToggleSettingEffect DEF ReadsAreFresh, AtStep, At, Live, Approving
<1>44. ASSUME TakenElsewhere
      PROVE  unsettled /\ ~crowded' => domain'.status # "PENDING_APPROVAL"
               \/ domain.status # "PENDING_REGISTRATION"
  BY <1>44, TakenElsewhereEffect DEF ReadsAreFresh, AtStep, At, Live, Approving
<1>45. ASSUME TransferArrives
      PROVE  unsettled /\ ~crowded' => domain'.status # "PENDING_APPROVAL"
               \/ domain.status # "PENDING_REGISTRATION"
  BY <1>45, TransferArrivesEffect DEF ReadsAreFresh, AtStep, At, Live, Approving
<1>46. ASSUME TransferDenied
      PROVE  unsettled /\ ~crowded' => domain'.status # "PENDING_APPROVAL"
               \/ domain.status # "PENDING_REGISTRATION"
  BY <1>46, TransferDeniedEffect DEF ReadsAreFresh, AtStep, At, Live, Approving
<1>47. QED
  BY <1>1, <1>2, <1>3, <1>4, <1>5, <1>6, <1>7, <1>8, <1>9, <1>10, <1>11, <1>12, <1>13,
      <1>14, <1>15, <1>16, <1>17, <1>18, <1>19, <1>20, <1>21, <1>22, <1>23, <1>24, <1>25,
          <1>26, <1>27, <1>28, <1>29, <1>30, <1>31, <1>32, <1>33, <1>34, <1>35, <1>36,
              <1>37, <1>38, <1>39, <1>40, <1>41, <1>42, <1>43, <1>44, <1>45, <1>46
     DEF DomainNext, World, StartHandler, Continue

\* While handlers take turns, a live row keeps its customer: a request takes over only
\* a row in a terminal state (requestDomainRegistration).
THEOREM OwnersKeepTheirNames == DomainSpec => OwnerKept
<1>1. DomainTypeOK /\ DomainInv /\ [DomainNext]_domainVars
          => [domain.status \in Live /\ domain'.status \in Live /\ ~crowded'
                  => domain'.owner = domain.owner]_domainVars
  <2>1. DomainInv => crowded \/ (OneAtATime /\ ReadsAreFresh)
    BY DEF DomainInv
  <2>2. QED
    BY <2>1, OwnerStep
<1>2. QED
  BY <1>1, DomainsCorrect, PTL DEF DomainSpec, OwnerKept

\* While handlers take turns, a request whose charge is in doubt is not put back in the
\* queue (the rollback of approveDomainRegistration).
THEOREM InDoubtIsNotRequeued == DomainSpec => NeverRequeued
<1>1. DomainTypeOK /\ DomainInv /\ [DomainNext]_domainVars
          => [unsettled /\ ~crowded' => domain'.status # "PENDING_APPROVAL"
                  \/ domain.status # "PENDING_REGISTRATION"]_domainVars
  <2>1. DomainInv => crowded \/ (OneAtATime /\ ReadsAreFresh)
    BY DEF DomainInv
  <2>2. QED
    BY <2>1, RequeueStep
<1>2. QED
  BY <1>1, DomainsCorrect, PTL DEF DomainSpec, NeverRequeued

================================================================================
