---------------------- MODULE SharedConservationProofs ----------------------
(***************************************************************************)
(* Slots are conserved: the occupancy counters of tenants and pools always *)
(* equal the number of executions and attempts that hold a slot.  No slot  *)
(* leaks and none is returned twice, for any number of incarnations,       *)
(* tenants, pools, executions and attempts and for any policy changes.     *)
(* The rate counters of a minute count what was accepted in it.            *)
(***************************************************************************)
EXTENDS SharedEngineProofs

\* The states of an execution that occupies a slot.
Unsettled == Open \cup {"unknown"}

\* A tenant without a policy has never admitted anything.
UnknownTenantIsIdle ==
    \A t \in Tenant : tenants[t].policy_revision = 0 => tenants[t].active = 0

\* The inductive invariant.
SlotInv == LedgerInv /\ TenantConservation /\ ResourceConservation /\ UnknownTenantIsIdle

\* The sets that are counted are finite.
LEMMA SlotsFinite ==
    /\ \A t : IsFiniteSet(Occupying(t)) /\ Cardinality(Occupying(t)) \in Nat
    /\ \A p : IsFiniteSet(Reserving(p)) /\ Cardinality(Reserving(p)) \in Nat
<1>1. ASSUME NEW t PROVE IsFiniteSet(Occupying(t)) /\ Cardinality(Occupying(t)) \in Nat
  <2>1. Occupying(t) \in SUBSET Execution
    BY DEF Occupying
  <2>. QED  BY <2>1, FS_Subset, FS_CardinalityType, EngineAssumption
<1>2. ASSUME NEW p PROVE IsFiniteSet(Reserving(p)) /\ Cardinality(Reserving(p)) \in Nat
  <2>1. Reserving(p) \in SUBSET Attempt
    BY DEF Reserving
  <2>. QED  BY <2>1, FS_Subset, FS_CardinalityType, EngineAssumption
<1>. QED  BY <1>1, <1>2

-----------------------------------------------------------------------------
(* Tenants *)

\* A step that neither settles nor admits keeps a tenant's balance.
LEMMA TenantKept ==
    ASSUME TenantConservation, UnknownTenantIsIdle, UNCHANGED tenants,
           \A x \in Execution : /\ executions'[x].principal = executions[x].principal
                                /\ executions'[x].state \in Unsettled <=> executions[x].state \in Unsettled
    PROVE  TenantConservation' /\ UnknownTenantIsIdle'
<1>1. ASSUME NEW t \in Tenant PROVE Occupying(t)' = Occupying(t)
  BY DEF Occupying, TenantOfExecution, Unsettled
<1>2. ASSUME NEW t \in Tenant PROVE (tenants[t].active = Cardinality(Occupying(t)))'
  BY <1>1 DEF TenantConservation
<1>. QED  BY <1>2 DEF TenantConservation, UnknownTenantIsIdle

\* An execution that settles gives its tenant's slot back.
LEMMA TenantReleased ==
    ASSUME TypeInv, TenantConservation, UnknownTenantIsIdle, NEW e \in Execution,
           executions[e].state \in Unsettled, executions'[e].state \in Settled,
           executions'[e].principal = executions[e].principal,
           \A x \in Execution \ {e} : executions'[x] = executions[x],
           ReleaseTenant(TenantOfExecution(e))
    PROVE  TenantConservation' /\ UnknownTenantIsIdle'
<1>1. PICK u : u = TenantOfExecution(e)
  OBVIOUS
<1>2. u \in Tenant /\ tenants \in [Tenant -> TenantRow]
  BY <1>1, EngineAssumption DEF TypeInv, TypeOK, Admitted, TenantOfExecution, Unsettled, Open
<1>3. /\ tenants[u].active > 0
      /\ \A t \in Tenant : /\ tenants'[t].policy_revision = tenants[t].policy_revision
                           /\ t # u => tenants'[t] = tenants[t]
      /\ tenants'[u].active = tenants[u].active - 1
  BY <1>1, <1>2 DEF ReleaseTenant, TenantRow
<1>4. e \in Occupying(u)
  BY <1>1 DEF Occupying, Unsettled
<1>5. ASSUME NEW t \in Tenant PROVE (tenants[t].active = Cardinality(Occupying(t)))'
  <2>1. CASE t = u
    <3>1. Occupying(t)' = Occupying(t) \ {e}
      BY <2>1 DEF Occupying, TenantOfExecution, Settled, Open
    <3>2. Cardinality(Occupying(t) \ {e}) = Cardinality(Occupying(t)) - 1
      BY <1>4, <2>1, SlotsFinite, FS_RemoveElement
    <3>. QED  BY <1>3, <2>1, <3>1, <3>2 DEF TenantConservation
  <2>2. CASE t # u
    <3>1. Occupying(t)' = Occupying(t)
      BY <1>1, <2>2 DEF Occupying, TenantOfExecution
    <3>. QED  BY <1>3, <2>2, <3>1 DEF TenantConservation
  <2>. QED  BY <2>1, <2>2
<1>6. UnknownTenantIsIdle'
  BY <1>3 DEF UnknownTenantIsIdle
<1>. QED  BY <1>5, <1>6 DEF TenantConservation

\* An admission takes one slot of its tenant.
LEMMA TenantAdmitted ==
    ASSUME TypeInv, TenantConservation, UnknownTenantIsIdle, NEW o \in Owner, NEW e \in Execution,
           NEW p \in Principal, NEW k \in Key \cup {None}, Admit(o, e, p, k)
    PROVE  TenantConservation' /\ UnknownTenantIsIdle'
<1>1. PICK u : u = TenantOf[p]
  OBVIOUS
<1>2. u \in Tenant /\ tenants \in [Tenant -> TenantRow] /\ executions \in [Execution -> ExecutionRow]
  BY <1>1, EngineAssumption DEF TypeInv, TypeOK
<1>3. /\ tenants[u].policy_revision > 0
      /\ \A t \in Tenant : /\ tenants'[t].policy_revision = tenants[t].policy_revision
                           /\ t # u => tenants'[t] = tenants[t]
      /\ tenants'[u].active = tenants[u].active + 1
  BY <1>1, <1>2 DEF Admit, TenantRow
<1>4. /\ executions[e].state = "absent" /\ executions'[e].state = "accepted"
      /\ executions'[e].principal = p
      /\ \A x \in Execution \ {e} : executions'[x] = executions[x]
  BY <1>2 DEF Admit
<1>5. ASSUME NEW t \in Tenant PROVE (tenants[t].active = Cardinality(Occupying(t)))'
  <2>1. CASE t = u
    <3>1. Occupying(t)' = Occupying(t) \cup {e} /\ e \notin Occupying(t)
      BY <1>1, <1>4, <2>1 DEF Occupying, TenantOfExecution, Open
    <3>2. Cardinality(Occupying(t) \cup {e}) = Cardinality(Occupying(t)) + 1
      BY <3>1, SlotsFinite, FS_AddElement
    <3>. QED  BY <1>3, <2>1, <3>1, <3>2 DEF TenantConservation
  <2>2. CASE t # u
    <3>1. Occupying(t)' = Occupying(t)
      BY <1>1, <1>4, <2>2 DEF Occupying, TenantOfExecution, Open
    <3>. QED  BY <1>3, <2>2, <3>1 DEF TenantConservation
  <2>. QED  BY <2>1, <2>2
<1>6. UnknownTenantIsIdle'
  BY <1>2, <1>3 DEF UnknownTenantIsIdle
<1>. QED  BY <1>5, <1>6 DEF TenantConservation

\* A new tenant starts at zero, a replaced policy keeps the occupancy.
LEMMA TenantReplaced ==
    ASSUME TypeInv, TenantConservation, UnknownTenantIsIdle, NEW u \in Tenant,
           NEW limits \in TenantLimits, PutTenant(u, limits)
    PROVE  TenantConservation' /\ UnknownTenantIsIdle'
<1>1. tenants \in [Tenant -> TenantRow] /\ executions' = executions
  BY DEF TypeInv, TypeOK, PutTenant, rows
<1>2. \A t \in Tenant : tenants'[t].active = tenants[t].active /\ (t # u => tenants'[t] = tenants[t])
  BY <1>1 DEF PutTenant, TenantRow, UnknownTenantIsIdle
<1>3. tenants'[u].policy_revision # 0
  BY <1>1 DEF PutTenant, TenantRow
<1>4. ASSUME NEW t \in Tenant PROVE (tenants[t].active = Cardinality(Occupying(t)))'
  <2>1. Occupying(t)' = Occupying(t)
    BY <1>1 DEF Occupying, TenantOfExecution
  <2>. QED  BY <1>2, <2>1 DEF TenantConservation
<1>5. UnknownTenantIsIdle'
  BY <1>2, <1>3 DEF UnknownTenantIsIdle
<1>. QED  BY <1>4, <1>5 DEF TenantConservation

-----------------------------------------------------------------------------
(* Pools *)

\* A step that moves attempts only within the holding states keeps the balance.
LEMMA PoolKept ==
    ASSUME ResourceConservation, \A p \in Pool : resources'[p].active = resources[p].active,
           \A b \in Attempt : /\ attempts'[b].pool = attempts[b].pool
                              /\ attempts'[b].state \in Holding <=> attempts[b].state \in Holding
    PROVE  ResourceConservation'
<1>1. ASSUME NEW p \in Pool PROVE (resources[p].active = Cardinality(Reserving(p)))'
  <2>1. Reserving(p)' = Reserving(p)
    BY DEF Reserving
  <2>. QED  BY <2>1 DEF ResourceConservation
<1>. QED  BY <1>1 DEF ResourceConservation

\* An attempt that leaves the holding states returns its slot.
LEMMA PoolReturned ==
    ASSUME LedgerInv, ResourceConservation, NEW a \in Attempt, NEW s, s \notin Holding,
           attempts[a].state \in Holding, ReplaceAttempt(a, s), ReleaseResource(attempts[a].pool)
    PROVE  ResourceConservation'
<1>1. PICK q : q = attempts[a].pool
  OBVIOUS
<1>2. /\ attempts'[a].state = s
      /\ \A b \in Attempt : /\ attempts'[b].pool = attempts[b].pool
                            /\ b # a => attempts'[b] = attempts[b]
  BY ReplaceFacts
<1>3. resources \in [Pool -> [concurrent_attempts : Nat, policy_revision : Nat, active : Nat]]
  BY DEF LedgerInv, TypeInv, TypeOK
<1>4. ASSUME NEW p \in Pool PROVE (resources[p].active = Cardinality(Reserving(p)))'
  <2>1. CASE p = q
    <3>1. Reserving(p)' = Reserving(p) \ {a} /\ a \in Reserving(p)
      BY <1>1, <1>2, <2>1 DEF Reserving
    <3>2. Cardinality(Reserving(p) \ {a}) = Cardinality(Reserving(p)) - 1
      BY <3>1, SlotsFinite, FS_RemoveElement
    <3>3. resources'[p].active = resources[p].active - 1
      BY <1>1, <1>3, <2>1 DEF ReleaseResource
    <3>. QED  BY <3>1, <3>2, <3>3 DEF ResourceConservation
  <2>2. CASE p # q
    <3>1. Reserving(p)' = Reserving(p)
      BY <1>1, <1>2, <2>2 DEF Reserving
    <3>2. resources'[p] = resources[p]
      BY <1>1, <1>3, <2>2 DEF ReleaseResource
    <3>. QED  BY <3>1, <3>2 DEF ResourceConservation
  <2>. QED  BY <2>1, <2>2
<1>. QED  BY <1>4 DEF ResourceConservation

\* A reservation takes one slot of its pool.
LEMMA PoolReserved ==
    ASSUME LedgerInv, ResourceConservation, NEW e \in Execution, NEW a \in Attempt, NEW q \in Pool,
           PrepareAttempt(e, a, q)
    PROVE  ResourceConservation'
<1>1. /\ resources \in [Pool -> [concurrent_attempts : Nat, policy_revision : Nat, active : Nat]]
      /\ attempts \in [Attempt -> AttemptRow]
  BY DEF LedgerInv, TypeInv, TypeOK
<1>2. /\ attempts[a].state = "absent" /\ attempts'[a].state = "prepared" /\ attempts'[a].pool = q
      /\ \A b \in Attempt \ {a} : attempts'[b] = attempts[b]
  BY <1>1 DEF PrepareAttempt
<1>3. /\ resources'[q].active = resources[q].active + 1
      /\ \A p \in Pool \ {q} : resources'[p] = resources[p]
  BY <1>1 DEF PrepareAttempt
<1>4. ASSUME NEW p \in Pool PROVE (resources[p].active = Cardinality(Reserving(p)))'
  <2>1. CASE p = q
    <3>1. Reserving(p)' = Reserving(p) \cup {a} /\ a \notin Reserving(p)
      BY <1>2, <2>1 DEF Reserving, Holding
    <3>2. Cardinality(Reserving(p) \cup {a}) = Cardinality(Reserving(p)) + 1
      BY <3>1, SlotsFinite, FS_AddElement
    <3>. QED  BY <1>3, <2>1, <3>1, <3>2 DEF ResourceConservation
  <2>2. CASE p # q
    <3>1. Reserving(p)' = Reserving(p)
      BY <1>2, <2>2 DEF Reserving, Holding
    <3>. QED  BY <1>3, <2>2, <3>1 DEF ResourceConservation
  <2>. QED  BY <2>1, <2>2
<1>. QED  BY <1>4 DEF ResourceConservation

\* A finalization returns the slots of all its unsent reservations.
LEMMA PoolFinalized ==
    ASSUME LedgerInv, ResourceConservation, NEW e \in Execution, NEW out, FinalizeLocked(e, out)
    PROVE  ResourceConservation'
<1>1. /\ resources \in [Pool -> [concurrent_attempts : Nat, policy_revision : Nat, active : Nat]]
      /\ attempts \in [Attempt -> AttemptRow]
      /\ PreparedOf(e) \subseteq Attempt
  BY PreparedFinite DEF LedgerInv, TypeInv, TypeOK
<1>2. \A b \in Attempt :
         attempts'[b] = IF b \in PreparedOf(e)
                        THEN [attempts[b] EXCEPT !.state = "not_dispatched"] ELSE attempts[b]
  BY DEF FinalizeLocked
<1>3. \A b \in Attempt :
         /\ attempts'[b].pool = attempts[b].pool
         /\ attempts'[b].state = IF b \in PreparedOf(e) THEN "not_dispatched" ELSE attempts[b].state
  BY <1>1, <1>2 DEF AttemptRow
<1>4. \A b \in PreparedOf(e) : attempts[b].state = "prepared"
  BY DEF FinalizeLocked
<1>5. ASSUME NEW p \in Pool PROVE (resources[p].active = Cardinality(Reserving(p)))'
  <2>1. PICK back : back = {b \in PreparedOf(e) : attempts[b].pool = p}
    OBVIOUS
  <2>2. Reserving(p)' = Reserving(p) \ back
    BY <1>1, <1>3, <2>1 DEF Reserving, Holding
  <2>3. Reserving(p) \cap back = back
    BY <1>1, <1>4, <2>1 DEF Reserving, Holding
  <2>4. Cardinality(Reserving(p) \ back) = Cardinality(Reserving(p)) - Cardinality(back)
    BY <2>3, SlotsFinite, FS_Difference
  <2>5. resources'[p].active = resources[p].active - Cardinality(back)
    BY <1>1, <2>1 DEF FinalizeLocked
  <2>. QED  BY <2>2, <2>4, <2>5 DEF ResourceConservation
<1>. QED  BY <1>5 DEF ResourceConservation

-----------------------------------------------------------------------------
(* Initial state and steps *)

\* Nothing is occupied at first.
LEMMA SlotInit == Init => SlotInv
<1>. SUFFICES ASSUME Init PROVE SlotInv
  OBVIOUS
<1>1. LedgerInv
  BY LedgerInit
<1>2. \A t \in Tenant : tenants[t].active = 0 /\ Occupying(t) = {}
  BY DEF Init, NoTenant, NoExecution, Occupying, Open
<1>3. \A p \in Pool : resources[p].active = 0 /\ Reserving(p) = {}
  BY DEF Init, NoResource, NoAttempt, Reserving, Holding
<1>. QED
  BY <1>1, <1>2, <1>3, FS_EmptySet
     DEF SlotInv, TenantConservation, ResourceConservation, UnknownTenantIsIdle

\* Every step keeps the balance of tenants and pools.
LEMMA SlotStep == SlotInv /\ [Next]_vars => SlotInv'
<1>. DEFINE Goal == TenantConservation' /\ UnknownTenantIsIdle' /\ ResourceConservation'
<1>. SUFFICES ASSUME SlotInv, [Next]_vars PROVE Goal
  BY LedgerStep DEF SlotInv
<1>0. /\ LedgerInv /\ TypeInv /\ TenantConservation /\ ResourceConservation /\ UnknownTenantIsIdle
      /\ executions \in [Execution -> ExecutionRow] /\ attempts \in [Attempt -> AttemptRow]
  BY DEF SlotInv, LedgerInv, TypeInv, TypeOK
<1>. USE DEF authority, counters, rows
<1>1. CASE UNCHANGED <<tenants, resources, executions, attempts>>
  BY <1>0, <1>1, TenantKept, PoolKept
<1>2. ASSUME NEW o \in Owner, NEW e \in Execution, NEW p \in Principal,
             NEW k \in Key \cup {None}, Admit(o, e, p, k)
      PROVE  Goal
  <2>1. UNCHANGED <<resources, attempts>>
    BY <1>2 DEF Admit
  <2>. QED  BY <1>0, <1>2, <2>1, TenantAdmitted, PoolKept
<1>3. ASSUME NEW e \in Execution, Postpone(e) \/ DeferRecovery(e)
                                  \/ \E ep \in Episode : GuardedRoute(e, ep)
      PROVE  Goal
  <2>1. \A x \in Execution : /\ executions'[x].principal = executions[x].principal
                             /\ executions'[x].state = executions[x].state
    <3>1. CASE Postpone(e)
      BY <1>0, <3>1 DEF Postpone, ExecutionRow
    <3>2. CASE DeferRecovery(e)
      BY <1>0, <3>2 DEF DeferRecovery, ExecutionRow
    <3>3. ASSUME NEW ep \in Episode, GuardedRoute(e, ep)
          PROVE  \A x \in Execution : /\ executions'[x].principal = executions[x].principal
                                      /\ executions'[x].state = executions[x].state
      BY <1>0, <3>3 DEF GuardedRoute, BindTrajectory, ExecutionRow
    <3>. QED  BY <1>3, <3>1, <3>2, <3>3
  <2>2. UNCHANGED <<tenants, resources, attempts>>
    BY <1>3 DEF Postpone, DeferRecovery, GuardedRoute
  <2>. QED  BY <1>0, <2>1, <2>2, TenantKept, PoolKept
<1>4. ASSUME NEW e \in Execution, NEW a \in Attempt, NEW p \in Pool, PrepareAttempt(e, a, p)
      PROVE  Goal
  <2>1. executions[e].state \in Open
    BY <1>4 DEF PrepareAttempt, AuthorizedExecution
  <2>2. \A x \in Execution : /\ executions'[x].principal = executions[x].principal
                             /\ executions'[x].state \in Unsettled <=> executions[x].state \in Unsettled
    BY <1>0, <1>4, <2>1 DEF PrepareAttempt, ExecutionRow, Unsettled, Open
  <2>3. UNCHANGED tenants
    BY <1>4 DEF PrepareAttempt
  <2>. QED  BY <1>0, <1>4, <2>2, <2>3, TenantKept, PoolReserved
<1>5. ASSUME NEW e \in Execution, NEW a \in Attempt, Dispatch(e, a) PROVE Goal
  <2>1. \A x \in Execution : /\ executions'[x].principal = executions[x].principal
                             /\ executions'[x].state = executions[x].state
    BY <1>0, <1>5 DEF Dispatch, ExecutionRow
  <2>2. \A b \in Attempt : /\ attempts'[b].pool = attempts[b].pool
                           /\ attempts'[b].state \in Holding <=> attempts[b].state \in Holding
    BY <1>0, <1>5, ReplaceFacts DEF Dispatch, IntentIsUnused, Holding
  <2>3. UNCHANGED <<tenants, resources>>
    BY <1>5 DEF Dispatch
  <2>. QED  BY <1>0, <2>1, <2>2, <2>3, TenantKept, PoolKept
<1>6. ASSUME NEW e \in Execution, NEW a \in Attempt, NEW c \in Provider \cup {"not_dispatched"},
             attempts[a].state \in Holding, ConcludeAttempt(e, a, c)
      PROVE  Goal
  <2>1. \A x \in Execution : /\ executions'[x].principal = executions[x].principal
                             /\ executions'[x].state \in Unsettled <=> executions[x].state \in Unsettled
    BY <1>0, <1>6 DEF ConcludeAttempt, ExecutionRow, Unsettled, Open
  <2>2. UNCHANGED tenants /\ ReplaceAttempt(a, c) /\ ReleaseResource(attempts[a].pool) /\ c \notin Holding
    BY <1>6 DEF ConcludeAttempt, Provider, Holding
  <2>3. ResourceConservation'
    BY <1>0, <1>6, <2>2, PoolReturned
  <2>. QED  BY <1>0, <2>1, <2>2, <2>3, TenantKept
<1>7. ASSUME NEW e \in Execution, NEW a \in Attempt, NEW out \in Provider, RecordTerminal(e, a, out)
      PROVE  Goal
  BY <1>6, <1>7 DEF RecordTerminal, Provider, Holding
<1>8. ASSUME NEW e \in Execution, NEW a \in Attempt, AbandonPrepared(e, a) PROVE Goal
  BY <1>6, <1>8 DEF AbandonPrepared, Holding
<1>9. ASSUME NEW e \in Execution, NEW a \in Attempt, MarkUnknown(e, a) PROVE Goal
  <2>1. executions[e].state \in Unsettled
    <3>1. a \in AttemptsOf(e) /\ attempts[a].state = "dispatched"
      BY <1>9 DEF MarkUnknown
    <3>2. executions[e].state \notin Settled
      BY <1>0, <3>1, LedgerFacts DEF UnresolvedOf, Holding
    <3>3. executions[e].state # "absent"
      BY <1>0, <3>1 DEF TypeInv, Admitted, AttemptsOf
    <3>. QED  BY <1>0, <3>2, <3>3 DEF ExecutionRow, ExecutionState, Unsettled
  <2>2. \A x \in Execution : /\ executions'[x].principal = executions[x].principal
                             /\ executions'[x].state \in Unsettled <=> executions[x].state \in Unsettled
    BY <1>0, <1>9, <2>1 DEF MarkUnknown, ExecutionRow, Unsettled
  <2>3. \A b \in Attempt : /\ attempts'[b].pool = attempts[b].pool
                           /\ attempts'[b].state \in Holding <=> attempts[b].state \in Holding
    BY <1>0, <1>9, ReplaceFacts DEF MarkUnknown, Holding
  <2>4. UNCHANGED <<tenants, resources>>
    BY <1>9 DEF MarkUnknown
  <2>. QED  BY <1>0, <2>2, <2>3, <2>4, TenantKept, PoolKept
<1>10. ASSUME NEW e \in Execution, NEW out, FinalizeLocked(e, out) PROVE Goal
  <2>1. /\ executions[e].state \in Unsettled /\ executions'[e].state \in Settled
        /\ executions'[e].principal = executions[e].principal
        /\ \A x \in Execution \ {e} : executions'[x] = executions[x]
        /\ ReleaseTenant(TenantOfExecution(e))
    BY <1>0, <1>10 DEF FinalizeLocked, ExecutionRow, Unsettled, Settled
  <2>. QED  BY <1>0, <1>10, <2>1, TenantReleased, PoolFinalized
<1>11. ASSUME NEW e \in Execution, executions[e].state \in Open, LoseOwner(e) PROVE Goal
  <2>1. \A x \in Execution : /\ executions'[x].principal = executions[x].principal
                             /\ executions'[x].state \in Unsettled <=> executions[x].state \in Unsettled
    BY <1>0, <1>11 DEF LoseOwner, ExecutionRow, Unsettled
  <2>2. \A b \in Attempt :
          attempts'[b] = IF b \in InFlight(e) THEN [attempts[b] EXCEPT !.state = "unknown"]
                                              ELSE attempts[b]
    BY <1>11 DEF LoseOwner
  <2>3. \A b \in InFlight(e) : attempts[b].state \in {"dispatched", "unknown"}
    BY <1>11 DEF LoseOwner
  <2>4. \A b \in Attempt : /\ attempts'[b].pool = attempts[b].pool
                           /\ attempts'[b].state \in Holding <=> attempts[b].state \in Holding
    BY <1>0, <2>2, <2>3 DEF AttemptRow, Holding
  <2>5. UNCHANGED <<tenants, resources>>
    BY <1>11 DEF LoseOwner
  <2>. QED  BY <1>0, <2>1, <2>4, <2>5, TenantKept, PoolKept
<1>12. ASSUME NEW e \in Execution, NEW a \in Attempt, NEW out \in Resolution, ResolveAttempt(e, a, out)
       PROVE  Goal
  <2>1. /\ executions[e].state \in Unsettled /\ executions'[e].state \in Settled
        /\ executions'[e].principal = executions[e].principal
        /\ \A x \in Execution \ {e} : executions'[x] = executions[x]
        /\ ReleaseTenant(TenantOfExecution(e))
    BY <1>0, <1>12 DEF ResolveAttempt, ExecutionRow, Unsettled, Settled
  <2>2. /\ attempts[a].state \in Holding /\ "resolved" \notin Holding
        /\ ReplaceAttempt(a, "resolved") /\ ReleaseResource(attempts[a].pool)
    BY <1>12 DEF ResolveAttempt, Holding
  <2>. QED  BY <1>0, <2>1, <2>2, TenantReleased, PoolReturned
<1>13. ASSUME NEW e \in Execution, Finish(e, "succeeded") \/ Finish(e, "failed") \/ Recover(e)
       PROVE  Goal
  BY <1>10, <1>11, <1>13 DEF Finish, Recover, FinalizeOrphan
<1>14. ASSUME NEW t \in Tenant, NEW limits \in TenantLimits, PutTenant(t, limits) PROVE Goal
  <2>1. UNCHANGED <<resources, attempts>>
    BY <1>14 DEF PutTenant
  <2>. QED  BY <1>0, <1>14, <2>1, TenantReplaced, PoolKept
<1>15. ASSUME NEW p \in Pool, NEW limit \in ResourceLimits, PutResource(p, limit) PROVE Goal
  <2>1. UNCHANGED <<tenants, executions, attempts>>
    BY <1>15 DEF PutResource
  <2>2. resources \in [Pool -> [concurrent_attempts : Nat, policy_revision : Nat, active : Nat]]
    BY <1>0 DEF TypeInv, TypeOK
  <2>3. \A q \in Pool : resources'[q].active = resources[q].active
    BY <1>15, <2>2 DEF PutResource
  <2>. QED  BY <1>0, <2>1, <2>3, TenantKept, PoolKept
<1>16. CASE \/ UNCHANGED vars \/ Tick \/ PublishGeneration
            \/ \E o \in Owner : Join(o) \/ Heartbeat(o) \/ Drain(o)
            \/ \E p \in Principal : \E auth \in Authorization : SetPrincipal(p, auth)
            \/ \E p \in Pool : ImportCredential(p)
            \/ \E e \in Execution : Project(e)
  <2>1. UNCHANGED <<tenants, resources, executions, attempts>>
    BY <1>16 DEF vars, Tick, PublishGeneration, Join, Heartbeat, Drain, SetPrincipal,
                 ImportCredential, Project
  <2>. QED  BY <1>1, <2>1
<1>. HIDE DEF Goal
<1>. QED
  BY <1>2, <1>3, <1>4, <1>5, <1>7, <1>8, <1>9, <1>12, <1>13, <1>14, <1>15, <1>16 DEF Next, Provider

\* The invariant holds always.
LEMMA SlotCorrect == Spec => []SlotInv
  BY SlotInit, SlotStep, PTL DEF Spec

\* A tenant's concurrency counter is the number of its unsettled executions,
\* whoever settles them (finalization.rs, recovery.rs, resolution.rs).
THEOREM TenantConservationHolds == Spec => []TenantConservation
  BY SlotCorrect, PTL DEF SlotInv

\* A pool's counter is the number of attempts that may still be sent or running
\* (attempts.rs, finalization.rs, resolution.rs).
THEOREM ResourceConservationHolds == Spec => []ResourceConservation
  BY SlotCorrect, PTL DEF SlotInv

-----------------------------------------------------------------------------
(* Rates *)

\* The executions a tenant's and a key's counter counts.
TenantAccepted(t) ==
    {e \in Execution : /\ executions[e].state # "absent"
                       /\ TenantOfExecution(e) = t
                       /\ executions[e].minute = tenants[t].minute}
KeyAccepted(p) ==
    {e \in Execution : /\ executions[e].principal = p
                       /\ executions[e].authorization.rpm # None
                       /\ executions[e].minute = buckets[p].minute}

\* An identity without an execution is charged to nobody.
AbsentIsUncharged ==
    \A e \in Execution : executions[e].state = "absent" => executions[e].principal = None

\* No counter is behind the executions it counts: the minute of an execution is
\* at most its tenant's and its limited key's, and those are at most the
\* clock's.  A rollover therefore starts a minute nobody was accepted in.
MinutesFollow ==
    /\ \A e \in Execution : executions[e].state # "absent" =>
          /\ executions[e].minute <= tenants[TenantOfExecution(e)].minute
          /\ executions[e].authorization.rpm # None =>
                executions[e].minute <= buckets[executions[e].principal].minute
    /\ \A t \in Tenant : tenants[t].minute <= MinuteOf(now)
    /\ \A p \in Principal : buckets[p].minute <= MinuteOf(now)

\* Nothing was accepted for a tenant before its first policy.
PolicyPrecedes ==
    \A e \in Execution : executions[e].state # "absent" =>
       tenants[TenantOfExecution(e)].policy_revision > 0

\* The inductive invariant of the rate counters.
RateInv == RateAccounting /\ AbsentIsUncharged /\ MinutesFollow /\ PolicyPrecedes

\* RateAccounting speaks about the two sets.
LEMMA RateSets ==
    RateAccounting <=> /\ \A t \in Tenant : tenants[t].accepted = Cardinality(TenantAccepted(t))
                       /\ \A p \in Principal : buckets[p].accepted = Cardinality(KeyAccepted(p))
  BY DEF RateAccounting, TenantAccepted, KeyAccepted

\* The sets that are counted are finite.
LEMMA RatesFinite ==
    /\ \A t : IsFiniteSet(TenantAccepted(t)) /\ Cardinality(TenantAccepted(t)) \in Nat
    /\ \A p : IsFiniteSet(KeyAccepted(p)) /\ Cardinality(KeyAccepted(p)) \in Nat
<1>1. ASSUME NEW t
      PROVE  IsFiniteSet(TenantAccepted(t)) /\ Cardinality(TenantAccepted(t)) \in Nat
  <2>1. TenantAccepted(t) \in SUBSET Execution
    BY DEF TenantAccepted
  <2>. QED  BY <2>1, FS_Subset, FS_CardinalityType, EngineAssumption
<1>2. ASSUME NEW p PROVE IsFiniteSet(KeyAccepted(p)) /\ Cardinality(KeyAccepted(p)) \in Nat
  <2>1. KeyAccepted(p) \in SUBSET Execution
    BY DEF KeyAccepted
  <2>. QED  BY <2>1, FS_Subset, FS_CardinalityType, EngineAssumption
<1>. QED  BY <1>1, <1>2

\* The accounting minute never runs back.
LEMMA MinuteGrows ==
    ASSUME TypeOK, now' \in Nat, now <= now'
    PROVE  MinuteOf(now) <= MinuteOf(now') /\ MinuteOf(now) \in Nat /\ MinuteOf(now') \in Nat
<1>1. now \in Nat /\ MinuteTicks \in Nat \ {0}
  BY EngineAssumption DEF TypeOK
<1>2. \A n \in Nat : \A d \in Nat \ {0} : n \div d \in Nat /\ d * (n \div d) <= n /\ n < d * (n \div d) + d
  OBVIOUS
<1>3. \A d \in Nat \ {0} : \A x, y \in Nat : y + 1 <= x => d * y + d <= d * x
  OBVIOUS
<1>4. ASSUME NEW n \in Nat, NEW m \in Nat, n <= m, NEW d \in Nat \ {0}
      PROVE  n \div d <= m \div d
  <2>1. PICK x, y \in Nat : x = n \div d /\ y = m \div d
    BY <1>2
  <2>2. d * x <= n /\ m < d * y + d
    BY <1>2, <2>1
  <2>3. y + 1 <= x => d * y + d <= d * x
    BY <1>3
  <2>4. PICK u, v \in Int : u = d * x /\ v = d * y
    OBVIOUS
  <2>5. ~ (y + 1 <= x)
    BY <1>4, <2>2, <2>3, <2>4
  <2>. QED  BY <2>1, <2>5
<1>. QED  BY <1>1, <1>2, <1>4 DEF MinuteOf

\* What a rate counter and its minute say of an execution is fixed at admission.
ChargesKept ==
    \A x \in Execution :
       /\ executions'[x].principal = executions[x].principal
       /\ executions'[x].authorization = executions[x].authorization
       /\ executions'[x].minute = executions[x].minute
       /\ executions'[x].state = "absent" <=> executions[x].state = "absent"

\* A step that admits nothing and keeps the counters keeps the rates.
LEMMA RateKept ==
    ASSUME TypeInv, RateInv, ChargesKept, RatesKept, LeaseKept
    PROVE  RateInv'
<1>1. MinuteOf(now) <= MinuteOf(now') /\ MinuteOf(now) \in Nat /\ MinuteOf(now') \in Nat
  BY MinuteGrows DEF TypeInv, LeaseKept
<1>2. /\ tenants \in [Tenant -> TenantRow]
      /\ buckets \in [Principal -> [minute : Nat, accepted : Nat]]
      /\ \A t \in Tenant : tenants[t].minute \in Nat
      /\ \A p \in Principal : buckets[p].minute \in Nat
  BY DEF TypeInv, TypeOK, TenantRow
<1>3. \A e \in Execution : TenantOfExecution(e)' = TenantOfExecution(e)
  BY DEF ChargesKept, TenantOfExecution
<1>4. \A e \in Execution : executions[e].state # "absent" =>
         executions[e].principal \in Principal /\ TenantOfExecution(e) \in Tenant
  BY EngineAssumption DEF TypeInv, Admitted, TenantOfExecution
<1>5. ASSUME NEW t \in Tenant PROVE (tenants[t].accepted = Cardinality(TenantAccepted(t)))'
  <2>1. TenantAccepted(t)' = TenantAccepted(t)
    BY <1>3 DEF TenantAccepted, ChargesKept, RatesKept
  <2>. QED  BY <2>1, RateSets DEF RateInv, RatesKept
<1>6. ASSUME NEW p \in Principal PROVE (buckets[p].accepted = Cardinality(KeyAccepted(p)))'
  <2>1. KeyAccepted(p)' = KeyAccepted(p)
    BY DEF KeyAccepted, ChargesKept, RatesKept
  <2>. QED  BY <2>1, RateSets DEF RateInv, RatesKept
<1>7. RateAccounting'
  BY <1>5, <1>6 DEF RateAccounting, TenantAccepted, KeyAccepted
<1>8. AbsentIsUncharged'
  BY DEF RateInv, AbsentIsUncharged, ChargesKept
<1>9. ASSUME NEW e \in Execution, executions'[e].state # "absent"
      PROVE  /\ executions'[e].minute <= tenants'[TenantOfExecution(e)'].minute
             /\ executions'[e].authorization.rpm # None =>
                   executions'[e].minute <= buckets'[executions'[e].principal].minute
             /\ tenants'[TenantOfExecution(e)'].policy_revision > 0
  <2>1. executions[e].state # "absent"
    BY <1>9 DEF ChargesKept
  <2>2. TenantOfExecution(e)' = TenantOfExecution(e) /\ TenantOfExecution(e) \in Tenant
    BY <1>3, <1>4, <2>1
  <2>. QED  BY <2>1, <2>2 DEF RateInv, MinutesFollow, PolicyPrecedes, ChargesKept, RatesKept
<1>10. /\ \A t \in Tenant : tenants'[t].minute <= MinuteOf(now')
       /\ \A p \in Principal : buckets'[p].minute <= MinuteOf(now')
  BY <1>1, <1>2 DEF RateInv, MinutesFollow, RatesKept
<1>11. MinuteOf(now)' = MinuteOf(now')
  BY DEF MinuteOf
<1>. QED  BY <1>7, <1>8, <1>9, <1>10, <1>11 DEF RateInv, MinutesFollow, PolicyPrecedes

\* A new tenant starts with an empty minute, a replaced policy keeps the count.
LEMMA RateReplaced ==
    ASSUME TypeInv, RateInv, NEW u \in Tenant, NEW limits \in TenantLimits,
           PutTenant(u, limits)
    PROVE  RateInv'
<1>1. /\ tenants \in [Tenant -> TenantRow]
      /\ UNCHANGED <<now, executions, buckets>>
  BY DEF TypeInv, TypeOK, PutTenant, rows
<1>2. \A e \in Execution : TenantOfExecution(e)' = TenantOfExecution(e)
  BY <1>1 DEF TenantOfExecution
<1>3. \A e \in Execution : executions[e].state # "absent" => TenantOfExecution(e) \in Tenant
  BY EngineAssumption DEF TypeInv, Admitted, TenantOfExecution
<1>4. MinuteOf(now) \in Nat /\ MinuteOf(now)' = MinuteOf(now)
  BY <1>1, MinuteType DEF TypeInv, MinuteOf
<1>5. \A t \in Tenant : t # u \/ tenants[u].policy_revision # 0 =>
         tenants'[t].minute = tenants[t].minute /\ tenants'[t].accepted = tenants[t].accepted
  BY <1>1 DEF PutTenant, TenantRow
<1>6. tenants[u].policy_revision = 0 =>
         tenants'[u].minute = MinuteOf(now) /\ tenants'[u].accepted = 0
  BY <1>1 DEF PutTenant
<1>7. \A t \in Tenant : tenants[t].policy_revision \in Nat /\
         (tenants[t].policy_revision > 0 => tenants'[t].policy_revision > 0)
  BY <1>1 DEF PutTenant, TenantRow
<1>8. tenants[u].policy_revision = 0 =>
         \A e \in Execution : executions[e].state # "absent" => TenantOfExecution(e) # u
  BY <1>7 DEF RateInv, PolicyPrecedes
<1>9. ASSUME NEW t \in Tenant PROVE (tenants[t].accepted = Cardinality(TenantAccepted(t)))'
  <2>1. CASE t # u \/ tenants[u].policy_revision # 0
    <3>1. TenantAccepted(t)' = TenantAccepted(t)
      BY <1>1, <1>2, <1>5, <2>1 DEF TenantAccepted
    <3>. QED  BY <1>5, <2>1, <3>1, RateSets DEF RateInv
  <2>2. CASE t = u /\ tenants[u].policy_revision = 0
    <3>1. TenantAccepted(t)' = {}
      BY <1>1, <1>2, <1>8, <2>2 DEF TenantAccepted
    <3>. QED  BY <1>6, <2>2, <3>1, FS_EmptySet
  <2>. QED  BY <2>1, <2>2
<1>10. ASSUME NEW p \in Principal PROVE (buckets[p].accepted = Cardinality(KeyAccepted(p)))'
  <2>1. KeyAccepted(p)' = KeyAccepted(p)
    BY <1>1 DEF KeyAccepted
  <2>. QED  BY <1>1, <2>1, RateSets DEF RateInv
<1>11. RateAccounting'
  BY <1>9, <1>10 DEF RateAccounting, TenantAccepted, KeyAccepted
<1>12. ASSUME NEW e \in Execution, executions[e].state # "absent"
       PROVE  /\ executions[e].minute <= tenants'[TenantOfExecution(e)].minute
              /\ tenants'[TenantOfExecution(e)].policy_revision > 0
  <2>1. TenantOfExecution(e) \in Tenant /\ tenants[TenantOfExecution(e)].policy_revision > 0
        /\ executions[e].minute <= tenants[TenantOfExecution(e)].minute
    BY <1>3, <1>12 DEF RateInv, PolicyPrecedes, MinutesFollow
  <2>2. TenantOfExecution(e) # u \/ tenants[u].policy_revision # 0
    BY <1>8, <1>12
  <2>. QED  BY <1>5, <1>7, <2>1, <2>2
<1>13. \A t \in Tenant : tenants'[t].minute <= MinuteOf(now)
  BY <1>4, <1>5, <1>6 DEF RateInv, MinutesFollow
<1>. QED
  BY <1>1, <1>2, <1>4, <1>11, <1>12, <1>13
     DEF RateInv, AbsentIsUncharged, MinutesFollow, PolicyPrecedes

\* An admission counts once for its tenant and, if its key is limited, once for
\* its key; a minute that rolled over was empty.
LEMMA RateAdmitted ==
    ASSUME TypeInv, RateInv, NEW o \in Owner, NEW e \in Execution,
           NEW p \in Principal, NEW k \in Key \cup {None}, Admit(o, e, p, k)
    PROVE  RateInv'
<1>1. PICK u \in Tenant : u = TenantOf[p]
  BY EngineAssumption
<1>2. PICK m \in Nat : m = MinuteOf(now)
  BY MinuteType DEF TypeInv
<1>3. /\ tenants \in [Tenant -> TenantRow] /\ executions \in [Execution -> ExecutionRow]
      /\ buckets \in [Principal -> [minute : Nat, accepted : Nat]]
      /\ now' = now /\ MinuteOf(now)' = m
      /\ None \notin Principal
  BY <1>2, EngineAssumption DEF TypeInv, TypeOK, Admit, MinuteOf
<1>4. /\ tenants'[u].minute = m /\ tenants'[u].accepted = Spent(tenants[u]) + 1
      /\ tenants[u].policy_revision > 0
      /\ \A t \in Tenant : /\ tenants'[t].policy_revision = tenants[t].policy_revision
                           /\ t # u => tenants'[t] = tenants[t]
  BY <1>1, <1>2, <1>3 DEF Admit, TenantRow
<1>5. /\ executions[e].state = "absent" /\ executions'[e].state = "accepted"
      /\ executions'[e].principal = p /\ executions'[e].minute = m
      /\ executions'[e].authorization = principals[p]
      /\ \A x \in Execution \ {e} : executions'[x] = executions[x]
  BY <1>2, <1>3 DEF Admit
<1>6. /\ principals[p].rpm = None => buckets' = buckets
      /\ principals[p].rpm # None => /\ buckets'[p].minute = m
                                     /\ buckets'[p].accepted = Spent(buckets[p]) + 1
                                     /\ \A q \in Principal \ {p} : buckets'[q] = buckets[q]
  BY <1>2, <1>3 DEF Admit, ChargePrincipal
<1>7. \A x \in Execution \ {e} : TenantOfExecution(x)' = TenantOfExecution(x)
  BY <1>5 DEF TenantOfExecution
<1>8. TenantOfExecution(e)' = u
  BY <1>1, <1>5 DEF TenantOfExecution
<1>9. executions[e].principal \notin Principal
  BY <1>3, <1>5 DEF RateInv, AbsentIsUncharged
<1>10. /\ \A t \in Tenant : tenants[t].minute \in Nat /\ tenants[t].minute <= m
       /\ \A q \in Principal : buckets[q].minute \in Nat /\ buckets[q].minute <= m
       /\ \A x \in Execution : executions[x].minute \in Nat
  BY <1>2, <1>3 DEF RateInv, MinutesFollow, TenantRow, ExecutionRow
<1>11. \A x \in Execution : executions[x].state # "absent" =>
          /\ executions[x].principal \in Principal /\ TenantOfExecution(x) \in Tenant
          /\ executions[x].minute <= tenants[TenantOfExecution(x)].minute
          /\ executions[x].authorization.rpm # None =>
                executions[x].minute <= buckets[executions[x].principal].minute
  BY EngineAssumption DEF TypeInv, Admitted, TenantOfExecution, RateInv, MinutesFollow
<1>12. ASSUME NEW t \in Tenant PROVE (tenants[t].accepted = Cardinality(TenantAccepted(t)))'
  <2>1. CASE t # u
    <3>1. TenantAccepted(t)' = TenantAccepted(t)
      BY <1>4, <1>5, <1>7, <1>8, <2>1 DEF TenantAccepted
    <3>. QED  BY <1>4, <2>1, <3>1, RateSets DEF RateInv
  <2>2. CASE t = u
    <3>. DEFINE Before == {x \in Execution : /\ executions[x].state # "absent"
                                             /\ TenantOfExecution(x) = u
                                             /\ executions[x].minute = m}
    <3>1. TenantAccepted(t)' = Before \cup {e} /\ e \notin Before
      BY <1>4, <1>5, <1>7, <1>8, <2>2 DEF TenantAccepted
    <3>2. Spent(tenants[u]) = Cardinality(Before) /\ IsFiniteSet(Before)
      <4>1. CASE tenants[u].minute = m
        <5>1. Before = TenantAccepted(u)
          BY <4>1 DEF TenantAccepted
        <5>. QED  BY <1>2, <4>1, <5>1, RateSets, RatesFinite DEF Spent, RateInv
      <4>2. CASE tenants[u].minute # m
        <5>1. tenants[u].minute < m
          BY <1>10, <4>2
        <5>2. Before = {}
          BY <1>10, <1>11, <5>1
        <5>. QED  BY <1>2, <4>2, <5>2, FS_EmptySet DEF Spent
      <4>. QED  BY <4>1, <4>2
    <3>3. Cardinality(Before \cup {e}) = Cardinality(Before) + 1
      BY <3>1, <3>2, FS_AddElement
    <3>. QED  BY <1>4, <2>2, <3>1, <3>2, <3>3
  <2>. QED  BY <2>1, <2>2
<1>13. ASSUME NEW q \in Principal PROVE (buckets[q].accepted = Cardinality(KeyAccepted(q)))'
  <2>1. CASE q # p \/ principals[p].rpm = None
    <3>1. KeyAccepted(q)' = KeyAccepted(q)
      BY <1>5, <1>6, <1>9, <2>1 DEF KeyAccepted
    <3>. QED  BY <1>6, <2>1, <3>1, RateSets DEF RateInv
  <2>2. CASE q = p /\ principals[p].rpm # None
    <3>. DEFINE Before == {x \in Execution : /\ executions[x].principal = p
                                             /\ executions[x].authorization.rpm # None
                                             /\ executions[x].minute = m}
    <3>1. KeyAccepted(q)' = Before \cup {e} /\ e \notin Before
      BY <1>5, <1>6, <1>9, <2>2 DEF KeyAccepted
    <3>2. Spent(buckets[p]) = Cardinality(Before) /\ IsFiniteSet(Before)
      <4>1. CASE buckets[p].minute = m
        <5>1. Before = KeyAccepted(p)
          BY <4>1 DEF KeyAccepted
        <5>. QED  BY <1>2, <4>1, <5>1, RateSets, RatesFinite DEF Spent, RateInv
      <4>2. CASE buckets[p].minute # m
        <5>1. buckets[p].minute < m
          BY <1>10, <4>2
        <5>2. \A x \in Execution : executions[x].principal = p => executions[x].state # "absent"
          BY <1>3 DEF RateInv, AbsentIsUncharged
        <5>3. Before = {}
          BY <1>10, <1>11, <5>1, <5>2
        <5>. QED  BY <1>2, <4>2, <5>3, FS_EmptySet DEF Spent
      <4>. QED  BY <4>1, <4>2
    <3>3. Cardinality(Before \cup {e}) = Cardinality(Before) + 1
      BY <3>1, <3>2, FS_AddElement
    <3>. QED  BY <1>6, <2>2, <3>1, <3>2, <3>3
  <2>. QED  BY <2>1, <2>2
<1>14. RateAccounting'
  BY <1>12, <1>13 DEF RateAccounting, TenantAccepted, KeyAccepted
<1>15. AbsentIsUncharged'
  BY <1>5 DEF RateInv, AbsentIsUncharged
<1>16. /\ \A t \in Tenant : tenants[t].minute <= tenants'[t].minute /\ tenants'[t].minute <= m
       /\ \A q \in Principal : buckets[q].minute <= buckets'[q].minute /\ buckets'[q].minute <= m
       /\ \A t \in Tenant : tenants'[t].minute \in Nat
       /\ \A q \in Principal : buckets'[q].minute \in Nat
  BY <1>4, <1>6, <1>10
<1>17. ASSUME NEW x \in Execution, executions'[x].state # "absent"
       PROVE  /\ executions'[x].minute <= tenants'[TenantOfExecution(x)'].minute
              /\ executions'[x].authorization.rpm # None =>
                    executions'[x].minute <= buckets'[executions'[x].principal].minute
              /\ tenants'[TenantOfExecution(x)'].policy_revision > 0
  <2>1. CASE x = e
    BY <1>4, <1>5, <1>6, <1>8, <2>1
  <2>2. CASE x # e
    <3>1. /\ executions'[x] = executions[x] /\ executions[x].state # "absent"
          /\ TenantOfExecution(x)' = TenantOfExecution(x)
      BY <1>5, <1>7, <1>17, <2>2
    <3>2. tenants[TenantOfExecution(x)].policy_revision > 0
      BY <3>1 DEF RateInv, PolicyPrecedes
    <3>3. executions[x].principal \in Principal /\ TenantOfExecution(x) \in Tenant
          /\ executions[x].minute \in Nat
      BY <1>10, <1>11, <3>1
    <3>. QED  BY <1>4, <1>10, <1>11, <1>16, <3>1, <3>2, <3>3
  <2>. QED  BY <2>1, <2>2
<1>. QED
  BY <1>3, <1>14, <1>15, <1>16, <1>17 DEF RateInv, MinutesFollow, PolicyPrecedes

\* Every step keeps the rates.
LEMMA RateStep == LedgerInv /\ RateInv /\ [Next]_vars => RateInv'
<1>. SUFFICES ASSUME LedgerInv, RateInv, [Next]_vars PROVE RateInv'
  OBVIOUS
<1>0. /\ TypeInv /\ LeaseKept
      /\ executions \in [Execution -> ExecutionRow] /\ tenants \in [Tenant -> TenantRow]
  BY LeaseStep DEF LedgerInv, TypeInv, TypeOK
<1>. USE DEF authority, counters, rows
<1>1. ASSUME NEW e \in Execution, NEW a \in Attempt, NEW out \in Provider,
             RecordTerminal(e, a, out)
      PROVE  RateInv'
  <2>1. ChargesKept
    BY <1>0, <1>1 DEF RecordTerminal, ConcludeAttempt, ChargesKept, ExecutionRow
  <2>. QED  BY <1>0, <1>1, <2>1, RateKept DEF RecordTerminal, ConcludeAttempt, RatesKept
<1>2. ASSUME NEW e \in Execution, NEW out, FinalizeLocked(e, out) PROVE RateInv'
  <2>1. ChargesKept
    BY <1>0, <1>2 DEF FinalizeLocked, Open, ChargesKept, ExecutionRow
  <2>2. RatesKept
    BY <1>0, <1>2 DEF FinalizeLocked, ReleaseTenant, RatesKept, TenantRow
  <2>. QED  BY <1>0, <2>1, <2>2, RateKept
<1>3. ASSUME NEW e \in Execution, NEW a \in Attempt, NEW out \in Resolution,
             ResolveAttempt(e, a, out)
      PROVE  RateInv'
  <2>1. ChargesKept
    BY <1>0, <1>3 DEF ResolveAttempt, ChargesKept, ExecutionRow
  <2>2. RatesKept
    BY <1>0, <1>3 DEF ResolveAttempt, ReleaseTenant, RatesKept, TenantRow
  <2>. QED  BY <1>0, <2>1, <2>2, RateKept
<1>4. ASSUME NEW e \in Execution, NEW ep \in Episode, GuardedRoute(e, ep) PROVE RateInv'
  <2>1. ChargesKept
    BY <1>0, <1>4 DEF GuardedRoute, BindTrajectory, ChargesKept, ExecutionRow
  <2>. QED  BY <1>0, <1>4, <2>1, RateKept DEF GuardedRoute, RatesKept
<1>5. ASSUME NEW e \in Execution, Project(e) PROVE RateInv'
  BY <1>0, <1>5, RateKept DEF Project, ChargesKept, RatesKept
<1>6. CASE Silent
  BY <1>0, <1>6, RateKept DEF Silent, RowsKept, ChargesKept
<1>. QED
  BY <1>0, <1>1, <1>2, <1>3, <1>4, <1>5, <1>6, RateAdmitted, RateReplaced, FrameStep

\* The rate counters of a minute count exactly the executions accepted in it
\* (admission.rs, admit_with_id): no rollover, policy
\* replacement or settlement makes a limit admit more or fewer.
THEOREM RateAccountingHolds == Spec => []RateAccounting
<1>1. Init => RateInv
  <2>. SUFFICES ASSUME Init PROVE RateInv
    OBVIOUS
  <2>1. \A e \in Execution : executions[e].state = "absent" /\ executions[e].principal = None
    BY DEF Init, NoExecution
  <2>2. None \notin Principal /\ now = 0 /\ MinuteOf(now) = 0
    BY EngineAssumption DEF Init, MinuteOf
  <2>3. \A t \in Tenant : tenants[t].accepted = 0 /\ tenants[t].minute = 0 /\ TenantAccepted(t) = {}
    BY <2>1 DEF Init, NoTenant, TenantAccepted
  <2>4. \A p \in Principal : buckets[p].accepted = 0 /\ buckets[p].minute = 0 /\ KeyAccepted(p) = {}
    BY <2>1, <2>2 DEF Init, KeyAccepted
  <2>5. RateAccounting
    BY <2>3, <2>4, FS_EmptySet, RateSets
  <2>. QED
    BY <2>1, <2>2, <2>3, <2>4, <2>5 DEF RateInv, AbsentIsUncharged, MinutesFollow, PolicyPrecedes
<1>2. RateInv => RateAccounting
  BY DEF RateInv
<1>. QED  BY <1>1, <1>2, RateStep, LedgerCorrect, PTL DEF Spec
=============================================================================
