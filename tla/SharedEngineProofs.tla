------------------------- MODULE SharedEngineProofs -------------------------
(***************************************************************************)
(* Proofs about the engine for any number of incarnations, tenants, pools, *)
(* executions and attempts: type correctness, the ledger of attempts, and  *)
(* what a step may touch, from which the other proofs start.               *)
(***************************************************************************)
EXTENDS SharedEngine, FiniteSetTheorems, TLAPS

-----------------------------------------------------------------------------
(* Type correctness *)

\* An execution that exists names a principal, an owner and the contents of the
\* principal's row at admission; one that does not exist has no attempts.
Admitted ==
    \A e \in Execution :
       IF executions[e].state = "absent"
       THEN executions[e].attempts = <<>>
       ELSE /\ executions[e].principal \in Principal
            /\ executions[e].owner \in Owner
            /\ executions[e].authorization \in Authorization

\* The inductive invariant of type correctness.
TypeInv == TypeOK /\ Admitted

\* The accounting minute of a clock reading is a natural number.
LEMMA MinuteType == TypeOK => MinuteOf(now) \in Nat
<1>. SUFFICES ASSUME TypeOK PROVE MinuteOf(now) \in Nat
  OBVIOUS
<1>1. now \in Nat
  BY EngineAssumption DEF TypeOK
<1>2. \A n \in Nat : \A m \in Nat \ {0} : n \div m \in Nat
  OBVIOUS
<1>. QED  BY <1>1, <1>2, EngineAssumption DEF MinuteOf

\* The reservations that a finalization gives back to a pool are finitely many.
LEMMA PreparedFinite ==
    ASSUME NEW e \in Execution, NEW p, TypeOK
    PROVE  /\ PreparedOf(e) \subseteq Attempt
           /\ IsFiniteSet({a \in PreparedOf(e) : attempts[a].pool = p})
           /\ Cardinality({a \in PreparedOf(e) : attempts[a].pool = p}) \in Nat
<1>1. PreparedOf(e) \subseteq Attempt
  BY DEF PreparedOf, AttemptsOf, TypeOK, ExecutionRow
<1>2. {a \in PreparedOf(e) : attempts[a].pool = p} \in SUBSET Attempt
  BY <1>1
<1>3. IsFiniteSet({a \in PreparedOf(e) : attempts[a].pool = p})
  BY <1>2, FS_Subset, EngineAssumption
<1>. QED  BY <1>1, <1>3, FS_CardinalityType

\* Entering a fence keeps the fences typed.
LEMMA FenceType ==
    ASSUME TypeOK, NEW e \in Execution, InstallProjectionFence(e)
    PROVE  fences' \in [Episode -> SUBSET Execution]
  BY DEF InstallProjectionFence, TypeOK

\* Replacing an attempt's state keeps the rows and the views typed.
LEMMA ReplaceType ==
    ASSUME TypeOK, NEW a \in Attempt, NEW s \in AttemptState, ReplaceAttempt(a, s)
    PROVE  attempts' \in [Attempt -> AttemptRow] /\ views' \in [Attempt -> AttemptState]
<1>1. attempts \in [Attempt -> AttemptRow] /\ views \in [Attempt -> AttemptState]
  BY DEF TypeOK
<1>2. [attempts[a] EXCEPT !.state = s] \in AttemptRow
  BY <1>1 DEF AttemptRow
<1>. QED  BY <1>1, <1>2 DEF ReplaceAttempt

\* Returning a slot keeps the pools typed: the counter was positive.
LEMMA ReleaseResourceType ==
    ASSUME TypeOK, NEW p, ReleaseResource(p)
    PROVE  resources' \in [Pool -> [concurrent_attempts : Nat, policy_revision : Nat, active : Nat]]
<1>1. resources \in [Pool -> [concurrent_attempts : Nat, policy_revision : Nat, active : Nat]]
  BY DEF TypeOK
<1>2. CASE p \in Pool
  <2>1. resources[p].active - 1 \in Nat
    BY <1>1, <1>2 DEF ReleaseResource
  <2>2. [resources[p] EXCEPT !.active = resources[p].active - 1]
          \in [concurrent_attempts : Nat, policy_revision : Nat, active : Nat]
    BY <1>1, <1>2, <2>1
  <2>. QED  BY <1>1, <2>2 DEF ReleaseResource
<1>3. CASE p \notin Pool
  BY <1>1, <1>3 DEF ReleaseResource
<1>. QED  BY <1>2, <1>3

\* Returning a slot keeps the tenants typed: the counter was positive.
LEMMA ReleaseTenantType ==
    ASSUME TypeOK, NEW t, ReleaseTenant(t)
    PROVE  tenants' \in [Tenant -> TenantRow]
<1>1. tenants \in [Tenant -> TenantRow]
  BY DEF TypeOK
<1>2. CASE t \in Tenant
  <2>1. tenants[t] \in TenantRow /\ tenants[t].active - 1 \in Nat
    BY <1>1, <1>2 DEF ReleaseTenant, TenantRow
  <2>2. [tenants[t] EXCEPT !.active = tenants[t].active - 1] \in TenantRow
    BY <2>1 DEF TenantRow
  <2>. QED  BY <1>1, <2>2 DEF ReleaseTenant
<1>3. CASE t \notin Tenant
  BY <1>1, <1>3 DEF ReleaseTenant
<1>. QED  BY <1>2, <1>3

\* A published event is a snapshot of the execution's log.
LEMMA PublishType ==
    ASSUME TypeOK, NEW e \in Execution, NEW s \in Settled, NEW out \in ResultOf,
           views' \in [Attempt -> AttemptState], PublishTerminalEvent(e, s, out)
    PROVE  events' \in [Execution -> Event \cup {None}]
<1>1. events \in [Execution -> Event \cup {None}]
  BY DEF TypeOK
<1>2. executions[e].attempts \in Seq(Attempt)
  BY DEF TypeOK, ExecutionRow
<1>3. [i \in DOMAIN executions[e].attempts |-> views'[executions[e].attempts[i]]] \in Seq(AttemptState)
  BY <1>2
<1>4. Snapshot(s, out, executions[e].attempts, views') \in Event
  BY <1>3 DEF Snapshot, Event
<1>. QED  BY <1>1, <1>4 DEF PublishTerminalEvent

\* A step that replaces other fields of an existing execution keeps its type
\* and the identities it was admitted with.
LEMMA RowKept ==
    ASSUME TypeInv, NEW e \in Execution, executions[e].state # "absent",
           NEW r \in ExecutionRow, executions' = [executions EXCEPT ![e] = r],
           r.state # "absent",
           r.principal = executions[e].principal, r.owner = executions[e].owner,
           r.authorization = executions[e].authorization
    PROVE  executions' \in [Execution -> ExecutionRow] /\ Admitted'
  BY DEF TypeInv, TypeOK, Admitted

\* A bootstrapped namespace is typed.
LEMMA TypeInit == Init => TypeInv
  BY EngineAssumption
     DEF Init, TypeInv, TypeOK, Admitted, NoExecution, NoAttempt, NoTenant, NoResource,
         ExecutionRow, AttemptRow, TenantRow, Event, NoDue, ExecutionState, AttemptState,
         ResultOf, Open, Settled, Holding, Provider, Resolution

\* Every transaction keeps the types.
LEMMA TypeStep == TypeInv /\ [Next]_vars => TypeInv'
<1>. SUFFICES ASSUME TypeInv, [Next]_vars PROVE TypeInv'
  OBVIOUS
<1>. USE DEF TypeInv, authority, counters, rows
<1>1. CASE UNCHANGED vars
  BY <1>1 DEF TypeOK, Admitted, vars
<1>2. CASE Tick
  BY <1>2, EngineAssumption DEF Tick, TypeOK, Admitted
<1>3. CASE PublishGeneration
  BY <1>3 DEF PublishGeneration, TypeOK, Admitted
<1>4. ASSUME NEW o \in Owner, Join(o) \/ Heartbeat(o) \/ Drain(o) PROVE TypeInv'
  <2>1. Deadline \in Nat
    BY EngineAssumption DEF Deadline, TypeOK
  <2>2. instances' \in [Owner -> [status : {"absent", "live", "draining"}, expires : Nat]]
    <3>1. instances \in [Owner -> [status : {"absent", "live", "draining"}, expires : Nat]]
      BY DEF TypeOK
    <3>2. CASE Join(o)
      BY <2>1, <3>1, <3>2 DEF Join
    <3>3. CASE Heartbeat(o)
      BY <2>1, <3>1, <3>3 DEF Heartbeat
    <3>4. CASE Drain(o)
      BY <2>1, <3>1, <3>4 DEF Drain
    <3>. QED  BY <1>4, <3>2, <3>3, <3>4
  <2>. QED  BY <1>4, <2>2 DEF Join, Heartbeat, Drain, TypeOK, Admitted
<1>5. ASSUME NEW p \in Principal, NEW auth \in Authorization, SetPrincipal(p, auth) PROVE TypeInv'
  BY <1>5 DEF SetPrincipal, TypeOK, Admitted
<1>6. ASSUME NEW t \in Tenant, NEW limits \in TenantLimits, PutTenant(t, limits) PROVE TypeInv'
  <2>1. MinuteOf(now) \in Nat
    BY MinuteType
  <2>2. tenants \in [Tenant -> TenantRow]
    BY DEF TypeOK
  <2>3. [limits |-> limits, policy_revision |-> 1, active |-> 0,
         minute |-> MinuteOf(now), accepted |-> 0] \in TenantRow
    BY <2>1 DEF TenantRow
  <2>4. [tenants[t] EXCEPT !.limits = limits,
                           !.policy_revision = tenants[t].policy_revision + 1] \in TenantRow
    <3>1. tenants[t] \in TenantRow /\ tenants[t].policy_revision + 1 \in Nat
      BY <2>2 DEF TenantRow
    <3>. QED  BY <3>1 DEF TenantRow
  <2>5. tenants' \in [Tenant -> TenantRow]
    BY <1>6, <2>2, <2>3, <2>4 DEF PutTenant
  <2>. QED  BY <1>6, <2>5 DEF PutTenant, TypeOK, Admitted
<1>7. ASSUME NEW p \in Pool, ImportCredential(p) PROVE TypeInv'
  BY <1>7 DEF ImportCredential, TypeOK, Admitted
<1>8. ASSUME NEW p \in Pool, NEW limit \in ResourceLimits, PutResource(p, limit) PROVE TypeInv'
  <2>1. resources \in [Pool -> [concurrent_attempts : Nat, policy_revision : Nat, active : Nat]]
    BY DEF TypeOK
  <2>2. resources' \in [Pool -> [concurrent_attempts : Nat, policy_revision : Nat, active : Nat]]
    BY <1>8, <2>1, EngineAssumption DEF PutResource
  <2>. QED  BY <1>8, <2>2 DEF PutResource, TypeOK, Admitted
<1>9. ASSUME NEW o \in Owner, NEW e \in Execution, NEW p \in Principal,
             NEW k \in Key \cup {None}, Admit(o, e, p, k)
      PROVE  TypeInv'
  <2>. DEFINE t == TenantOf[p]
  <2>1. t \in Tenant /\ MinuteOf(now) \in Nat /\ Spent(tenants[t]) + 1 \in Nat
    BY MinuteType, EngineAssumption DEF Spent, TypeOK, TenantRow
  <2>2. tenants' \in [Tenant -> TenantRow]
    <3>1. tenants \in [Tenant -> TenantRow]
      BY DEF TypeOK
    <3>2. tenants[t] \in TenantRow /\ tenants[t].active + 1 \in Nat
      BY <2>1, <3>1 DEF TenantRow
    <3>3. [tenants[t] EXCEPT !.active = tenants[t].active + 1, !.minute = MinuteOf(now),
                             !.accepted = Spent(tenants[t]) + 1] \in TenantRow
      BY <2>1, <3>2 DEF TenantRow
    <3>. QED  BY <1>9, <3>1, <3>3 DEF Admit
  <2>3. buckets' \in [Principal -> [minute : Nat, accepted : Nat]]
    <3>1. buckets \in [Principal -> [minute : Nat, accepted : Nat]] /\ Spent(buckets[p]) + 1 \in Nat
      BY DEF TypeOK, Spent
    <3>. QED  BY <1>9, <2>1, <3>1 DEF Admit, ChargePrincipal
  <2>4. executions \in [Execution -> ExecutionRow] /\ head \in Nat /\ principals[p] \in Authorization
        /\ tenants[t].policy_revision \in Nat /\ instances[o].expires \in Nat
    BY <2>1 DEF TypeOK, TenantRow
  <2>5. PICK r \in ExecutionRow :
          /\ executions' = [executions EXCEPT ![e] = r]
          /\ r.state # "absent" /\ r.principal = p /\ r.owner = o /\ r.authorization = principals[p]
    <3>. DEFINE r == [state |-> "accepted", outcome |-> "none", principal |-> p, owner |-> o,
            authorization |-> principals[p],
            tenant_revision |-> tenants[t].policy_revision, generation |-> head,
            trajectory |-> None, minute |-> MinuteOf(now),
            due |-> instances[o].expires, attempts |-> <<>>, key |-> k]
    <3>1. r \in ExecutionRow
      BY <2>1, <2>4 DEF ExecutionRow, ExecutionState, Open, ResultOf
    <3>2. executions' = [executions EXCEPT ![e] = r]
      BY <1>9 DEF Admit
    <3>. QED  BY <3>1, <3>2
  <2>6. executions' \in [Execution -> ExecutionRow] /\ Admitted'
    BY <2>4, <2>5 DEF Admitted
  <2>7. idempotency' \in [Tenant -> [Key -> Execution \cup {None}]]
    BY <1>9, <2>1 DEF Admit, TypeOK
  <2>. QED  BY <1>9, <2>2, <2>3, <2>6, <2>7 DEF Admit, TypeOK
<1>10. ASSUME NEW e \in Execution, NEW a \in Attempt, NEW p \in Pool, PrepareAttempt(e, a, p)
       PROVE  TypeInv'
  <2>1. /\ executions \in [Execution -> ExecutionRow] /\ executions[e] \in ExecutionRow
        /\ executions[e].state # "absent" /\ executions[e].owner \in Owner
        /\ instances[executions[e].owner].expires \in Nat
    BY <1>10 DEF PrepareAttempt, AuthorizedExecution, TypeOK, Admitted, Open
  <2>2. Append(executions[e].attempts, a) \in Seq(Attempt)
    BY <2>1 DEF ExecutionRow
  <2>. DEFINE r == [executions[e] EXCEPT !.attempts = Append(executions[e].attempts, a),
                       !.state = "running", !.due = instances[executions[e].owner].expires]
  <2>3. r \in ExecutionRow
    BY <2>1, <2>2 DEF ExecutionRow, ExecutionState, Open
  <2>4. executions' = [executions EXCEPT ![e] = r]
    BY <1>10 DEF PrepareAttempt
  <2>5. r.state # "absent" /\ r.principal = executions[e].principal /\ r.owner = executions[e].owner
        /\ r.authorization = executions[e].authorization
    BY <2>1 DEF ExecutionRow
  <2>6. executions' \in [Execution -> ExecutionRow] /\ Admitted'
    BY <2>1, <2>3, <2>4, <2>5, RowKept
  <2>7. attempts' \in [Attempt -> AttemptRow] /\ views' \in [Attempt -> AttemptState]
    BY <1>10 DEF PrepareAttempt, TypeOK, AttemptRow, AttemptState, Holding
  <2>8. resources' \in [Pool -> [concurrent_attempts : Nat, policy_revision : Nat, active : Nat]]
    <3>1. resources \in [Pool -> [concurrent_attempts : Nat, policy_revision : Nat, active : Nat]]
      BY DEF TypeOK
    <3>2. resources[p].active + 1 \in Nat
      BY <3>1
    <3>. QED  BY <1>10, <3>1, <3>2 DEF PrepareAttempt
  <2>. QED  BY <1>10, <2>6, <2>7, <2>8 DEF PrepareAttempt, TypeOK
<1>11. ASSUME NEW e \in Execution, NEW a \in Attempt, Dispatch(e, a) PROVE TypeInv'
  <2>1. /\ executions[e] \in ExecutionRow
        /\ executions[e].state # "absent" /\ executions[e].owner \in Owner
        /\ instances[executions[e].owner].expires \in Nat
    BY <1>11 DEF Dispatch, AuthorizedExecution, TypeOK, Admitted, Open
  <2>. DEFINE r == [executions[e] EXCEPT !.due = instances[executions[e].owner].expires]
  <2>2. r \in ExecutionRow /\ r.state # "absent" /\ r.principal = executions[e].principal
        /\ r.owner = executions[e].owner /\ r.authorization = executions[e].authorization
    BY <2>1 DEF ExecutionRow
  <2>3. executions' = [executions EXCEPT ![e] = r]
    BY <1>11 DEF Dispatch
  <2>4. executions' \in [Execution -> ExecutionRow] /\ Admitted'
    BY <2>1, <2>2, <2>3, RowKept
  <2>5. attempts' \in [Attempt -> AttemptRow] /\ views' \in [Attempt -> AttemptState]
    BY <1>11, ReplaceType DEF Dispatch, AttemptState, Holding
  <2>6. permits' \in [Attempt -> Nat]
    BY <1>11 DEF Dispatch, TypeOK
  <2>. QED  BY <1>11, <2>4, <2>5, <2>6 DEF Dispatch, TypeOK
<1>12. ASSUME NEW e \in Execution, NEW a \in Attempt,
              NEW c \in Provider \cup {"not_dispatched"},
              fences' \in [Episode -> SUBSET Execution], ConcludeAttempt(e, a, c)
       PROVE  TypeInv'
  <2>1. executions[e] \in ExecutionRow /\ executions[e].state # "absent" /\ now \in Nat
    BY <1>12, EngineAssumption DEF ConcludeAttempt, TypeOK
  <2>. DEFINE r == [executions[e] EXCEPT !.state = "running", !.due = now]
  <2>2. r \in ExecutionRow /\ r.state # "absent" /\ r.principal = executions[e].principal
        /\ r.owner = executions[e].owner /\ r.authorization = executions[e].authorization
    BY <2>1 DEF ExecutionRow, ExecutionState, Open
  <2>3. executions' = [executions EXCEPT ![e] = r]
    BY <1>12 DEF ConcludeAttempt, ConcludedDue
  <2>4. executions' \in [Execution -> ExecutionRow] /\ Admitted'
    BY <2>1, <2>2, <2>3, RowKept
  <2>5. attempts' \in [Attempt -> AttemptRow] /\ views' \in [Attempt -> AttemptState]
    BY <1>12, ReplaceType DEF ConcludeAttempt, AttemptState
  <2>6. resources' \in [Pool -> [concurrent_attempts : Nat, policy_revision : Nat, active : Nat]]
    BY <1>12, ReleaseResourceType DEF ConcludeAttempt
  <2>. QED  BY <1>12, <2>4, <2>5, <2>6 DEF ConcludeAttempt, TypeOK
<1>13. ASSUME NEW e \in Execution, NEW a \in Attempt, NEW out \in Provider,
              RecordTerminal(e, a, out)
       PROVE  TypeInv'
  BY <1>12, <1>13, FenceType DEF RecordTerminal
<1>14. ASSUME NEW e \in Execution, NEW a \in Attempt, AbandonPrepared(e, a) PROVE TypeInv'
  BY <1>12, <1>14 DEF AbandonPrepared, TypeOK
<1>15. ASSUME NEW e \in Execution, NEW a \in Attempt, MarkUnknown(e, a) PROVE TypeInv'
  <2>1. executions[e] \in ExecutionRow /\ executions[e].state # "absent"
    BY <1>15 DEF MarkUnknown, AttemptsOf, TypeOK, Admitted
  <2>. DEFINE r == [executions[e] EXCEPT !.state = "unknown", !.due = NoDue]
  <2>2. r \in ExecutionRow /\ r.state # "absent" /\ r.principal = executions[e].principal
        /\ r.owner = executions[e].owner /\ r.authorization = executions[e].authorization
    BY <2>1 DEF ExecutionRow, ExecutionState
  <2>3. executions' = [executions EXCEPT ![e] = r]
    BY <1>15 DEF MarkUnknown
  <2>4. executions' \in [Execution -> ExecutionRow] /\ Admitted'
    BY <2>1, <2>2, <2>3, RowKept
  <2>5. attempts' \in [Attempt -> AttemptRow] /\ views' \in [Attempt -> AttemptState]
    BY <1>15, ReplaceType DEF MarkUnknown, AttemptState, Holding
  <2>. QED  BY <1>15, <2>4, <2>5 DEF MarkUnknown, TypeOK
<1>16. ASSUME NEW e \in Execution, NEW out \in ResultOf, FinalizeLocked(e, out) PROVE TypeInv'
  <2>1. executions[e] \in ExecutionRow /\ executions[e].state # "absent"
    BY <1>16 DEF FinalizeLocked, TypeOK, Open
  <2>. DEFINE r == [executions[e] EXCEPT !.state = "terminal", !.outcome = out, !.due = NoDue]
  <2>2. r \in ExecutionRow /\ r.state # "absent" /\ r.principal = executions[e].principal
        /\ r.owner = executions[e].owner /\ r.authorization = executions[e].authorization
    BY <2>1 DEF ExecutionRow, ExecutionState, Settled
  <2>3. executions' = [executions EXCEPT ![e] = r]
    BY <1>16 DEF FinalizeLocked
  <2>4. executions' \in [Execution -> ExecutionRow] /\ Admitted'
    BY <2>1, <2>2, <2>3, RowKept
  <2>5. attempts' \in [Attempt -> AttemptRow] /\ views' \in [Attempt -> AttemptState]
    <3>1. attempts \in [Attempt -> AttemptRow] /\ views \in [Attempt -> AttemptState]
      BY DEF TypeOK
    <3>2. \A b \in Attempt : [attempts[b] EXCEPT !.state = "not_dispatched"] \in AttemptRow
      BY <3>1 DEF AttemptRow, AttemptState
    <3>. QED  BY <1>16, <3>1, <3>2 DEF FinalizeLocked, AttemptState
  <2>6. resources' \in [Pool -> [concurrent_attempts : Nat, policy_revision : Nat, active : Nat]]
    <3>. DEFINE n(p) == Cardinality({b \in PreparedOf(e) : attempts[b].pool = p})
    <3>1. \A p \in Pool : n(p) \in Nat
      BY PreparedFinite
    <3>2. resources \in [Pool -> [concurrent_attempts : Nat, policy_revision : Nat, active : Nat]]
      BY DEF TypeOK
    <3>3. \A p \in Pool : n(p) <= resources[p].active
      BY <1>16 DEF FinalizeLocked
    <3>4. resources' = [p \in Pool |-> [resources[p] EXCEPT !.active = resources[p].active - n(p)]]
      BY <1>16 DEF FinalizeLocked
    <3>. HIDE DEF n
    <3>5. \A p \in Pool : resources[p].active - n(p) \in Nat
      BY <3>1, <3>2, <3>3
    <3>. QED  BY <3>2, <3>4, <3>5
  <2>7. fences' \in [Episode -> SUBSET Execution]
    BY <1>16, FenceType DEF FinalizeLocked
  <2>8. tenants' \in [Tenant -> TenantRow]
    BY <1>16, ReleaseTenantType DEF FinalizeLocked
  <2>9. events' \in [Execution -> Event \cup {None}]
    BY <1>16, <2>5, PublishType DEF FinalizeLocked, Settled
  <2>. QED  BY <1>16, <2>4, <2>5, <2>6, <2>7, <2>8, <2>9 DEF FinalizeLocked, TypeOK
<1>17. ASSUME NEW e \in Execution, NEW out \in Provider, Finish(e, out) PROVE TypeInv'
  BY <1>16, <1>17 DEF Finish, ResultOf
<1>18. ASSUME NEW e \in Execution, Postpone(e) PROVE TypeInv'
  <2>1. executions[e] \in ExecutionRow /\ executions[e].state # "absent"
        /\ instances[executions[e].owner].expires \in Nat
    BY <1>18 DEF Postpone, Open, TypeOK, Admitted
  <2>. DEFINE r == [executions[e] EXCEPT !.due = instances[executions[e].owner].expires]
  <2>2. r \in ExecutionRow /\ r.state # "absent" /\ r.principal = executions[e].principal
        /\ r.owner = executions[e].owner /\ r.authorization = executions[e].authorization
    BY <2>1 DEF ExecutionRow
  <2>3. executions' = [executions EXCEPT ![e] = r]
    BY <1>18 DEF Postpone
  <2>4. executions' \in [Execution -> ExecutionRow] /\ Admitted'
    BY <2>1, <2>2, <2>3, RowKept
  <2>. QED  BY <1>18, <2>4 DEF Postpone, TypeOK
<1>19. ASSUME NEW e \in Execution, executions[e].state \in Open, LoseOwner(e) PROVE TypeInv'
  <2>1. executions[e] \in ExecutionRow /\ executions[e].state # "absent"
    BY <1>19 DEF Open, TypeOK
  <2>. DEFINE r == [executions[e] EXCEPT !.state = "unknown", !.due = NoDue]
  <2>2. r \in ExecutionRow /\ r.state # "absent" /\ r.principal = executions[e].principal
        /\ r.owner = executions[e].owner /\ r.authorization = executions[e].authorization
    BY <2>1 DEF ExecutionRow, ExecutionState
  <2>3. executions' = [executions EXCEPT ![e] = r]
    BY <1>19 DEF LoseOwner
  <2>4. executions' \in [Execution -> ExecutionRow] /\ Admitted'
    BY <2>1, <2>2, <2>3, RowKept
  <2>5. attempts' \in [Attempt -> AttemptRow] /\ views' \in [Attempt -> AttemptState]
    <3>1. attempts \in [Attempt -> AttemptRow] /\ views \in [Attempt -> AttemptState]
      BY DEF TypeOK
    <3>2. \A b \in Attempt : [attempts[b] EXCEPT !.state = "unknown"] \in AttemptRow
      BY <3>1 DEF AttemptRow, AttemptState, Holding
    <3>. QED  BY <1>19, <3>1, <3>2 DEF LoseOwner, AttemptState, Holding
  <2>. QED  BY <1>19, <2>4, <2>5 DEF LoseOwner, TypeOK
<1>20. ASSUME NEW e \in Execution, Recover(e) PROVE TypeInv'
  BY <1>16, <1>19, <1>20 DEF Recover, FinalizeOrphan, ResultOf
<1>21. ASSUME NEW e \in Execution, DeferRecovery(e) PROVE TypeInv'
  <2>1. executions[e] \in ExecutionRow /\ executions[e].state # "absent" /\ now + DeferTicks \in Nat
    BY <1>21, EngineAssumption DEF DeferRecovery, Open, TypeOK
  <2>. DEFINE r == [executions[e] EXCEPT !.due = now + DeferTicks]
  <2>2. r \in ExecutionRow /\ r.state # "absent" /\ r.principal = executions[e].principal
        /\ r.owner = executions[e].owner /\ r.authorization = executions[e].authorization
    BY <2>1 DEF ExecutionRow
  <2>3. executions' = [executions EXCEPT ![e] = r]
    BY <1>21 DEF DeferRecovery
  <2>4. executions' \in [Execution -> ExecutionRow] /\ Admitted'
    BY <2>1, <2>2, <2>3, RowKept
  <2>. QED  BY <1>21, <2>4 DEF DeferRecovery, TypeOK
<1>22. ASSUME NEW e \in Execution, NEW a \in Attempt, NEW out \in Resolution,
              ResolveAttempt(e, a, out)
       PROVE  TypeInv'
  <2>1. executions[e] \in ExecutionRow /\ executions[e].state # "absent" /\ out \in ResultOf
    BY <1>22 DEF ResolveAttempt, TypeOK, ResultOf
  <2>. DEFINE r == [executions[e] EXCEPT !.state = "resolved", !.outcome = out, !.due = NoDue]
  <2>2. r \in ExecutionRow /\ r.state # "absent" /\ r.principal = executions[e].principal
        /\ r.owner = executions[e].owner /\ r.authorization = executions[e].authorization
    BY <2>1 DEF ExecutionRow, ExecutionState, Settled
  <2>3. executions' = [executions EXCEPT ![e] = r]
    BY <1>22 DEF ResolveAttempt
  <2>4. executions' \in [Execution -> ExecutionRow] /\ Admitted'
    BY <2>1, <2>2, <2>3, RowKept
  <2>5. attempts' \in [Attempt -> AttemptRow] /\ views' \in [Attempt -> AttemptState]
    BY <1>22, ReplaceType DEF ResolveAttempt, AttemptState
  <2>6. resources' \in [Pool -> [concurrent_attempts : Nat, policy_revision : Nat, active : Nat]]
    BY <1>22, ReleaseResourceType DEF ResolveAttempt
  <2>7. fences' \in [Episode -> SUBSET Execution]
    BY <1>22, FenceType DEF ResolveAttempt
  <2>8. tenants' \in [Tenant -> TenantRow]
    BY <1>22, ReleaseTenantType DEF ResolveAttempt
  <2>9. events' \in [Execution -> Event \cup {None}]
    BY <1>22, <2>5, PublishType DEF ResolveAttempt, Settled, ResultOf
  <2>. QED  BY <1>22, <2>4, <2>5, <2>6, <2>7, <2>8, <2>9 DEF ResolveAttempt, TypeOK
<1>23. ASSUME NEW e \in Execution, NEW ep \in Episode, GuardedRoute(e, ep) PROVE TypeInv'
  <2>1. executions[e] \in ExecutionRow /\ executions[e].state # "absent"
        /\ instances[executions[e].owner].expires \in Nat
    BY <1>23 DEF GuardedRoute, AuthorizedExecution, Open, TypeOK, Admitted
  <2>. DEFINE r == [executions[e] EXCEPT !.trajectory = ep,
                                         !.due = instances[executions[e].owner].expires]
  <2>2. r \in ExecutionRow /\ r.state # "absent" /\ r.principal = executions[e].principal
        /\ r.owner = executions[e].owner /\ r.authorization = executions[e].authorization
    BY <2>1 DEF ExecutionRow
  <2>3. executions' = [executions EXCEPT ![e] = r]
    BY <1>23 DEF GuardedRoute, BindTrajectory
  <2>4. executions' \in [Execution -> ExecutionRow] /\ Admitted'
    BY <2>1, <2>2, <2>3, RowKept
  <2>5. fences' \in [Episode -> SUBSET Execution] /\ projected' \subseteq Execution
    BY <1>23 DEF GuardedRoute, CatchUp, TypeOK
  <2>. QED  BY <1>23, <2>4, <2>5 DEF GuardedRoute, TypeOK
<1>24. ASSUME NEW e \in Execution, Project(e) PROVE TypeInv'
  <2>1. fences' \in [Episode -> SUBSET Execution] /\ projected' \subseteq Execution
    BY <1>24 DEF Project, ProjectIn, TypeOK
  <2>. QED  BY <1>24, <2>1 DEF Project, TypeOK, Admitted
<1>. QED
  BY <1>1, <1>2, <1>3, <1>4, <1>5, <1>6, <1>7, <1>8, <1>9, <1>10, <1>11, <1>13, <1>14,
     <1>15, <1>17, <1>18, <1>20, <1>21, <1>22, <1>23, <1>24
     DEF Next

\* Every record keeps its type: in particular no lease, counter, revision or due
\* time leaves the naturals, for every choice of the constants.
THEOREM TypeCorrect == Spec => []TypeOK
<1>1. Init => TypeInv
  BY TypeInit
<1>2. TypeInv /\ [Next]_vars => TypeInv'
  BY TypeStep
<1>3. TypeInv => TypeOK
  BY DEF TypeInv
<1>. QED  BY <1>1, <1>2, <1>3, PTL DEF Spec

-----------------------------------------------------------------------------
(* The attempt ledger, unresolved work and the send authorisation *)

\* OneUnresolvedAttempt for a single execution.
UnresolvedOf(e) ==
    /\ \A a, b \in AttemptsOf(e) :
          attempts[a].state \in Holding /\ attempts[b].state \in Holding => a = b
    /\ executions[e].state = "unknown" <=>
          \E a \in AttemptsOf(e) : attempts[a].state = "unknown"
    /\ executions[e].state \in Settled =>
          \A a \in AttemptsOf(e) : attempts[a].state \notin Holding

\* The inductive invariant of the ledger.
LedgerInv == TypeInv /\ AttemptLedger /\ OneUnresolvedAttempt /\ SendOnce

\* OneUnresolvedAttempt is UnresolvedOf of every execution.
LEMMA UnresolvedParts == OneUnresolvedAttempt <=> \A e \in Execution : UnresolvedOf(e)
  BY DEF OneUnresolvedAttempt, UnresolvedOf

\* The log of an execution names attempts.
LEMMA AttemptsType ==
    ASSUME TypeOK, NEW e \in Execution
    PROVE  AttemptsOf(e) \subseteq Attempt
  BY DEF AttemptsOf, TypeOK, ExecutionRow

\* The attempts of an execution whose log is unchanged are unchanged.
LEMMA SameAttempts ==
    ASSUME NEW e \in Execution, executions'[e].attempts = executions[e].attempts
    PROVE  AttemptsOf(e)' = AttemptsOf(e)
  BY DEF AttemptsOf

\* A step that keeps the logs, and every row's existence, owner and view, keeps
\* the ledger.
LEMMA LedgerKept ==
    ASSUME LedgerInv,
           \A e \in Execution : executions'[e].attempts = executions[e].attempts,
           \A b \in Attempt : /\ attempts'[b].execution = attempts[b].execution
                              /\ attempts'[b].state = "absent" <=> attempts[b].state = "absent"
                              /\ views'[b] = attempts'[b].state
    PROVE  AttemptLedger'
<1>1. ASSUME NEW e \in Execution
      PROVE  AttemptsOf(e)' = AttemptsOf(e) /\ AttemptsOf(e) \subseteq Attempt
  BY SameAttempts, AttemptsType DEF LedgerInv, TypeInv
<1>2. (\A a \in Attempt : attempts[a].state # "absent" =>
          attempts[a].execution \in Execution /\ a \in AttemptsOf(attempts[a].execution))'
  BY DEF LedgerInv, AttemptLedger, AttemptsOf
<1>3. \A e \in Execution : \A a \in AttemptsOf(e)' :
         attempts'[a].state # "absent" /\ attempts'[a].execution = e
  BY <1>1 DEF LedgerInv, AttemptLedger
<1>4. \A e \in Execution : \A i, j \in DOMAIN executions'[e].attempts :
         executions'[e].attempts[i] = executions'[e].attempts[j] => i = j
  BY DEF LedgerInv, AttemptLedger
<1>. QED  BY <1>2, <1>3, <1>4 DEF AttemptLedger

\* A step of one execution does not touch the unresolved work of another.
LEMMA OthersKept ==
    ASSUME LedgerInv, NEW e \in Execution,
           \A x \in Execution : executions'[x].attempts = executions[x].attempts,
           \A x \in Execution \ {e} : executions'[x].state = executions[x].state,
           \A b \in Attempt : attempts[b].execution # e => attempts'[b].state = attempts[b].state
    PROVE  \A x \in Execution \ {e} : UnresolvedOf(x)'
<1>. SUFFICES ASSUME NEW x \in Execution \ {e} PROVE UnresolvedOf(x)'
  OBVIOUS
<1>1. AttemptsOf(x)' = AttemptsOf(x) /\ AttemptsOf(x) \subseteq Attempt
  BY SameAttempts, AttemptsType DEF LedgerInv, TypeInv
<1>2. \A b \in AttemptsOf(x) : attempts'[b].state = attempts[b].state
  BY <1>1 DEF LedgerInv, AttemptLedger
<1>3. UnresolvedOf(x)
  BY UnresolvedParts DEF LedgerInv
<1>. QED  BY <1>1, <1>2, <1>3 DEF UnresolvedOf

\* A step that touches neither states, logs, attempts nor permits.
LEMMA LedgerUntouched ==
    ASSUME LedgerInv,
           \A e \in Execution : /\ executions'[e].attempts = executions[e].attempts
                                /\ executions'[e].state = executions[e].state,
           UNCHANGED <<attempts, views, permits>>
    PROVE  AttemptLedger' /\ OneUnresolvedAttempt' /\ SendOnce'
<1>1. AttemptLedger'
  <2>1. \A b \in Attempt : views'[b] = attempts'[b].state
    BY DEF LedgerInv, AttemptLedger
  <2>. QED  BY <2>1, LedgerKept
<1>2. ASSUME NEW x \in Execution PROVE UnresolvedOf(x)'
  <2>1. UnresolvedOf(x) /\ AttemptsOf(x)' = AttemptsOf(x)
    BY UnresolvedParts, SameAttempts DEF LedgerInv
  <2>. QED  BY <2>1 DEF UnresolvedOf
<1>3. OneUnresolvedAttempt'
  BY <1>2 DEF OneUnresolvedAttempt, UnresolvedOf
<1>. QED  BY <1>1, <1>3 DEF LedgerInv, SendOnce

\* A step of execution e that moves some of its attempts to new states.
LEMMA LedgerMoved ==
    ASSUME LedgerInv, NEW e \in Execution,
           \A x \in Execution : executions'[x].attempts = executions[x].attempts,
           \A x \in Execution \ {e} : executions'[x].state = executions[x].state,
           \A b \in Attempt : /\ attempts'[b].execution = attempts[b].execution
                              /\ attempts'[b].state = "absent" <=> attempts[b].state = "absent"
                              /\ attempts[b].execution # e => attempts'[b].state = attempts[b].state
                              /\ views'[b] = attempts'[b].state,
           UnresolvedOf(e)'
    PROVE  AttemptLedger' /\ OneUnresolvedAttempt'
<1>1. AttemptLedger'
  BY LedgerKept
<1>2. \A x \in Execution \ {e} : UnresolvedOf(x)'
  BY OthersKept
<1>3. OneUnresolvedAttempt'
  BY <1>2 DEF OneUnresolvedAttempt, UnresolvedOf
<1>. QED  BY <1>1, <1>3

\* The ledger is empty at first.
LEMMA LedgerInit == Init => LedgerInv
<1>. SUFFICES ASSUME Init PROVE LedgerInv
  OBVIOUS
<1>1. TypeInv
  BY TypeInit
<1>2. \A e \in Execution : AttemptsOf(e) = {} /\ executions[e].attempts = <<>>
                           /\ executions[e].state = "absent"
  BY DEF Init, NoExecution, AttemptsOf
<1>3. \A a \in Attempt : attempts[a].state = "absent" /\ views[a] = "absent" /\ permits[a] = 0
  BY DEF Init, NoAttempt
<1>. QED  BY <1>1, <1>2, <1>3 DEF LedgerInv, AttemptLedger, OneUnresolvedAttempt, SendOnce, Settled

\* What the ledger says about the attempts of an execution.
LEMMA LedgerFacts ==
    ASSUME LedgerInv, NEW e \in Execution
    PROVE  /\ AttemptsOf(e) \subseteq Attempt
           /\ \A b \in AttemptsOf(e) : attempts[b].execution = e /\ attempts[b].state # "absent"
           /\ \A b \in Attempt : views[b] = attempts[b].state
           /\ \A b \in Attempt : attempts[b] \in AttemptRow /\ permits[b] \in Nat
           /\ executions \in [Execution -> ExecutionRow]
           /\ attempts \in [Attempt -> AttemptRow] /\ views \in [Attempt -> AttemptState]
           /\ UnresolvedOf(e)
  BY AttemptsType, UnresolvedParts DEF LedgerInv, AttemptLedger, TypeInv, TypeOK

\* What replacing the state of one attempt does to the rows and the views.
LEMMA ReplaceFacts ==
    ASSUME LedgerInv, NEW a \in Attempt, NEW s, ReplaceAttempt(a, s)
    PROVE  /\ attempts'[a].state = s
           /\ \A b \in Attempt : /\ attempts'[b].execution = attempts[b].execution
                                 /\ attempts'[b].pool = attempts[b].pool
                                 /\ b # a => attempts'[b] = attempts[b]
                                 /\ views'[b] = attempts'[b].state
<1>1. attempts \in [Attempt -> AttemptRow] /\ views \in [Attempt -> AttemptState]
      /\ \A b \in Attempt : views[b] = attempts[b].state
  BY DEF LedgerInv, TypeInv, TypeOK, AttemptLedger
<1>2. attempts[a] \in AttemptRow
  BY <1>1
<1>. QED  BY <1>1, <1>2 DEF ReplaceAttempt, AttemptRow

\* Every transaction keeps the ledger, one unresolved attempt and one send.
LEMMA LedgerStep == LedgerInv /\ [Next]_vars => LedgerInv'
<1>. SUFFICES ASSUME LedgerInv, [Next]_vars PROVE AttemptLedger' /\ OneUnresolvedAttempt' /\ SendOnce'
  BY TypeStep DEF LedgerInv
<1>. USE DEF authority, counters, rows
<1>1. CASE UNCHANGED <<executions, attempts, views, permits>>
  BY <1>1, LedgerUntouched
<1>2. ASSUME NEW o \in Owner, NEW e \in Execution, NEW p \in Principal,
             NEW k \in Key \cup {None}, Admit(o, e, p, k)
      PROVE  AttemptLedger' /\ OneUnresolvedAttempt' /\ SendOnce'
  <2>1. executions \in [Execution -> ExecutionRow] /\ executions[e].state = "absent"
        /\ executions[e].attempts = <<>> /\ AttemptsOf(e) = {}
    BY <1>2 DEF Admit, LedgerInv, TypeInv, TypeOK, Admitted, AttemptsOf
  <2>2. /\ executions'[e].attempts = <<>> /\ executions'[e].state = "accepted"
        /\ \A x \in Execution \ {e} : executions'[x] = executions[x]
    BY <1>2, <2>1 DEF Admit
  <2>3. UNCHANGED <<attempts, views, permits>>
    BY <1>2 DEF Admit
  <2>4. AttemptsOf(e)' = {}
    BY <2>1, <2>2, SameAttempts
  <2>5. UnresolvedOf(e)'
    BY <2>2, <2>4 DEF UnresolvedOf, Settled
  <2>6. AttemptLedger' /\ OneUnresolvedAttempt'
    BY <2>1, <2>2, <2>3, <2>5, LedgerMoved, LedgerFacts
  <2>. QED  BY <2>3, <2>6 DEF SendOnce, LedgerInv
<1>3. ASSUME NEW e \in Execution, Postpone(e) \/ DeferRecovery(e)
                                  \/ \E ep \in Episode : GuardedRoute(e, ep)
      PROVE  AttemptLedger' /\ OneUnresolvedAttempt' /\ SendOnce'
  <2>1. executions \in [Execution -> ExecutionRow]
    BY LedgerFacts
  <2>2. \A x \in Execution : /\ executions'[x].attempts = executions[x].attempts
                             /\ executions'[x].state = executions[x].state
    <3>1. CASE Postpone(e)
      BY <3>1, <2>1 DEF Postpone, ExecutionRow
    <3>2. CASE DeferRecovery(e)
      BY <3>2, <2>1 DEF DeferRecovery, ExecutionRow
    <3>3. ASSUME NEW ep \in Episode, GuardedRoute(e, ep)
          PROVE  \A x \in Execution : /\ executions'[x].attempts = executions[x].attempts
                                      /\ executions'[x].state = executions[x].state
      BY <3>3, <2>1 DEF GuardedRoute, BindTrajectory, ExecutionRow
    <3>. QED  BY <1>3, <3>1, <3>2, <3>3
  <2>3. UNCHANGED <<attempts, views, permits>>
    BY <1>3 DEF Postpone, DeferRecovery, GuardedRoute
  <2>. QED  BY <2>2, <2>3, LedgerUntouched
<1>4. ASSUME NEW e \in Execution, NEW a \in Attempt, NEW p \in Pool, PrepareAttempt(e, a, p)
      PROVE  AttemptLedger' /\ OneUnresolvedAttempt' /\ SendOnce'
  <2>. DEFINE log == executions[e].attempts
  <2>1. /\ executions \in [Execution -> ExecutionRow]
        /\ log \in Seq(Attempt)
        /\ attempts[a].state = "absent" /\ executions[e].state \in Open
    BY <1>4 DEF PrepareAttempt, AuthorizedExecution, LedgerInv, TypeInv, TypeOK, ExecutionRow
  <2>2. /\ executions'[e].attempts = Append(log, a) /\ executions'[e].state = "running"
        /\ \A x \in Execution \ {e} : executions'[x] = executions[x]
    BY <1>4, <2>1 DEF PrepareAttempt, ExecutionRow
  <2>3. /\ attempts'[a].state = "prepared" /\ attempts'[a].execution = e
        /\ \A b \in Attempt \ {a} : attempts'[b] = attempts[b]
        /\ \A b \in Attempt : views'[b] = attempts'[b].state
    BY <1>4, LedgerFacts DEF PrepareAttempt
  <2>4. \A x \in Execution : a \notin AttemptsOf(x)
    BY <2>1, LedgerFacts
  <2>5. AttemptsOf(e)' = AttemptsOf(e) \cup {a}
    BY <2>1, <2>2 DEF AttemptsOf
  <2>6. \A x \in Execution \ {e} : AttemptsOf(x)' = AttemptsOf(x)
    BY <2>2, SameAttempts
  <2>7. AttemptLedger'
    <3>1. ASSUME NEW x \in Execution
          PROVE  \A b \in AttemptsOf(x)' : attempts'[b].state # "absent" /\ attempts'[b].execution = x
      BY <2>3, <2>4, <2>5, <2>6, LedgerFacts
    <3>2. ASSUME NEW x \in Execution
          PROVE  \A i, j \in DOMAIN executions'[x].attempts :
                    executions'[x].attempts[i] = executions'[x].attempts[j] => i = j
      <4>1. \A i, j \in DOMAIN executions[x].attempts :
                executions[x].attempts[i] = executions[x].attempts[j] => i = j
        BY DEF LedgerInv, AttemptLedger
      <4>2. CASE x = e
        <5>1. \A i \in DOMAIN log : log[i] # a
          BY <2>4 DEF AttemptsOf
        <5>2. /\ Len(log) \in Nat /\ DOMAIN log = 1..Len(log)
              /\ DOMAIN executions'[e].attempts = 1..(Len(log) + 1)
              /\ \A i \in 1..Len(log) : executions'[e].attempts[i] = log[i]
              /\ executions'[e].attempts[Len(log) + 1] = a
          BY <2>1, <2>2
        <5>3. \A i, j \in 1..Len(log) : log[i] = log[j] => i = j
          BY <4>1, <4>2, <5>2
        <5>. DEFINE n == Len(log)   new == executions'[e].attempts
        <5>4. \A i \in 1..n : new[i] # a
          BY <5>1, <5>2
        <5>5. \A i, j \in 1..n : new[i] = new[j] => i = j
          BY <5>2, <5>3
        <5>6. n \in Nat /\ DOMAIN new = 1..(n + 1) /\ new[n + 1] = a
          BY <5>2
        <5>. HIDE DEF n, new
        <5>7. \A i, j \in 1..(n + 1) : new[i] = new[j] => i = j
          <6>1. \A i \in 1..(n + 1) : i \in 1..n \/ i = n + 1
            BY <5>6
          <6>. QED  BY <5>4, <5>5, <5>6, <6>1
        <5>. QED  BY <4>2, <5>6, <5>7 DEF new
      <4>. QED  BY <2>2, <4>1, <4>2
    <3>3. ASSUME NEW b \in Attempt, attempts'[b].state # "absent"
          PROVE  (attempts[b].execution \in Execution /\ b \in AttemptsOf(attempts[b].execution))'
      <4>1. CASE b = a
        <5>1. a \in AttemptsOf(e)' /\ attempts'[b].execution = e
          BY <2>3, <2>5, <4>1
        <5>. QED  BY <4>1, <5>1 DEF AttemptsOf
      <4>2. CASE b # a
        <5>1. attempts'[b] = attempts[b] /\ attempts[b].execution \in Execution
              /\ b \in AttemptsOf(attempts[b].execution)
          BY <2>3, <3>3, <4>2 DEF LedgerInv, AttemptLedger
        <5>. DEFINE x == attempts[b].execution
        <5>2. b \in AttemptsOf(x)' /\ attempts'[b].execution = x
          BY <2>5, <2>6, <5>1
        <5>. QED  BY <5>1, <5>2 DEF AttemptsOf
      <4>. QED  BY <4>1, <4>2
    <3>. QED  BY <2>3, <3>1, <3>2, <3>3 DEF AttemptLedger
  <2>8. ASSUME NEW x \in Execution PROVE UnresolvedOf(x)'
    <3>1. UnresolvedOf(x) /\ AttemptsOf(x) \subseteq Attempt
      BY LedgerFacts
    <3>2. CASE x # e
      BY <2>2, <2>3, <2>4, <2>6, <3>1, <3>2 DEF UnresolvedOf
    <3>3. CASE x = e
      <4>1. \A b \in AttemptsOf(e) : attempts[b].state \in Provider \cup {"not_dispatched"}
        BY <1>4, LedgerFacts DEF PrepareAttempt
      <4>2. \A b \in AttemptsOf(e) : attempts'[b].state \notin Holding /\ attempts'[b].state # "unknown"
        BY <2>3, <2>4, <3>1, <3>3, <4>1 DEF Provider, Holding
      <4>. QED  BY <2>2, <2>3, <2>5, <3>3, <4>2 DEF UnresolvedOf, Settled
    <3>. QED  BY <3>2, <3>3
  <2>9. OneUnresolvedAttempt'
    BY <2>8 DEF OneUnresolvedAttempt, UnresolvedOf
  <2>10. SendOnce'
    <3>1. permits' = permits /\ SendOnce
      BY <1>4 DEF PrepareAttempt, LedgerInv
    <3>2. permits[a] # 1
      BY <2>1, <3>1 DEF SendOnce, Provider
    <3>. QED  BY <2>3, <3>1, <3>2 DEF SendOnce
  <2>. QED  BY <2>7, <2>9, <2>10
<1>5. ASSUME NEW e \in Execution, NEW a \in Attempt, Dispatch(e, a)
      PROVE  AttemptLedger' /\ OneUnresolvedAttempt' /\ SendOnce'
  <2>1. executions \in [Execution -> ExecutionRow] /\ permits \in [Attempt -> Nat] /\ UnresolvedOf(e)
        /\ executions[e].state \in Open /\ attempts[a].state = "prepared"
        /\ a \in AttemptsOf(e) /\ attempts[a].execution = e
    BY <1>5, LedgerFacts
       DEF Dispatch, IntentIsUnused, AuthorizedExecution, LedgerInv, TypeInv, TypeOK
  <2>2. \A x \in Execution : /\ executions'[x].attempts = executions[x].attempts
                             /\ executions'[x].state = executions[x].state
    BY <1>5, <2>1 DEF Dispatch, ExecutionRow
  <2>3. /\ attempts'[a].state = "dispatched"
        /\ \A b \in Attempt : /\ attempts'[b].execution = attempts[b].execution
                              /\ b # a => attempts'[b] = attempts[b]
                              /\ views'[b] = attempts'[b].state
    BY <1>5, ReplaceFacts DEF Dispatch
  <2>4. AttemptsOf(e)' = AttemptsOf(e) /\ AttemptsOf(e) \subseteq Attempt
    BY <2>2, SameAttempts, LedgerFacts
  <2>5. UnresolvedOf(e)'
    BY <2>1, <2>2, <2>3, <2>4 DEF UnresolvedOf, Holding, Open, Settled
  <2>6. AttemptLedger' /\ OneUnresolvedAttempt'
    BY <2>1, <2>2, <2>3, <2>5, LedgerMoved
  <2>7. SendOnce'
    <3>1. SendOnce /\ permits[a] = 0
      BY <2>1 DEF LedgerInv, SendOnce, Provider
    <3>2. \A b \in Attempt \ {a} : permits'[b] = permits[b]
      BY <1>5, <2>1 DEF Dispatch
    <3>3. permits'[a] <= 1
      BY <1>5, <2>1, <3>1 DEF Dispatch
    <3>. QED  BY <2>3, <3>1, <3>2, <3>3 DEF SendOnce
  <2>. QED  BY <2>6, <2>7
<1>6. ASSUME NEW e \in Execution, NEW a \in Attempt, NEW c \in Provider \cup {"not_dispatched"},
             attempts[a].state \in Holding, ConcludeAttempt(e, a, c),
             c = "not_dispatched" => attempts[a].state = "prepared"
      PROVE  AttemptLedger' /\ OneUnresolvedAttempt' /\ SendOnce'
  <2>1. executions \in [Execution -> ExecutionRow] /\ UnresolvedOf(e)
        /\ a \in AttemptsOf(e) /\ attempts[a].execution = e
    BY <1>6, LedgerFacts DEF ConcludeAttempt
  <2>2. /\ \A x \in Execution : executions'[x].attempts = executions[x].attempts
        /\ \A x \in Execution \ {e} : executions'[x].state = executions[x].state
        /\ executions'[e].state = "running"
    BY <1>6, <2>1 DEF ConcludeAttempt, ExecutionRow
  <2>3. /\ attempts'[a].state = c
        /\ \A b \in Attempt : /\ attempts'[b].execution = attempts[b].execution
                              /\ b # a => attempts'[b] = attempts[b]
                              /\ views'[b] = attempts'[b].state
    BY <1>6, ReplaceFacts DEF ConcludeAttempt
  <2>4. AttemptsOf(e)' = AttemptsOf(e) /\ AttemptsOf(e) \subseteq Attempt
    BY <2>2, SameAttempts, LedgerFacts
  <2>5. \A b \in AttemptsOf(e) : attempts'[b].state \notin Holding
    BY <1>6, <2>1, <2>3, <2>4 DEF UnresolvedOf, Holding, Provider
  <2>6. UnresolvedOf(e)'
    BY <2>2, <2>4, <2>5 DEF UnresolvedOf, Holding, Settled
  <2>7. AttemptLedger' /\ OneUnresolvedAttempt'
    BY <1>6, <2>1, <2>2, <2>3, <2>6, LedgerMoved DEF Provider, Holding
  <2>8. SendOnce'
    <3>1. permits' = permits /\ SendOnce
      BY <1>6 DEF ConcludeAttempt, LedgerInv
    <3>. QED  BY <1>6, <2>3, <3>1 DEF SendOnce, Provider
  <2>. QED  BY <2>7, <2>8
<1>7. ASSUME NEW e \in Execution, NEW a \in Attempt, NEW out \in Provider, RecordTerminal(e, a, out)
      PROVE  AttemptLedger' /\ OneUnresolvedAttempt' /\ SendOnce'
  BY <1>6, <1>7 DEF RecordTerminal, Provider, Holding
<1>8. ASSUME NEW e \in Execution, NEW a \in Attempt, AbandonPrepared(e, a)
      PROVE  AttemptLedger' /\ OneUnresolvedAttempt' /\ SendOnce'
  BY <1>6, <1>8 DEF AbandonPrepared, Holding
<1>9. ASSUME NEW e \in Execution, NEW a \in Attempt, MarkUnknown(e, a)
      PROVE  AttemptLedger' /\ OneUnresolvedAttempt' /\ SendOnce'
  <2>1. executions \in [Execution -> ExecutionRow] /\ UnresolvedOf(e)
        /\ a \in AttemptsOf(e) /\ attempts[a].execution = e /\ attempts[a].state = "dispatched"
    BY <1>9, LedgerFacts DEF MarkUnknown
  <2>2. /\ \A x \in Execution : executions'[x].attempts = executions[x].attempts
        /\ \A x \in Execution \ {e} : executions'[x].state = executions[x].state
        /\ executions'[e].state = "unknown"
    BY <1>9, <2>1 DEF MarkUnknown, ExecutionRow
  <2>3. /\ attempts'[a].state = "unknown"
        /\ \A b \in Attempt : /\ attempts'[b].execution = attempts[b].execution
                              /\ b # a => attempts'[b] = attempts[b]
                              /\ views'[b] = attempts'[b].state
    BY <1>9, ReplaceFacts DEF MarkUnknown
  <2>4. AttemptsOf(e)' = AttemptsOf(e) /\ AttemptsOf(e) \subseteq Attempt
    BY <2>2, SameAttempts, LedgerFacts
  <2>5. UnresolvedOf(e)'
    BY <2>1, <2>2, <2>3, <2>4 DEF UnresolvedOf, Holding, Settled
  <2>6. AttemptLedger' /\ OneUnresolvedAttempt'
    BY <2>1, <2>2, <2>3, <2>5, LedgerMoved
  <2>7. SendOnce'
    <3>1. permits' = permits /\ SendOnce
      BY <1>9 DEF MarkUnknown, LedgerInv
    <3>. QED  BY <2>3, <3>1 DEF SendOnce
  <2>. QED  BY <2>6, <2>7
<1>10. ASSUME NEW e \in Execution, NEW out, FinalizeLocked(e, out)
       PROVE  AttemptLedger' /\ OneUnresolvedAttempt' /\ SendOnce'
  <2>1. /\ executions \in [Execution -> ExecutionRow] /\ attempts \in [Attempt -> AttemptRow]
        /\ AttemptsOf(e) \subseteq Attempt
        /\ \A b \in Attempt : views[b] = attempts[b].state
        /\ \A b \in AttemptsOf(e) : attempts[b].execution = e
        /\ \A b \in AttemptsOf(e) : attempts[b].state \in Provider \cup {"prepared", "not_dispatched"}
    BY <1>10, LedgerFacts DEF FinalizeLocked
  <2>2. /\ \A x \in Execution : executions'[x].attempts = executions[x].attempts
        /\ \A x \in Execution \ {e} : executions'[x].state = executions[x].state
        /\ executions'[e].state = "terminal"
    BY <1>10, <2>1 DEF FinalizeLocked, ExecutionRow
  <2>3. \A b \in Attempt :
          /\ attempts'[b] = IF b \in PreparedOf(e)
                            THEN [attempts[b] EXCEPT !.state = "not_dispatched"] ELSE attempts[b]
          /\ views'[b] = IF b \in PreparedOf(e) THEN "not_dispatched" ELSE views[b]
    BY <1>10 DEF FinalizeLocked
  <2>4. \A b \in PreparedOf(e) : b \in AttemptsOf(e) /\ attempts[b].state = "prepared"
                                 /\ attempts[b].execution = e
    BY <2>1 DEF PreparedOf
  <2>5. \A b \in Attempt :
          /\ attempts'[b].execution = attempts[b].execution
          /\ attempts'[b].state = IF b \in PreparedOf(e) THEN "not_dispatched" ELSE attempts[b].state
          /\ views'[b] = attempts'[b].state
    BY <2>1, <2>3 DEF AttemptRow
  <2>6. AttemptsOf(e)' = AttemptsOf(e)
    BY <2>2, SameAttempts
  <2>7. \A b \in AttemptsOf(e) : attempts'[b].state \notin Holding
    BY <2>1, <2>5 DEF PreparedOf, Provider, Holding
  <2>8. UnresolvedOf(e)'
    BY <2>2, <2>6, <2>7 DEF UnresolvedOf, Holding
  <2>9. AttemptLedger' /\ OneUnresolvedAttempt'
    BY <2>2, <2>4, <2>5, <2>8, LedgerMoved
  <2>10. SendOnce'
    <3>1. permits' = permits /\ SendOnce
      BY <1>10 DEF FinalizeLocked, LedgerInv
    <3>. QED  BY <2>4, <2>5, <3>1 DEF SendOnce, Provider
  <2>. QED  BY <2>9, <2>10
<1>11. ASSUME NEW e \in Execution, LoseOwner(e)
       PROVE  AttemptLedger' /\ OneUnresolvedAttempt' /\ SendOnce'
  <2>1. /\ executions \in [Execution -> ExecutionRow] /\ attempts \in [Attempt -> AttemptRow]
        /\ AttemptsOf(e) \subseteq Attempt /\ UnresolvedOf(e)
        /\ \A b \in Attempt : views[b] = attempts[b].state
        /\ \A b \in AttemptsOf(e) : attempts[b].execution = e
    BY LedgerFacts
  <2>2. /\ \A x \in Execution : executions'[x].attempts = executions[x].attempts
        /\ \A x \in Execution \ {e} : executions'[x].state = executions[x].state
        /\ executions'[e].state = "unknown"
    BY <1>11, <2>1 DEF LoseOwner, ExecutionRow
  <2>3. \A b \in Attempt :
          /\ attempts'[b] = IF b \in InFlight(e)
                            THEN [attempts[b] EXCEPT !.state = "unknown"] ELSE attempts[b]
          /\ views'[b] = IF b \in InFlight(e) THEN "unknown" ELSE views[b]
    BY <1>11 DEF LoseOwner
  <2>4. /\ InFlight(e) # {}
        /\ \A b \in InFlight(e) : b \in AttemptsOf(e) /\ attempts[b].state \in {"dispatched", "unknown"}
                                  /\ attempts[b].execution = e
    BY <1>11, <2>1 DEF InFlight, LoseOwner
  <2>5. \A b \in Attempt :
          /\ attempts'[b].execution = attempts[b].execution
          /\ attempts'[b].state = IF b \in InFlight(e) THEN "unknown" ELSE attempts[b].state
          /\ views'[b] = attempts'[b].state
    BY <2>1, <2>3 DEF AttemptRow
  <2>6. AttemptsOf(e)' = AttemptsOf(e)
    BY <2>2, SameAttempts
  <2>7. UnresolvedOf(e)'
    <3>1. \A b \in AttemptsOf(e) : attempts'[b].state \in Holding => attempts[b].state \in Holding
      BY <2>1, <2>4, <2>5 DEF Holding
    <3>2. \E b \in AttemptsOf(e) : attempts'[b].state = "unknown"
      BY <2>1, <2>4, <2>5
    <3>. QED  BY <2>1, <2>2, <2>6, <3>1, <3>2 DEF UnresolvedOf, Settled
  <2>8. AttemptLedger' /\ OneUnresolvedAttempt'
    BY <2>2, <2>4, <2>5, <2>7, LedgerMoved
  <2>9. SendOnce'
    <3>1. permits' = permits /\ SendOnce
      BY <1>11 DEF LoseOwner, LedgerInv
    <3>. QED  BY <2>5, <3>1 DEF SendOnce
  <2>. QED  BY <2>8, <2>9
<1>12. ASSUME NEW e \in Execution, NEW a \in Attempt, NEW out \in Resolution, ResolveAttempt(e, a, out)
       PROVE  AttemptLedger' /\ OneUnresolvedAttempt' /\ SendOnce'
  <2>1. executions \in [Execution -> ExecutionRow] /\ UnresolvedOf(e)
        /\ a \in AttemptsOf(e) /\ attempts[a].execution = e /\ attempts[a].state = "unknown"
    BY <1>12, LedgerFacts DEF ResolveAttempt
  <2>2. /\ \A x \in Execution : executions'[x].attempts = executions[x].attempts
        /\ \A x \in Execution \ {e} : executions'[x].state = executions[x].state
        /\ executions'[e].state = "resolved"
    BY <1>12, <2>1 DEF ResolveAttempt, ExecutionRow
  <2>3. /\ attempts'[a].state = "resolved"
        /\ \A b \in Attempt : /\ attempts'[b].execution = attempts[b].execution
                              /\ b # a => attempts'[b] = attempts[b]
                              /\ views'[b] = attempts'[b].state
    BY <1>12, ReplaceFacts DEF ResolveAttempt
  <2>4. AttemptsOf(e)' = AttemptsOf(e) /\ AttemptsOf(e) \subseteq Attempt
    BY <2>2, SameAttempts, LedgerFacts
  <2>5. \A b \in AttemptsOf(e) : attempts'[b].state \notin Holding
    BY <2>1, <2>3, <2>4 DEF UnresolvedOf, Holding
  <2>6. UnresolvedOf(e)'
    BY <2>2, <2>4, <2>5 DEF UnresolvedOf, Holding
  <2>7. AttemptLedger' /\ OneUnresolvedAttempt'
    BY <2>1, <2>2, <2>3, <2>6, LedgerMoved
  <2>8. SendOnce'
    <3>1. permits' = permits /\ SendOnce
      BY <1>12 DEF ResolveAttempt, LedgerInv
    <3>. QED  BY <2>3, <3>1 DEF SendOnce
  <2>. QED  BY <2>7, <2>8
<1>13. ASSUME NEW e \in Execution, Finish(e, "succeeded") \/ Finish(e, "failed") \/ Recover(e)
       PROVE  AttemptLedger' /\ OneUnresolvedAttempt' /\ SendOnce'
  BY <1>10, <1>11, <1>13 DEF Finish, Recover, FinalizeOrphan
<1>14. CASE \/ UNCHANGED vars \/ Tick \/ PublishGeneration
            \/ \E o \in Owner : Join(o) \/ Heartbeat(o) \/ Drain(o)
            \/ \E p \in Principal : \E auth \in Authorization : SetPrincipal(p, auth)
            \/ \E t \in Tenant : \E limits \in TenantLimits : PutTenant(t, limits)
            \/ \E p \in Pool : ImportCredential(p) \/ \E limit \in ResourceLimits : PutResource(p, limit)
            \/ \E e \in Execution : Project(e)
  <2>1. UNCHANGED <<executions, attempts, views, permits>>
    BY <1>14 DEF vars, Tick, PublishGeneration, Join, Heartbeat, Drain, SetPrincipal, PutTenant,
                 ImportCredential, PutResource, Project
  <2>. QED  BY <1>1, <2>1
<1>. QED
  BY <1>2, <1>3, <1>4, <1>5, <1>7, <1>8, <1>9, <1>12, <1>13, <1>14 DEF Next, Provider

\* The inductive invariant holds always.
LEMMA LedgerCorrect == Spec => []LedgerInv
  BY LedgerInit, LedgerStep, PTL DEF Spec

\* Each attempt row is listed once, by the execution it names, and its copy in
\* that execution's view never diverges from it.
THEOREM AttemptLedgerHolds == Spec => []AttemptLedger
  BY LedgerCorrect, PTL DEF LedgerInv

\* An execution never has two attempts without a conclusion, is unknown exactly
\* while its attempt is, and settles with none: fallback cannot overtake
\* uncertain provider work.
THEOREM OneUnresolvedAttemptHolds == Spec => []OneUnresolvedAttempt
  BY LedgerCorrect, PTL DEF LedgerInv

\* Dispatch authorises each attempt at most once, and no path records authorised
\* work as unsent.
THEOREM SendOnceHolds == Spec => []SendOnce
  BY LedgerCorrect, PTL DEF LedgerInv

-----------------------------------------------------------------------------
(* What a step may touch: the frame the other proofs start from *)

\* The attempt states that never change again.
Final == Provider \cup {"resolved", "not_dispatched"}

\* An execution with attempts exists.
LEMMA HasAttempts ==
    ASSUME TypeInv, NEW e \in Execution, NEW a \in AttemptsOf(e)
    PROVE  executions[e].state # "absent" /\ executions[e].principal \in Principal
<1>1. executions[e].attempts # <<>>
  BY DEF AttemptsOf
<1>. QED  BY <1>1 DEF TypeInv, Admitted

\* What an execution was admitted with stays, and so do its binding and what it
\* tells its tenant.
RowsKept ==
    \A x \in Execution :
       /\ executions'[x].principal = executions[x].principal
       /\ executions'[x].owner = executions[x].owner
       /\ executions'[x].authorization = executions[x].authorization
       /\ executions'[x].minute = executions[x].minute
       /\ executions'[x].trajectory = executions[x].trajectory
       /\ executions'[x].outcome = executions[x].outcome
       /\ executions'[x].state = "absent" <=> executions[x].state = "absent"
       /\ executions'[x].state \in Settled <=> executions[x].state \in Settled

\* The rate counters stay.
RatesKept ==
    /\ buckets' = buckets
    /\ \A t \in Tenant : /\ tenants'[t].minute = tenants[t].minute
                         /\ tenants'[t].accepted = tenants[t].accepted
                         /\ tenants'[t].policy_revision = tenants[t].policy_revision

\* No provider evidence appears or disappears, and no concluded attempt is
\* authorised again.
EvidenceStays ==
    \A a \in Attempt :
       /\ attempts'[a].state \in Provider <=> attempts[a].state \in Provider
       /\ attempts[a].state \in Provider => attempts'[a].execution = attempts[a].execution
       /\ attempts[a].state \in Final => permits'[a] = permits[a]

\* The steps that neither admit, settle, observe, bind, project nor replace a
\* tenant policy.
Silent ==
    /\ UNCHANGED <<fences, projected>>
    /\ RowsKept /\ RatesKept /\ EvidenceStays

\* An owner that is gone for a settlement without provider evidence.
LostBeforeDispatch(e) ==
    ~ LiveOwner(executions[e].owner) /\ InFlight(e) = {} /\ NoTerminal(e)

\* A step that replaces fields of one existing execution, but none of the
\* fields of the frame, and does not settle it.
LEMMA FrameRow ==
    ASSUME TypeInv, NEW e \in Execution, executions[e].state # "absent",
           executions[e].state \notin Settled,
           NEW r, executions' = [executions EXCEPT ![e] = r],
           r.principal = executions[e].principal, r.owner = executions[e].owner,
           r.authorization = executions[e].authorization, r.minute = executions[e].minute,
           r.trajectory = executions[e].trajectory, r.outcome = executions[e].outcome,
           r.state # "absent", r.state \notin Settled
    PROVE  RowsKept
<1>1. executions'[e] = r /\ \A x \in Execution \ {e} : executions'[x] = executions[x]
  BY DEF TypeInv, TypeOK
<1>. QED  BY <1>1 DEF RowsKept

\* Replacing the state of an attempt that is not concluded by one that is no
\* provider evidence.
LEMMA FrameReplace ==
    ASSUME LedgerInv, NEW a \in Attempt, NEW s, s \notin Provider,
           attempts[a].state \notin Provider, ReplaceAttempt(a, s), UNCHANGED permits
    PROVE  EvidenceStays
<1>1. /\ attempts'[a].state = s
      /\ \A b \in Attempt \ {a} : attempts'[b] = attempts[b]
  BY ReplaceFacts
<1>. QED  BY <1>1 DEF EvidenceStays

\* Every step admits, replaces a tenant policy, observes a terminal, settles,
\* binds, projects or is silent.
LEMMA FrameStep ==
    ASSUME LedgerInv, [Next]_vars
    PROVE  \/ \E o \in Owner, e \in Execution, p \in Principal, k \in Key \cup {None} :
                 Admit(o, e, p, k)
           \/ \E t \in Tenant, limits \in TenantLimits : PutTenant(t, limits)
           \/ \E e \in Execution, a \in Attempt, out \in Provider : RecordTerminal(e, a, out)
           \/ \E e \in Execution, out \in Provider : FinalizeLocked(e, out)
           \/ \E e \in Execution : LostBeforeDispatch(e) /\ FinalizeLocked(e, "owner_lost")
           \/ \E e \in Execution, a \in Attempt, out \in Resolution : ResolveAttempt(e, a, out)
           \/ \E e \in Execution, ep \in Episode : GuardedRoute(e, ep)
           \/ \E e \in Execution : Project(e)
           \/ Silent
<1>. USE DEF LedgerInv, TypeInv, authority, counters, rows
<1>0. /\ executions \in [Execution -> ExecutionRow]
      /\ attempts \in [Attempt -> AttemptRow]
  BY DEF TypeOK
<1>1. ASSUME UNCHANGED <<executions, attempts, tenants, buckets, fences, projected, permits>>
      PROVE  Silent
  BY <1>1 DEF Silent, RowsKept, RatesKept, EvidenceStays
<1>2. CASE UNCHANGED vars
  BY <1>1, <1>2 DEF vars
<1>3. CASE Tick \/ PublishGeneration
  BY <1>1, <1>3 DEF Tick, PublishGeneration
<1>4. ASSUME NEW o \in Owner, Join(o) \/ Heartbeat(o) \/ Drain(o) PROVE Silent
  BY <1>1, <1>4 DEF Join, Heartbeat, Drain
<1>5. ASSUME NEW p \in Principal, NEW auth \in Authorization, SetPrincipal(p, auth) PROVE Silent
  BY <1>1, <1>5 DEF SetPrincipal
<1>7. ASSUME NEW p \in Pool, ImportCredential(p) PROVE Silent
  BY <1>1, <1>7 DEF ImportCredential
<1>8. ASSUME NEW p \in Pool, NEW limit \in ResourceLimits, PutResource(p, limit) PROVE Silent
  BY <1>1, <1>8 DEF PutResource
<1>9. ASSUME NEW e \in Execution, NEW a \in Attempt, NEW p \in Pool, PrepareAttempt(e, a, p)
      PROVE  Silent
  <2>. DEFINE r == [executions[e] EXCEPT !.attempts = Append(executions[e].attempts, a),
                       !.state = "running", !.due = instances[executions[e].owner].expires]
  <2>1. /\ executions[e].state # "absent" /\ executions[e].state \notin Settled
        /\ executions' = [executions EXCEPT ![e] = r]
    BY <1>9 DEF PrepareAttempt, AuthorizedExecution, Open, Settled
  <2>2. /\ r.principal = executions[e].principal /\ r.owner = executions[e].owner
        /\ r.authorization = executions[e].authorization /\ r.minute = executions[e].minute
        /\ r.trajectory = executions[e].trajectory /\ r.outcome = executions[e].outcome
        /\ r.state = "running"
    BY <1>0 DEF ExecutionRow
  <2>3. RowsKept
    BY <2>1, <2>2, FrameRow DEF Settled
  <2>4. EvidenceStays
    <3>1. /\ attempts[a].state = "absent" /\ attempts'[a].state = "prepared"
          /\ \A b \in Attempt \ {a} : attempts'[b] = attempts[b]
      BY <1>0, <1>9 DEF PrepareAttempt
    <3>. QED  BY <1>9, <3>1 DEF PrepareAttempt, EvidenceStays, Provider
  <2>. QED  BY <1>9, <2>3, <2>4 DEF PrepareAttempt, Silent, RatesKept
<1>10. ASSUME NEW e \in Execution, NEW a \in Attempt, Dispatch(e, a) PROVE Silent
  <2>. DEFINE r == [executions[e] EXCEPT !.due = instances[executions[e].owner].expires]
  <2>1. /\ executions[e].state # "absent" /\ executions[e].state \notin Settled
        /\ executions' = [executions EXCEPT ![e] = r]
    BY <1>10 DEF Dispatch, AuthorizedExecution, Open, Settled
  <2>2. /\ r.principal = executions[e].principal /\ r.owner = executions[e].owner
        /\ r.authorization = executions[e].authorization /\ r.minute = executions[e].minute
        /\ r.trajectory = executions[e].trajectory /\ r.outcome = executions[e].outcome
        /\ r.state = executions[e].state
    BY <1>0 DEF ExecutionRow
  <2>3. RowsKept
    BY <2>1, <2>2, FrameRow
  <2>4. EvidenceStays
    <3>1. /\ attempts[a].state = "prepared" /\ attempts'[a].state = "dispatched"
          /\ \A b \in Attempt \ {a} : attempts'[b] = attempts[b]
      BY <1>10, ReplaceFacts DEF Dispatch, IntentIsUnused
    <3>2. \A b \in Attempt \ {a} : permits'[b] = permits[b]
      BY <1>10 DEF Dispatch, TypeOK
    <3>. QED  BY <3>1, <3>2 DEF EvidenceStays, Provider, Final
  <2>. QED  BY <1>10, <2>3, <2>4 DEF Dispatch, Silent, RatesKept
<1>11. ASSUME NEW e \in Execution, NEW a \in Attempt, AbandonPrepared(e, a) PROVE Silent
  <2>. DEFINE r == [executions[e] EXCEPT !.state = "running", !.due = now]
  <2>1. /\ executions[e].state # "absent" /\ executions[e].state \notin Settled
        /\ executions' = [executions EXCEPT ![e] = r]
    BY <1>11 DEF AbandonPrepared, ConcludeAttempt, ConcludedDue, Settled
  <2>2. /\ r.principal = executions[e].principal /\ r.owner = executions[e].owner
        /\ r.authorization = executions[e].authorization /\ r.minute = executions[e].minute
        /\ r.trajectory = executions[e].trajectory /\ r.outcome = executions[e].outcome
        /\ r.state = "running"
    BY <1>0 DEF ExecutionRow
  <2>3. RowsKept
    BY <2>1, <2>2, FrameRow DEF Settled
  <2>4. EvidenceStays
    BY <1>11, FrameReplace DEF AbandonPrepared, ConcludeAttempt, Provider
  <2>. QED  BY <1>11, <2>3, <2>4 DEF AbandonPrepared, ConcludeAttempt, Silent, RatesKept
<1>12. ASSUME NEW e \in Execution, NEW a \in Attempt, MarkUnknown(e, a) PROVE Silent
  <2>. DEFINE r == [executions[e] EXCEPT !.state = "unknown", !.due = NoDue]
  <2>0. executions[e].state \notin Settled
    BY <1>12 DEF MarkUnknown, OneUnresolvedAttempt, Holding
  <2>1. /\ executions[e].state # "absent"
        /\ executions' = [executions EXCEPT ![e] = r]
    BY <1>12, HasAttempts DEF MarkUnknown
  <2>2. /\ r.principal = executions[e].principal /\ r.owner = executions[e].owner
        /\ r.authorization = executions[e].authorization /\ r.minute = executions[e].minute
        /\ r.trajectory = executions[e].trajectory /\ r.outcome = executions[e].outcome
        /\ r.state = "unknown"
    BY <1>0 DEF ExecutionRow
  <2>3. RowsKept
    BY <2>0, <2>1, <2>2, FrameRow DEF Settled
  <2>4. EvidenceStays
    BY <1>12, FrameReplace DEF MarkUnknown, Provider
  <2>. QED  BY <1>12, <2>3, <2>4 DEF MarkUnknown, Silent, RatesKept
<1>13. ASSUME NEW e \in Execution, Postpone(e) \/ DeferRecovery(e) PROVE Silent
  <2>1. PICK due : executions' = [executions EXCEPT ![e].due = due]
    BY <1>13 DEF Postpone, DeferRecovery
  <2>. DEFINE r == [executions[e] EXCEPT !.due = due]
  <2>2. /\ executions[e].state # "absent" /\ executions[e].state \notin Settled
        /\ executions' = [executions EXCEPT ![e] = r]
    BY <1>13, <2>1 DEF Postpone, DeferRecovery, Open, Settled
  <2>3. /\ r.principal = executions[e].principal /\ r.owner = executions[e].owner
        /\ r.authorization = executions[e].authorization /\ r.minute = executions[e].minute
        /\ r.trajectory = executions[e].trajectory /\ r.outcome = executions[e].outcome
        /\ r.state = executions[e].state
    BY <1>0 DEF ExecutionRow
  <2>4. RowsKept
    BY <2>2, <2>3, FrameRow
  <2>. QED
    BY <1>13, <2>4 DEF Postpone, DeferRecovery, Silent, RatesKept, EvidenceStays
<1>14. ASSUME NEW e \in Execution, executions[e].state \in Open, LoseOwner(e) PROVE Silent
  <2>. DEFINE r == [executions[e] EXCEPT !.state = "unknown", !.due = NoDue]
  <2>1. /\ executions[e].state # "absent" /\ executions[e].state \notin Settled
        /\ executions' = [executions EXCEPT ![e] = r]
    BY <1>14 DEF LoseOwner, Open, Settled
  <2>2. /\ r.principal = executions[e].principal /\ r.owner = executions[e].owner
        /\ r.authorization = executions[e].authorization /\ r.minute = executions[e].minute
        /\ r.trajectory = executions[e].trajectory /\ r.outcome = executions[e].outcome
        /\ r.state = "unknown"
    BY <1>0 DEF ExecutionRow
  <2>3. RowsKept
    BY <2>1, <2>2, FrameRow DEF Settled
  <2>4. EvidenceStays
    <3>1. \A b \in Attempt :
            attempts'[b] = IF b \in InFlight(e) THEN [attempts[b] EXCEPT !.state = "unknown"]
                                                ELSE attempts[b]
      BY <1>14 DEF LoseOwner
    <3>2. \A b \in InFlight(e) : attempts[b].state \in {"dispatched", "unknown"}
      BY <1>14 DEF LoseOwner
    <3>3. \A b \in Attempt : [attempts[b] EXCEPT !.state = "unknown"].state = "unknown"
      BY <1>0 DEF AttemptRow
    <3>. QED  BY <1>14, <3>1, <3>2, <3>3 DEF LoseOwner, EvidenceStays, Provider
  <2>. QED  BY <1>14, <2>3, <2>4 DEF LoseOwner, Silent, RatesKept
<1>15. ASSUME NEW e \in Execution, Recover(e)
       PROVE  \/ Silent
              \/ \E out \in Provider : FinalizeLocked(e, out)
              \/ LostBeforeDispatch(e) /\ FinalizeLocked(e, "owner_lost")
  BY <1>14, <1>15 DEF Recover, FinalizeOrphan, LostBeforeDispatch
<1>. QED
  BY <1>2, <1>3, <1>4, <1>5, <1>7, <1>8, <1>9, <1>10, <1>11, <1>12, <1>13, <1>15
     DEF Next, Finish

\* The clock never runs back, and a lease that is over stays over.
LeaseKept ==
    /\ now' \in Nat /\ now <= now'
    /\ \A o \in Owner : instances[o].status # "absent" =>
          /\ instances'[o].status # "absent"
          /\ ~ LiveOwner(o) => ~ LiveOwner(o)'

\* Every step keeps that.
LEMMA LeaseStep == TypeInv /\ [Next]_vars => LeaseKept
<1>. SUFFICES ASSUME TypeInv, [Next]_vars PROVE LeaseKept
  OBVIOUS
<1>. USE DEF authority, counters, rows
<1>0. /\ now \in Nat
      /\ instances \in [Owner -> [status : {"absent", "live", "draining"}, expires : Nat]]
  BY EngineAssumption DEF TypeInv, TypeOK
<1>1. ASSUME UNCHANGED <<now, instances>> PROVE LeaseKept
  BY <1>0, <1>1 DEF LiveOwner, LeaseKept
<1>2. CASE Tick
  BY <1>0, <1>2 DEF Tick, LiveOwner, LeaseKept
<1>3. ASSUME NEW o \in Owner, Join(o) PROVE LeaseKept
  BY <1>0, <1>3 DEF Join, LiveOwner, LeaseKept
<1>4. ASSUME NEW o \in Owner, Heartbeat(o) PROVE LeaseKept
  BY <1>0, <1>4 DEF Heartbeat, LiveOwner, LeaseKept
<1>5. ASSUME NEW o \in Owner, Drain(o) PROVE LeaseKept
  BY <1>0, <1>5 DEF Drain, LiveOwner, LeaseKept
<1>6. ASSUME NEW e \in Execution, NEW out, FinalizeLocked(e, out) PROVE LeaseKept
  BY <1>1, <1>6 DEF FinalizeLocked
<1>7. ASSUME PublishGeneration PROVE LeaseKept
  BY <1>1, <1>7 DEF PublishGeneration
<1>8. ASSUME NEW p \in Principal, NEW auth \in Authorization, SetPrincipal(p, auth) PROVE LeaseKept
  BY <1>1, <1>8 DEF SetPrincipal
<1>9. ASSUME NEW t \in Tenant, NEW limits \in TenantLimits, PutTenant(t, limits) PROVE LeaseKept
  BY <1>1, <1>9 DEF PutTenant
<1>10. ASSUME NEW p \in Pool, ImportCredential(p) \/ \E limit \in ResourceLimits : PutResource(p, limit)
       PROVE  LeaseKept
  BY <1>1, <1>10 DEF ImportCredential, PutResource
<1>11. ASSUME NEW o \in Owner, NEW e \in Execution, NEW p \in Principal,
              NEW k \in Key \cup {None}, Admit(o, e, p, k)
       PROVE  LeaseKept
  BY <1>1, <1>11 DEF Admit
<1>12. ASSUME NEW e \in Execution, NEW a \in Attempt,
             \/ \E pool \in Pool : PrepareAttempt(e, a, pool)
             \/ Dispatch(e, a)
             \/ \E outcome \in Provider : RecordTerminal(e, a, outcome)
             \/ AbandonPrepared(e, a)
             \/ MarkUnknown(e, a)
             \/ \E outcome \in Resolution : ResolveAttempt(e, a, outcome)
      PROVE  LeaseKept
  BY <1>1, <1>12 DEF PrepareAttempt, Dispatch, RecordTerminal, AbandonPrepared, ConcludeAttempt,
                    MarkUnknown, ResolveAttempt
<1>13. ASSUME NEW e \in Execution,
             \/ Postpone(e) \/ DeferRecovery(e) \/ LoseOwner(e) \/ Project(e)
             \/ \E ep \in Episode : GuardedRoute(e, ep)
      PROVE  LeaseKept
  BY <1>1, <1>13 DEF Postpone, DeferRecovery, LoseOwner, Project, GuardedRoute
<1>14. CASE UNCHANGED vars
  BY <1>1, <1>14 DEF vars
<1>15. ASSUME NEW e \in Execution, Recover(e) \/ \E out \in Provider : Finish(e, out)
       PROVE  LeaseKept
  BY <1>6, <1>13, <1>15 DEF Recover, FinalizeOrphan, Finish
<1>. QED
  BY <1>2, <1>3, <1>4, <1>5, <1>7, <1>8, <1>9, <1>10, <1>11, <1>12, <1>13, <1>14, <1>15 DEF Next
=============================================================================
