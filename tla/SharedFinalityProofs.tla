------------------------ MODULE SharedFinalityProofs ------------------------
(***************************************************************************)
(* Proofs that settlement is final in SharedEngine, that the terminal      *)
(* event keeps the view it was taken from, that an idempotency key names   *)
(* the execution admitted under it, that a dispatch happens under the      *)
(* authority of admission, that a reported outcome is true, and that the   *)
(* fence of an episode keeps its evidence for the guard.                   *)
(***************************************************************************)
EXTENDS SharedEngineProofs

\* What a step may do to settled executions and concluded attempts, and to the
\* events.
SettledKept ==
    \A x \in Execution : executions[x].state \in Settled =>
       executions'[x] = executions[x] /\ events'[x] = events[x]
ConcludedKept ==
    \A a \in Attempt : attempts[a].state \in Final =>
       attempts'[a] = attempts[a] /\ views'[a] = views[a]
EventsFollow ==
    \A x \in Execution : executions[x].state \notin Settled =>
       IF executions'[x].state \in Settled
       THEN events'[x] = Snapshot(executions'[x].state, executions'[x].outcome,
                                  executions'[x].attempts, views')
       ELSE events'[x] = events[x]

\* A step that changes one unsettled execution and leaves it unsettled.
LEMMA OpenStep ==
    ASSUME NEW e \in Execution, executions[e].state \notin Settled,
           executions'[e].state \notin Settled,
           \A x \in Execution \ {e} : executions'[x] = executions[x],
           events' = events
    PROVE  SettledKept /\ EventsFollow
  BY DEF SettledKept, EventsFollow

\* A step that settles one execution and publishes its event.
LEMMA SettleStep ==
    ASSUME TypeInv, NEW e \in Execution, NEW s \in Settled, NEW out,
           executions[e].state \notin Settled,
           executions'[e].state = s, executions'[e].outcome = out,
           executions'[e].attempts = executions[e].attempts,
           \A x \in Execution \ {e} : executions'[x] = executions[x],
           PublishTerminalEvent(e, s, out)
    PROVE  SettledKept /\ EventsFollow
<1>1. events \in [Execution -> Event \cup {None}]
  BY DEF TypeInv, TypeOK
<1>2. events'[e] = Snapshot(s, out, executions[e].attempts, views')
  BY <1>1 DEF PublishTerminalEvent
<1>3. \A x \in Execution \ {e} : events'[x] = events[x]
  BY <1>1 DEF PublishTerminalEvent
<1>. QED  BY <1>2, <1>3 DEF SettledKept, EventsFollow

\* Replacing the state of an attempt that is not concluded.
LEMMA ReplaceStep ==
    ASSUME TypeInv, NEW a \in Attempt, NEW s, attempts[a].state \notin Final,
           ReplaceAttempt(a, s)
    PROVE  ConcludedKept
  BY DEF TypeInv, TypeOK, ReplaceAttempt, ConcludedKept

\* Every step keeps what is settled.
LEMMA FinalStep ==
    ASSUME LedgerInv, [Next]_vars
    PROVE  SettledKept /\ ConcludedKept /\ EventsFollow
<1>. USE DEF LedgerInv, TypeInv, authority, counters, rows
<1>0. /\ executions \in [Execution -> ExecutionRow]
      /\ attempts \in [Attempt -> AttemptRow] /\ views \in [Attempt -> AttemptState]
  BY DEF TypeOK
<1>. DEFINE Goal == SettledKept /\ ConcludedKept /\ EventsFollow
<1>1. ASSUME UNCHANGED <<executions, attempts, views, events>> PROVE Goal
  BY <1>1 DEF SettledKept, ConcludedKept, EventsFollow
<1>2. CASE UNCHANGED vars
  BY <1>1, <1>2 DEF vars
<1>3. CASE Tick \/ PublishGeneration
  BY <1>1, <1>3 DEF Tick, PublishGeneration
<1>4. ASSUME NEW o \in Owner, Join(o) \/ Heartbeat(o) \/ Drain(o) PROVE Goal
  BY <1>1, <1>4 DEF Join, Heartbeat, Drain
<1>5. ASSUME NEW p \in Principal, NEW auth \in Authorization, SetPrincipal(p, auth) PROVE Goal
  BY <1>1, <1>5 DEF SetPrincipal
<1>6. ASSUME NEW t \in Tenant, NEW limits \in TenantLimits, PutTenant(t, limits) PROVE Goal
  BY <1>1, <1>6 DEF PutTenant
<1>7. ASSUME NEW p \in Pool, ImportCredential(p) PROVE Goal
  BY <1>1, <1>7 DEF ImportCredential
<1>8. ASSUME NEW p \in Pool, NEW limit \in ResourceLimits, PutResource(p, limit) PROVE Goal
  BY <1>1, <1>8 DEF PutResource
<1>9. ASSUME NEW o \in Owner, NEW e \in Execution, NEW p \in Principal,
             NEW k \in Key \cup {None}, Admit(o, e, p, k)
      PROVE  Goal
  <2>1. executions[e].state \notin Settled /\ executions'[e].state \notin Settled
        /\ (\A x \in Execution \ {e} : executions'[x] = executions[x])
    BY <1>0, <1>9 DEF Admit, Settled
  <2>2. ConcludedKept
    BY <1>9 DEF Admit, ConcludedKept
  <2>. QED  BY <1>9, <2>1, <2>2, OpenStep DEF Admit
<1>10. ASSUME NEW e \in Execution, NEW a \in Attempt, NEW p \in Pool, PrepareAttempt(e, a, p)
       PROVE  Goal
  <2>1. executions[e].state \notin Settled /\ executions'[e].state \notin Settled
        /\ (\A x \in Execution \ {e} : executions'[x] = executions[x])
    BY <1>0, <1>10 DEF PrepareAttempt, AuthorizedExecution, Settled, Open, ExecutionRow
  <2>2. ConcludedKept
    BY <1>0, <1>10 DEF PrepareAttempt, ConcludedKept, Final, Provider
  <2>. QED  BY <1>10, <2>1, <2>2, OpenStep DEF PrepareAttempt
<1>11. ASSUME NEW e \in Execution, NEW a \in Attempt, Dispatch(e, a) PROVE Goal
  <2>1. executions[e].state \notin Settled /\ executions'[e].state \notin Settled
        /\ (\A x \in Execution \ {e} : executions'[x] = executions[x])
    BY <1>0, <1>11 DEF Dispatch, AuthorizedExecution, Settled, Open, ExecutionRow
  <2>2. ConcludedKept
    BY <1>11, ReplaceStep DEF Dispatch, IntentIsUnused, Final, Provider
  <2>. QED  BY <1>11, <2>1, <2>2, OpenStep DEF Dispatch
<1>12. ASSUME NEW e \in Execution, NEW a \in Attempt, NEW c, attempts[a].state \notin Final,
              ConcludeAttempt(e, a, c)
       PROVE  Goal
  <2>1. executions[e].state \notin Settled /\ executions'[e].state \notin Settled
        /\ (\A x \in Execution \ {e} : executions'[x] = executions[x])
    BY <1>0, <1>12 DEF ConcludeAttempt, Settled, ExecutionRow
  <2>2. ConcludedKept
    BY <1>12, ReplaceStep DEF ConcludeAttempt
  <2>. QED  BY <1>12, <2>1, <2>2, OpenStep DEF ConcludeAttempt
<1>13. ASSUME NEW e \in Execution, NEW a \in Attempt, NEW out \in Provider,
              RecordTerminal(e, a, out)
       PROVE  Goal
  BY <1>12, <1>13 DEF RecordTerminal, Final, Provider
<1>14. ASSUME NEW e \in Execution, NEW a \in Attempt, AbandonPrepared(e, a) PROVE Goal
  BY <1>12, <1>14 DEF AbandonPrepared, Final, Provider
<1>15. ASSUME NEW e \in Execution, NEW a \in Attempt, MarkUnknown(e, a) PROVE Goal
  <2>1. executions[e].state \notin Settled
    BY <1>15 DEF MarkUnknown, OneUnresolvedAttempt, Holding
  <2>2. executions'[e].state \notin Settled
        /\ (\A x \in Execution \ {e} : executions'[x] = executions[x])
    BY <1>0, <1>15 DEF MarkUnknown, Settled, ExecutionRow
  <2>3. ConcludedKept
    BY <1>15, ReplaceStep DEF MarkUnknown, Final, Provider
  <2>. QED  BY <1>15, <2>1, <2>2, <2>3, OpenStep DEF MarkUnknown
<1>16. ASSUME NEW e \in Execution, NEW out, FinalizeLocked(e, out) PROVE Goal
  <2>1. executions[e].state \notin Settled /\ executions'[e].state = "terminal"
        /\ executions'[e].outcome = out /\ executions'[e].attempts = executions[e].attempts
        /\ (\A x \in Execution \ {e} : executions'[x] = executions[x])
    BY <1>0, <1>16 DEF FinalizeLocked, Settled, Open, ExecutionRow
  <2>2. SettledKept /\ EventsFollow
    BY <1>16, <2>1, SettleStep DEF FinalizeLocked, Settled
  <2>3. ConcludedKept
    BY <1>0, <1>16 DEF FinalizeLocked, ConcludedKept, Final, Provider
  <2>. QED  BY <2>2, <2>3
<1>17. ASSUME NEW e \in Execution, NEW out \in Provider, Finish(e, out) PROVE Goal
  BY <1>16, <1>17 DEF Finish
<1>18. ASSUME NEW e \in Execution, Postpone(e) \/ DeferRecovery(e) PROVE Goal
  <2>1. executions[e].state \notin Settled /\ executions'[e].state \notin Settled
        /\ (\A x \in Execution \ {e} : executions'[x] = executions[x])
    BY <1>0, <1>18 DEF Postpone, DeferRecovery, Settled, Open, ExecutionRow
  <2>2. ConcludedKept
    BY <1>18 DEF Postpone, DeferRecovery, ConcludedKept
  <2>. QED  BY <1>18, <2>1, <2>2, OpenStep DEF Postpone, DeferRecovery
<1>19. ASSUME NEW e \in Execution, Recover(e) PROVE Goal
  <2>1. CASE LoseOwner(e)
    <3>1. executions[e].state \notin Settled /\ executions'[e].state \notin Settled
          /\ (\A x \in Execution \ {e} : executions'[x] = executions[x])
      BY <1>0, <1>19, <2>1 DEF Recover, LoseOwner, Settled, Open, ExecutionRow
    <3>2. ConcludedKept
      BY <1>0, <2>1 DEF LoseOwner, ConcludedKept, Final, Provider
    <3>. QED  BY <2>1, <3>1, <3>2, OpenStep DEF LoseOwner
  <2>2. CASE FinalizeOrphan(e)
    BY <1>16, <2>2 DEF FinalizeOrphan
  <2>. QED  BY <1>19, <2>1, <2>2 DEF Recover
<1>20. ASSUME NEW e \in Execution, NEW a \in Attempt, NEW out \in Resolution,
              ResolveAttempt(e, a, out)
       PROVE  Goal
  <2>1. executions[e].state \notin Settled /\ executions'[e].state = "resolved"
        /\ executions'[e].outcome = out /\ executions'[e].attempts = executions[e].attempts
        /\ (\A x \in Execution \ {e} : executions'[x] = executions[x])
    BY <1>0, <1>20 DEF ResolveAttempt, Settled, ExecutionRow
  <2>2. SettledKept /\ EventsFollow
    BY <1>20, <2>1, SettleStep DEF ResolveAttempt, Settled
  <2>3. ConcludedKept
    BY <1>20, ReplaceStep DEF ResolveAttempt, Final, Provider
  <2>. QED  BY <2>2, <2>3
<1>21. ASSUME NEW e \in Execution, NEW ep \in Episode, GuardedRoute(e, ep) PROVE Goal
  <2>1. executions[e].state \notin Settled /\ executions'[e].state \notin Settled
        /\ (\A x \in Execution \ {e} : executions'[x] = executions[x])
    BY <1>0, <1>21 DEF GuardedRoute, BindTrajectory, AuthorizedExecution, Settled, Open, ExecutionRow
  <2>2. ConcludedKept
    BY <1>21 DEF GuardedRoute, ConcludedKept
  <2>. QED  BY <1>21, <2>1, <2>2, OpenStep DEF GuardedRoute
<1>22. ASSUME NEW e \in Execution, Project(e) PROVE Goal
  BY <1>1, <1>22 DEF Project
<1>. QED
  BY <1>2, <1>3, <1>4, <1>5, <1>6, <1>7, <1>8, <1>9, <1>10, <1>11, <1>13, <1>14, <1>15,
     <1>17, <1>18, <1>19, <1>20, <1>21, <1>22
     DEF Next

\* Settlement and provider evidence are final (finalization.rs, attempts.rs and
\* recovery.rs): no step of any process changes a settled execution, its event,
\* or an attempt's terminal or resolution.
THEOREM SettledIsFinalHolds == Spec => SettledIsFinal
<1>1. LedgerInv /\ [Next]_vars =>
        /\ \A e \in Execution : executions[e].state \in Settled =>
             executions'[e] = executions[e] /\ events'[e] = events[e]
        /\ \A a \in Attempt :
             attempts[a].state \in Provider \cup {"resolved", "not_dispatched"} =>
                attempts'[a] = attempts[a]
  BY FinalStep DEF SettledKept, ConcludedKept, Final
<1>. QED  BY <1>1, LedgerCorrect, PTL DEF Spec, SettledIsFinal

\* Every step keeps the events equal to the views they were taken from.
LEMMA EventStep == LedgerInv /\ EventAgrees /\ [Next]_vars => EventAgrees'
<1>. SUFFICES ASSUME LedgerInv, EventAgrees, [Next]_vars, NEW e \in Execution
              PROVE  events'[e] = IF executions'[e].state \in Settled
                       THEN Snapshot(executions'[e].state, executions'[e].outcome,
                                     executions'[e].attempts, views')
                       ELSE None
  BY DEF EventAgrees
<1>1. SettledKept /\ ConcludedKept /\ EventsFollow
  BY FinalStep
<1>2. CASE executions[e].state \in Settled
  <2>1. executions'[e] = executions[e] /\ events'[e] = events[e]
    BY <1>1, <1>2 DEF SettledKept
  <2>2. AttemptsOf(e) \subseteq Attempt
    BY AttemptsType DEF LedgerInv, TypeInv
  <2>3. \A a \in AttemptsOf(e) : attempts[a].state \in Final
    <3>1. \A a \in AttemptsOf(e) : attempts[a].state # "absent" /\ attempts[a].state \notin Holding
      BY <1>2 DEF LedgerInv, AttemptLedger, OneUnresolvedAttempt
    <3>2. \A a \in AttemptsOf(e) : attempts[a].state \in AttemptState
      BY <2>2 DEF LedgerInv, TypeInv, TypeOK, AttemptRow
    <3>. QED  BY <3>1, <3>2 DEF AttemptState, Final
  <2>4. \A i \in DOMAIN executions[e].attempts :
           views'[executions[e].attempts[i]] = views[executions[e].attempts[i]]
    BY <1>1, <2>2, <2>3 DEF ConcludedKept, AttemptsOf
  <2>5. Snapshot(executions[e].state, executions[e].outcome, executions[e].attempts, views')
         = Snapshot(executions[e].state, executions[e].outcome, executions[e].attempts, views)
    BY <2>4 DEF Snapshot
  <2>6. events[e] = Snapshot(executions[e].state, executions[e].outcome,
                             executions[e].attempts, views)
    BY <1>2 DEF EventAgrees
  <2>. QED  BY <1>2, <2>1, <2>5, <2>6
<1>3. CASE executions[e].state \notin Settled
  BY <1>1, <1>3 DEF EventsFollow, EventAgrees
<1>. QED  BY <1>2, <1>3

\* The terminal event of a settled execution always equals its view
\* (finalization.rs, publish_terminal_event): delivery never rejects it.
THEOREM EventAgreesHolds == Spec => []EventAgrees
<1>1. Init => EventAgrees
  BY DEF Init, EventAgrees, NoExecution, Settled
<1>. QED  BY <1>1, EventStep, LedgerCorrect, PTL DEF Spec

-----------------------------------------------------------------------------
(* Identities, policies and the dispatch fence *)

\* What an execution was admitted with stays.
IdentityKept ==
    \A x \in Execution :
       /\ executions'[x].principal = executions[x].principal
       /\ executions'[x].key = executions[x].key
       /\ executions'[x].tenant_revision = executions[x].tenant_revision
       /\ executions[x].state = "absent" => executions'[x].state = "absent"

\* The policy of every tenant stays.
PolicyKept ==
    \A t \in Tenant :
       /\ tenants'[t].policy_revision = tenants[t].policy_revision
       /\ tenants'[t].limits = tenants[t].limits

\* No reservation is made and none is consumed.
ReservationsKept ==
    \A a \in Attempt :
       /\ attempts'[a].state = "prepared" => attempts'[a] = attempts[a]
       /\ attempts[a].state = "prepared" => attempts'[a].state # "dispatched"

\* The steps that neither admit, reserve, dispatch nor replace a tenant policy.
Quiet ==
    /\ idempotency' = idempotency
    /\ IdentityKept /\ PolicyKept /\ ReservationsKept

\* A step that replaces fields of one execution other than its identity.
LEMMA FieldsKept ==
    ASSUME TypeInv, NEW e \in Execution, executions[e].state # "absent",
           NEW r, executions' = [executions EXCEPT ![e] = r],
           r.principal = executions[e].principal, r.key = executions[e].key,
           r.tenant_revision = executions[e].tenant_revision
    PROVE  IdentityKept
  BY DEF TypeInv, TypeOK, IdentityKept

\* Replacing the state of an attempt makes no reservation.
LEMMA ReplaceReserves ==
    ASSUME TypeInv, NEW a \in Attempt, NEW s, s # "prepared", ReplaceAttempt(a, s),
           attempts[a].state = "prepared" => s # "dispatched"
    PROVE  ReservationsKept
<1>1. attempts \in [Attempt -> AttemptRow]
  BY DEF TypeInv, TypeOK
<1>2. attempts'[a].state = s /\ \A b \in Attempt \ {a} : attempts'[b] = attempts[b]
  BY <1>1 DEF ReplaceAttempt, AttemptRow
<1>. QED  BY <1>2 DEF ReservationsKept

\* Releasing a tenant's slot keeps its policy.
LEMMA ReleaseKeepsPolicy ==
    ASSUME TypeInv, NEW t, ReleaseTenant(t)
    PROVE  PolicyKept
  BY DEF TypeInv, TypeOK, TenantRow, ReleaseTenant, PolicyKept

\* Every step admits, reserves, dispatches, replaces a policy or is quiet.
LEMMA StepKinds ==
    ASSUME LedgerInv, [Next]_vars
    PROVE  \/ \E t \in Tenant, limits \in TenantLimits : PutTenant(t, limits)
           \/ \E o \in Owner, e \in Execution, p \in Principal, k \in Key \cup {None} :
                 Admit(o, e, p, k)
           \/ \E e \in Execution, a \in Attempt, p \in Pool : PrepareAttempt(e, a, p)
           \/ \E e \in Execution, a \in Attempt : Dispatch(e, a)
           \/ Quiet
<1>. USE DEF LedgerInv, TypeInv, authority, counters, rows
<1>0. /\ executions \in [Execution -> ExecutionRow]
      /\ attempts \in [Attempt -> AttemptRow]
  BY DEF TypeOK
<1>1. ASSUME UNCHANGED <<executions, attempts, tenants, idempotency>> PROVE Quiet
  BY <1>1 DEF Quiet, IdentityKept, PolicyKept, ReservationsKept
<1>2. CASE UNCHANGED vars
  BY <1>1, <1>2 DEF vars
<1>3. CASE Tick \/ PublishGeneration
  BY <1>1, <1>3 DEF Tick, PublishGeneration
<1>4. ASSUME NEW o \in Owner, Join(o) \/ Heartbeat(o) \/ Drain(o) PROVE Quiet
  BY <1>1, <1>4 DEF Join, Heartbeat, Drain
<1>5. ASSUME NEW p \in Principal, NEW auth \in Authorization, SetPrincipal(p, auth) PROVE Quiet
  BY <1>1, <1>5 DEF SetPrincipal
<1>7. ASSUME NEW p \in Pool, ImportCredential(p) PROVE Quiet
  BY <1>1, <1>7 DEF ImportCredential
<1>8. ASSUME NEW p \in Pool, NEW limit \in ResourceLimits, PutResource(p, limit) PROVE Quiet
  BY <1>1, <1>8 DEF PutResource
<1>12. ASSUME NEW e \in Execution, NEW a \in Attempt,
              NEW c \in Provider \cup {"not_dispatched"}, ConcludeAttempt(e, a, c)
       PROVE  Quiet
  <2>. DEFINE r == [executions[e] EXCEPT !.state = "running", !.due = now]
  <2>1. executions[e].state # "absent" /\ executions' = [executions EXCEPT ![e] = r]
    BY <1>12 DEF ConcludeAttempt, ConcludedDue
  <2>2. r.principal = executions[e].principal /\ r.key = executions[e].key
        /\ r.tenant_revision = executions[e].tenant_revision
    BY <1>0 DEF ExecutionRow
  <2>3. IdentityKept
    BY <2>1, <2>2, FieldsKept
  <2>4. ReservationsKept
    BY <1>12, ReplaceReserves DEF ConcludeAttempt, Provider
  <2>. QED  BY <1>12, <2>3, <2>4 DEF ConcludeAttempt, Quiet, PolicyKept
<1>13. ASSUME NEW e \in Execution, NEW a \in Attempt, NEW out \in Provider,
              RecordTerminal(e, a, out)
       PROVE  Quiet
  BY <1>12, <1>13 DEF RecordTerminal
<1>14. ASSUME NEW e \in Execution, NEW a \in Attempt, AbandonPrepared(e, a) PROVE Quiet
  BY <1>12, <1>14 DEF AbandonPrepared
<1>15. ASSUME NEW e \in Execution, NEW a \in Attempt, MarkUnknown(e, a) PROVE Quiet
  <2>. DEFINE r == [executions[e] EXCEPT !.state = "unknown", !.due = NoDue]
  <2>1. executions[e].state # "absent" /\ executions' = [executions EXCEPT ![e] = r]
    BY <1>15, HasAttempts DEF MarkUnknown
  <2>2. r.principal = executions[e].principal /\ r.key = executions[e].key
        /\ r.tenant_revision = executions[e].tenant_revision
    BY <1>0 DEF ExecutionRow
  <2>3. IdentityKept
    BY <2>1, <2>2, FieldsKept
  <2>4. ReservationsKept
    BY <1>15, ReplaceReserves DEF MarkUnknown
  <2>. QED  BY <1>15, <2>3, <2>4 DEF MarkUnknown, Quiet, PolicyKept
<1>16. ASSUME NEW e \in Execution, NEW out, FinalizeLocked(e, out) PROVE Quiet
  <2>. DEFINE r == [executions[e] EXCEPT !.state = "terminal", !.outcome = out, !.due = NoDue]
  <2>1. executions[e].state # "absent" /\ executions' = [executions EXCEPT ![e] = r]
    BY <1>16 DEF FinalizeLocked, Open
  <2>2. r.principal = executions[e].principal /\ r.key = executions[e].key
        /\ r.tenant_revision = executions[e].tenant_revision
    BY <1>0 DEF ExecutionRow
  <2>3. IdentityKept
    BY <2>1, <2>2, FieldsKept
  <2>4. ReservationsKept
    <3>1. \A a \in Attempt : [attempts[a] EXCEPT !.state = "not_dispatched"].state = "not_dispatched"
      BY <1>0 DEF AttemptRow
    <3>. QED  BY <1>16, <3>1 DEF FinalizeLocked, ReservationsKept
  <2>5. PolicyKept
    BY <1>16, ReleaseKeepsPolicy DEF FinalizeLocked
  <2>. QED  BY <1>16, <2>3, <2>4, <2>5 DEF FinalizeLocked, Quiet
<1>17. ASSUME NEW e \in Execution, NEW out \in Provider, Finish(e, out) PROVE Quiet
  BY <1>16, <1>17 DEF Finish
<1>18. ASSUME NEW e \in Execution, Postpone(e) \/ DeferRecovery(e) PROVE Quiet
  <2>1. PICK due : executions' = [executions EXCEPT ![e].due = due]
    BY <1>18 DEF Postpone, DeferRecovery
  <2>. DEFINE r == [executions[e] EXCEPT !.due = due]
  <2>2. executions[e].state # "absent" /\ executions' = [executions EXCEPT ![e] = r]
    BY <1>18, <2>1 DEF Postpone, DeferRecovery, Open
  <2>3. r.principal = executions[e].principal /\ r.key = executions[e].key
        /\ r.tenant_revision = executions[e].tenant_revision
    BY <1>0 DEF ExecutionRow
  <2>4. IdentityKept
    BY <2>2, <2>3, FieldsKept
  <2>. QED
    BY <1>18, <2>4 DEF Postpone, DeferRecovery, Quiet, PolicyKept, ReservationsKept
<1>19. ASSUME NEW e \in Execution, Recover(e) PROVE Quiet
  <2>1. CASE LoseOwner(e)
    <3>. DEFINE r == [executions[e] EXCEPT !.state = "unknown", !.due = NoDue]
    <3>1. executions[e].state # "absent" /\ executions' = [executions EXCEPT ![e] = r]
      BY <1>19, <2>1 DEF Recover, LoseOwner, Open
    <3>2. r.principal = executions[e].principal /\ r.key = executions[e].key
          /\ r.tenant_revision = executions[e].tenant_revision
      BY <1>0 DEF ExecutionRow
    <3>3. IdentityKept
      BY <3>1, <3>2, FieldsKept
    <3>4. ReservationsKept
      <4>1. \A a \in Attempt : [attempts[a] EXCEPT !.state = "unknown"].state = "unknown"
        BY <1>0 DEF AttemptRow
      <4>. QED  BY <2>1, <4>1 DEF LoseOwner, ReservationsKept
    <3>. QED  BY <2>1, <3>3, <3>4 DEF LoseOwner, Quiet, PolicyKept
  <2>2. CASE FinalizeOrphan(e)
    BY <1>16, <2>2 DEF FinalizeOrphan
  <2>. QED  BY <1>19, <2>1, <2>2 DEF Recover
<1>20. ASSUME NEW e \in Execution, NEW a \in Attempt, NEW out \in Resolution,
              ResolveAttempt(e, a, out)
       PROVE  Quiet
  <2>. DEFINE r == [executions[e] EXCEPT !.state = "resolved", !.outcome = out, !.due = NoDue]
  <2>1. executions[e].state # "absent" /\ executions' = [executions EXCEPT ![e] = r]
    BY <1>20 DEF ResolveAttempt
  <2>2. r.principal = executions[e].principal /\ r.key = executions[e].key
        /\ r.tenant_revision = executions[e].tenant_revision
    BY <1>0 DEF ExecutionRow
  <2>3. IdentityKept
    BY <2>1, <2>2, FieldsKept
  <2>4. ReservationsKept
    BY <1>20, ReplaceReserves DEF ResolveAttempt
  <2>5. PolicyKept
    BY <1>20, ReleaseKeepsPolicy DEF ResolveAttempt
  <2>. QED  BY <1>20, <2>3, <2>4, <2>5 DEF ResolveAttempt, Quiet
<1>21. ASSUME NEW e \in Execution, NEW ep \in Episode, GuardedRoute(e, ep) PROVE Quiet
  <2>. DEFINE r == [executions[e] EXCEPT !.trajectory = ep,
                                         !.due = instances[executions[e].owner].expires]
  <2>1. executions[e].state # "absent" /\ executions' = [executions EXCEPT ![e] = r]
    BY <1>21 DEF GuardedRoute, BindTrajectory, AuthorizedExecution, Open
  <2>2. r.principal = executions[e].principal /\ r.key = executions[e].key
        /\ r.tenant_revision = executions[e].tenant_revision
    BY <1>0 DEF ExecutionRow
  <2>3. IdentityKept
    BY <2>1, <2>2, FieldsKept
  <2>. QED  BY <1>21, <2>3 DEF GuardedRoute, Quiet, PolicyKept, ReservationsKept
<1>22. ASSUME NEW e \in Execution, Project(e) PROVE Quiet
  BY <1>1, <1>22 DEF Project
<1>. QED
  BY <1>2, <1>3, <1>4, <1>5, <1>7, <1>8, <1>13, <1>14, <1>15, <1>17, <1>18, <1>19,
     <1>20, <1>21, <1>22
     DEF Next

-----------------------------------------------------------------------------
(* Idempotency keys *)

\* The inductive invariant: an execution with a key has a principal, and
\* through it a tenant.
KeyInv ==
    /\ KeyNamesItsExecution
    /\ \A e \in Execution : executions[e].key # None => executions[e].principal \in Principal

\* A step that keeps the identities and the bindings keeps the keys.
LEMMA KeyKept ==
    ASSUME KeyInv, idempotency' = idempotency,
           \A x \in Execution : /\ executions'[x].principal = executions[x].principal
                                /\ executions'[x].key = executions[x].key
    PROVE  KeyInv'
  BY DEF KeyInv, KeyNamesItsExecution, TenantOfExecution

\* Admission binds a key only while it is free.
LEMMA KeyAdmit ==
    ASSUME LedgerInv, KeyInv, NEW o \in Owner, NEW e \in Execution, NEW p \in Principal,
           NEW k \in Key \cup {None}, Admit(o, e, p, k)
    PROVE  KeyInv'
<1>. USE DEF TenantOfExecution
<1>1. /\ executions \in [Execution -> ExecutionRow]
      /\ idempotency \in [Tenant -> [Key -> Execution \cup {None}]]
  BY DEF LedgerInv, TypeInv, TypeOK
<1>2. /\ executions'[e].principal = p /\ executions'[e].key = k
      /\ \A x \in Execution \ {e} : executions'[x] = executions[x]
  BY <1>1 DEF Admit
<1>3. TenantOf[p] \in Tenant /\ None \notin Execution
  BY EngineAssumption
<1>4. k # None => idempotency'[TenantOf[p]][k] = e
  BY <1>1, <1>3 DEF Admit
<1>5. ASSUME NEW x \in Execution \ {e}, executions[x].key # None
      PROVE  /\ executions[x].principal \in Principal
             /\ idempotency'[TenantOfExecution(x)][executions[x].key] = x
  <2>1. /\ executions[x].principal \in Principal
        /\ idempotency[TenantOfExecution(x)][executions[x].key] = x
    BY <1>5 DEF KeyInv, KeyNamesItsExecution
  <2>2. executions[x].key \in Key /\ TenantOfExecution(x) \in Tenant
    BY <1>1, <1>5, <2>1, EngineAssumption DEF ExecutionRow
  <2>3. CASE k = None
    BY <2>1, <2>3 DEF Admit
  <2>4. CASE k # None
    <3>1. idempotency[TenantOf[p]][k] = None
      BY <2>4 DEF Admit, KeyIsFree
    <3>2. ~ (TenantOfExecution(x) = TenantOf[p] /\ executions[x].key = k)
      BY <1>3, <2>1, <3>1
    <3>3. idempotency' = [idempotency EXCEPT ![TenantOf[p]][k] = e]
      BY <2>4 DEF Admit
    <3>. QED  BY <1>1, <1>3, <2>1, <2>2, <3>2, <3>3
  <2>. QED  BY <2>1, <2>3, <2>4
<1>. QED  BY <1>2, <1>4, <1>5 DEF KeyInv, KeyNamesItsExecution

\* Every step keeps the keys.
LEMMA KeyStep == LedgerInv /\ KeyInv /\ [Next]_vars => KeyInv'
<1>. SUFFICES ASSUME LedgerInv, KeyInv, [Next]_vars PROVE KeyInv'
  OBVIOUS
<1>1. executions \in [Execution -> ExecutionRow]
  BY DEF LedgerInv, TypeInv, TypeOK
<1>2. ASSUME NEW t \in Tenant, NEW limits \in TenantLimits, PutTenant(t, limits) PROVE KeyInv'
  BY <1>2, KeyKept DEF PutTenant, rows
<1>3. ASSUME NEW e \in Execution, NEW a \in Attempt, NEW p \in Pool, PrepareAttempt(e, a, p)
      PROVE  KeyInv'
  <2>1. \A x \in Execution : /\ executions'[x].principal = executions[x].principal
                             /\ executions'[x].key = executions[x].key
    BY <1>1, <1>3 DEF PrepareAttempt, ExecutionRow
  <2>. QED  BY <1>3, <2>1, KeyKept DEF PrepareAttempt
<1>4. ASSUME NEW e \in Execution, NEW a \in Attempt, Dispatch(e, a) PROVE KeyInv'
  <2>1. \A x \in Execution : /\ executions'[x].principal = executions[x].principal
                             /\ executions'[x].key = executions[x].key
    BY <1>1, <1>4 DEF Dispatch, ExecutionRow
  <2>. QED  BY <1>4, <2>1, KeyKept DEF Dispatch
<1>5. CASE Quiet
  BY <1>5, KeyKept DEF Quiet, IdentityKept
<1>. QED  BY <1>2, <1>3, <1>4, <1>5, StepKinds, KeyAdmit

\* No two executions of a tenant are ever admitted under one idempotency key
\* (admission.rs, admit_with_id): the key names the execution it admitted.
THEOREM KeyNamesItsExecutionHolds == Spec => []KeyNamesItsExecution
<1>1. Init => KeyInv
  BY DEF Init, KeyInv, KeyNamesItsExecution, NoExecution
<1>2. KeyInv => KeyNamesItsExecution
  BY DEF KeyInv
<1>. QED  BY <1>1, <1>2, KeyStep, LedgerCorrect, PTL DEF Spec

-----------------------------------------------------------------------------
(* The dispatch fence *)

\* No execution was admitted under a policy its tenant does not have yet.
RevisionBound ==
    \A e \in Execution : executions[e].state # "absent" =>
       executions[e].tenant_revision <= tenants[TenantOfExecution(e)].policy_revision

\* The pools an execution's tenant may use.
PoolsOf(e) == tenants[TenantOfExecution(e)].limits.resource_pools

\* A reservation whose execution still has its tenant policy is for a pool the
\* policy allows.
PoolAllowedFor(a) ==
    attempts[a].state = "prepared" /\ SamePolicy(attempts[a].execution) =>
       attempts[a].pool \in PoolsOf(attempts[a].execution)
PoolAllowed == \A a \in Attempt : PoolAllowedFor(a)

\* The inductive invariant of the fence.
FenceInv == RevisionBound /\ PoolAllowed

\* A reserved attempt belongs to an execution that exists.
LEMMA ReservedFor ==
    ASSUME LedgerInv, NEW a \in Attempt, attempts[a].state # "absent"
    PROVE  /\ attempts[a].execution \in Execution
           /\ executions[attempts[a].execution].state # "absent"
           /\ executions[attempts[a].execution].principal \in Principal
           /\ TenantOfExecution(attempts[a].execution) \in Tenant
<1>1. attempts[a].execution \in Execution /\ a \in AttemptsOf(attempts[a].execution)
  BY DEF LedgerInv, AttemptLedger
<1>. QED  BY <1>1, HasAttempts, EngineAssumption DEF LedgerInv, TenantOfExecution

\* A step that keeps identities and policies and reserves nothing keeps the fence.
LEMMA FenceKept ==
    ASSUME LedgerInv, FenceInv, IdentityKept, PolicyKept,
           \A a \in Attempt : attempts'[a].state = "prepared" => attempts'[a] = attempts[a]
    PROVE  FenceInv'
<1>1. ASSUME NEW e \in Execution, executions'[e].state # "absent"
      PROVE  executions'[e].tenant_revision <= tenants'[TenantOfExecution(e)'].policy_revision
  <2>1. executions[e].state # "absent" /\ TenantOfExecution(e)' = TenantOfExecution(e)
        /\ executions'[e].tenant_revision = executions[e].tenant_revision
    BY <1>1 DEF IdentityKept, TenantOfExecution
  <2>2. TenantOfExecution(e) \in Tenant
    BY <2>1, EngineAssumption DEF LedgerInv, TypeInv, Admitted, TenantOfExecution
  <2>. QED  BY <2>1, <2>2 DEF FenceInv, RevisionBound, PolicyKept
<1>2. ASSUME NEW a \in Attempt, PoolAllowedFor(a)
      PROVE  PoolAllowedFor(a)'
  <2>. SUFFICES ASSUME attempts'[a].state = "prepared", SamePolicy(attempts[a].execution)'
                PROVE  (attempts[a].pool \in PoolsOf(attempts[a].execution))'
    BY DEF PoolAllowedFor
  <2>. DEFINE e == attempts[a].execution
  <2>1. attempts'[a] = attempts[a]
    OBVIOUS
  <2>2. e \in Execution /\ TenantOfExecution(e) \in Tenant
    BY <2>1, ReservedFor
  <2>3. TenantOfExecution(e)' = TenantOf[executions'[e].principal]
    BY <2>1 DEF TenantOfExecution
  <2>4. TenantOf[executions'[e].principal] = TenantOfExecution(e)
    BY <2>2 DEF IdentityKept, TenantOfExecution
  <2>5. SamePolicy(e)
    BY <2>1, <2>2, <2>3, <2>4 DEF SamePolicy, IdentityKept, PolicyKept
  <2>6. attempts[a].pool \in PoolsOf(e)
    BY <1>2, <2>1, <2>5 DEF PoolAllowedFor
  <2>7. PoolsOf(e)' = PoolsOf(e)
    BY <2>2, <2>3, <2>4 DEF PoolsOf, PolicyKept
  <2>. QED  BY <2>1, <2>6, <2>7
<1>. QED  BY <1>1, <1>2 DEF FenceInv, RevisionBound, PoolAllowed

\* A replaced policy has a revision no execution was admitted under.
LEMMA FencePutTenant ==
    ASSUME LedgerInv, FenceInv, NEW t \in Tenant, NEW limits \in TenantLimits,
           PutTenant(t, limits)
    PROVE  FenceInv'
<1>1. tenants \in [Tenant -> TenantRow] /\ UNCHANGED <<executions, attempts>>
  BY DEF PutTenant, rows, LedgerInv, TypeInv, TypeOK
<1>2. \A u \in Tenant : tenants[u].policy_revision \in Nat
  BY <1>1 DEF TenantRow
<1>3. /\ tenants'[t].policy_revision = tenants[t].policy_revision + 1
      /\ \A u \in Tenant \ {t} : tenants'[u] = tenants[u]
  BY <1>1, <1>2 DEF PutTenant, TenantRow
<1>4. \A e \in Execution : executions[e].tenant_revision \in Nat
  BY DEF LedgerInv, TypeInv, TypeOK, ExecutionRow
<1>5. \A e \in Execution : TenantOfExecution(e)' = TenantOfExecution(e)
  BY <1>1 DEF TenantOfExecution
<1>6. \A e \in Execution : executions[e].state # "absent" => TenantOfExecution(e) \in Tenant
  BY EngineAssumption DEF LedgerInv, TypeInv, Admitted, TenantOfExecution
<1>7. RevisionBound'
  BY <1>1, <1>2, <1>3, <1>4, <1>5, <1>6 DEF FenceInv, RevisionBound
<1>8. ASSUME NEW a \in Attempt PROVE PoolAllowedFor(a)'
  <2>. SUFFICES ASSUME attempts[a].state = "prepared", SamePolicy(attempts[a].execution)'
                PROVE  (attempts[a].pool \in PoolsOf(attempts[a].execution))'
    BY <1>1 DEF PoolAllowedFor
  <2>. DEFINE e == attempts[a].execution
  <2>1. /\ e \in Execution /\ executions[e].state # "absent" /\ TenantOfExecution(e) \in Tenant
        /\ e' = e /\ attempts'[a].pool = attempts[a].pool
    BY <1>1, ReservedFor
  <2>2. executions[e].tenant_revision = tenants'[TenantOfExecution(e)].policy_revision
    BY <1>1, <1>5, <2>1 DEF SamePolicy
  <2>3. executions[e].tenant_revision <= tenants[TenantOfExecution(e)].policy_revision
    BY <2>1 DEF FenceInv, RevisionBound
  <2>4. TenantOfExecution(e) # t
    BY <1>2, <1>3, <1>4, <2>1, <2>2, <2>3
  <2>5. tenants'[TenantOfExecution(e)] = tenants[TenantOfExecution(e)]
    BY <1>3, <2>1, <2>4
  <2>6. SamePolicy(e)
    BY <2>2, <2>5 DEF SamePolicy
  <2>7. attempts[a].pool \in PoolsOf(e)
    BY <2>6 DEF FenceInv, PoolAllowed, PoolAllowedFor
  <2>8. PoolsOf(e)' = PoolsOf(e)
    BY <1>5, <2>1, <2>5 DEF PoolsOf
  <2>. QED  BY <2>1, <2>7, <2>8
<1>. QED  BY <1>7, <1>8 DEF FenceInv, PoolAllowed

\* An execution is admitted under its tenant's current policy and reserves nothing.
LEMMA FenceAdmit ==
    ASSUME LedgerInv, FenceInv, NEW o \in Owner, NEW e \in Execution, NEW p \in Principal,
           NEW k \in Key \cup {None}, Admit(o, e, p, k)
    PROVE  FenceInv'
<1>1. /\ tenants \in [Tenant -> TenantRow] /\ executions \in [Execution -> ExecutionRow]
      /\ attempts' = attempts /\ TenantOf[p] \in Tenant
  BY EngineAssumption DEF Admit, LedgerInv, TypeInv, TypeOK
<1>2. PolicyKept
  BY <1>1 DEF Admit, PolicyKept, TenantRow
<1>3. /\ executions'[e].principal = p
      /\ executions'[e].tenant_revision = tenants[TenantOf[p]].policy_revision
      /\ \A x \in Execution \ {e} : executions'[x] = executions[x]
  BY <1>1 DEF Admit
<1>4. tenants[TenantOf[p]].policy_revision \in Nat
  BY <1>1 DEF TenantRow
<1>5. ASSUME NEW x \in Execution, executions'[x].state # "absent"
      PROVE  executions'[x].tenant_revision <= tenants'[TenantOfExecution(x)'].policy_revision
  <2>1. CASE x = e
    BY <1>1, <1>2, <1>3, <1>4, <2>1 DEF PolicyKept, TenantOfExecution
  <2>2. CASE x # e
    <3>1. executions'[x] = executions[x] /\ TenantOfExecution(x)' = TenantOfExecution(x)
      BY <1>3, <2>2 DEF TenantOfExecution
    <3>2. TenantOfExecution(x) \in Tenant
      BY <1>5, <3>1, EngineAssumption DEF LedgerInv, TypeInv, Admitted, TenantOfExecution
    <3>. QED  BY <1>2, <1>5, <3>1, <3>2 DEF FenceInv, RevisionBound, PolicyKept
  <2>. QED  BY <2>1, <2>2
<1>6. ASSUME NEW a \in Attempt PROVE PoolAllowedFor(a)'
  <2>. SUFFICES ASSUME attempts[a].state = "prepared", SamePolicy(attempts[a].execution)'
                PROVE  (attempts[a].pool \in PoolsOf(attempts[a].execution))'
    BY <1>1 DEF PoolAllowedFor
  <2>. DEFINE x == attempts[a].execution
  <2>1. /\ x \in Execution /\ executions[x].state # "absent" /\ TenantOfExecution(x) \in Tenant
        /\ x' = x /\ attempts'[a].pool = attempts[a].pool
    BY <1>1, ReservedFor
  <2>2. x # e
    BY <2>1 DEF Admit
  <2>3. executions'[x] = executions[x] /\ TenantOfExecution(x)' = TenantOfExecution(x)
    BY <1>1, <1>3, <2>1, <2>2 DEF TenantOfExecution
  <2>4. SamePolicy(x)
    BY <1>1, <1>2, <2>1, <2>3 DEF SamePolicy, PolicyKept
  <2>5. attempts[a].pool \in PoolsOf(x)
    BY <2>4 DEF FenceInv, PoolAllowed, PoolAllowedFor
  <2>6. PoolsOf(x)' = PoolsOf(x)
    BY <1>2, <2>1, <2>3 DEF PoolsOf, PolicyKept
  <2>. QED  BY <2>1, <2>5, <2>6
<1>. QED  BY <1>5, <1>6 DEF FenceInv, RevisionBound, PoolAllowed

\* A reservation is made only for a pool the tenant policy allows.
LEMMA FencePrepare ==
    ASSUME LedgerInv, FenceInv, NEW e \in Execution, NEW a \in Attempt, NEW p \in Pool,
           PrepareAttempt(e, a, p)
    PROVE  FenceInv'
<1>1. /\ executions \in [Execution -> ExecutionRow] /\ attempts \in [Attempt -> AttemptRow]
      /\ tenants' = tenants
  BY DEF PrepareAttempt, LedgerInv, TypeInv, TypeOK
<1>2. \A x \in Execution : /\ executions'[x].principal = executions[x].principal
                           /\ executions'[x].tenant_revision = executions[x].tenant_revision
                           /\ executions[x].state = "absent" => executions'[x].state = "absent"
  BY <1>1 DEF PrepareAttempt, AuthorizedExecution, Open, ExecutionRow
<1>3. \A x \in Execution : TenantOf[executions'[x].principal] = TenantOfExecution(x)
  BY <1>2 DEF TenantOfExecution
<1>4. RevisionBound'
  BY <1>1, <1>2, <1>3 DEF FenceInv, RevisionBound, TenantOfExecution
<1>5. /\ attempts'[a].execution = e /\ attempts'[a].pool = p
      /\ \A b \in Attempt \ {a} : attempts'[b] = attempts[b]
  BY <1>1 DEF PrepareAttempt
<1>6. PoolAllowedFor(a)'
  <2>1. p \in PoolsOf(e)
    BY DEF PrepareAttempt, PoolsOf
  <2>. QED  BY <1>1, <1>3, <1>5, <2>1 DEF PoolAllowedFor, PoolsOf, TenantOfExecution
<1>7. ASSUME NEW b \in Attempt \ {a} PROVE PoolAllowedFor(b)'
  <2>. SUFFICES ASSUME attempts'[b].state = "prepared", SamePolicy(attempts[b].execution)'
                PROVE  (attempts[b].pool \in PoolsOf(attempts[b].execution))'
    BY DEF PoolAllowedFor
  <2>. DEFINE x == attempts[b].execution
  <2>1. attempts'[b] = attempts[b]
    BY <1>5
  <2>2. x \in Execution /\ x' = x
    BY <2>1, ReservedFor
  <2>3. SamePolicy(x)
    BY <1>1, <1>2, <1>3, <2>2 DEF SamePolicy, TenantOfExecution
  <2>4. attempts[b].pool \in PoolsOf(x)
    BY <2>1, <2>3 DEF FenceInv, PoolAllowed, PoolAllowedFor
  <2>5. PoolsOf(x)' = PoolsOf(x)
    BY <1>1, <1>3, <2>2 DEF PoolsOf, TenantOfExecution
  <2>. QED  BY <2>1, <2>4, <2>5
<1>. QED  BY <1>4, <1>6, <1>7 DEF FenceInv, PoolAllowed

\* Dispatch consumes a reservation and keeps the rest.
LEMMA FenceDispatch ==
    ASSUME LedgerInv, FenceInv, NEW e \in Execution, NEW a \in Attempt, Dispatch(e, a)
    PROVE  FenceInv'
<1>1. executions \in [Execution -> ExecutionRow] /\ attempts \in [Attempt -> AttemptRow]
  BY DEF LedgerInv, TypeInv, TypeOK
<1>2. IdentityKept
  BY <1>1 DEF Dispatch, AuthorizedExecution, Open, IdentityKept, ExecutionRow
<1>3. PolicyKept
  BY DEF Dispatch, counters, PolicyKept
<1>4. attempts'[a].state = "dispatched" /\ \A b \in Attempt \ {a} : attempts'[b] = attempts[b]
  BY <1>1 DEF Dispatch, ReplaceAttempt, AttemptRow
<1>. QED  BY <1>2, <1>3, <1>4, FenceKept

\* Every step keeps the fence.
LEMMA FenceStep == LedgerInv /\ FenceInv /\ [Next]_vars => FenceInv'
<1>. SUFFICES ASSUME LedgerInv, FenceInv, [Next]_vars PROVE FenceInv'
  OBVIOUS
<1>1. CASE Quiet
  BY <1>1, FenceKept DEF Quiet, ReservationsKept
<1>. QED  BY <1>1, StepKinds, FencePutTenant, FenceAdmit, FencePrepare, FenceDispatch

\* Only an attempt whose fences all hold turns from reserved into dispatched.
LEMMA FencedStep ==
    ASSUME LedgerInv, FenceInv, [Next]_vars, NEW a \in Attempt,
           attempts[a].state = "prepared", attempts'[a].state = "dispatched"
    PROVE  Fenced(a)
<1>1. attempts \in [Attempt -> AttemptRow]
  BY DEF LedgerInv, TypeInv, TypeOK
<1>2. ASSUME NEW e \in Execution, NEW b \in Attempt, NEW p \in Pool, PrepareAttempt(e, b, p)
      PROVE  FALSE
  BY <1>1, <1>2 DEF PrepareAttempt
<1>3. PICK e \in Execution, b \in Attempt : Dispatch(e, b)
  <2>1. ~ Quiet
    BY DEF Quiet, ReservationsKept
  <2>2. attempts' # attempts
    OBVIOUS
  <2>3. ASSUME NEW t \in Tenant, NEW limits \in TenantLimits, PutTenant(t, limits) PROVE FALSE
    BY <2>2, <2>3 DEF PutTenant, rows
  <2>4. ASSUME NEW o \in Owner, NEW e \in Execution, NEW p \in Principal,
               NEW k \in Key \cup {None}, Admit(o, e, p, k)
        PROVE  FALSE
    BY <2>2, <2>4 DEF Admit
  <2>. QED  BY <1>2, <2>1, <2>3, <2>4, StepKinds
<1>4. a = b
  BY <1>1, <1>3 DEF Dispatch, ReplaceAttempt
<1>5. attempts[a].execution = e
  BY <1>3, <1>4 DEF Dispatch, LedgerInv, AttemptLedger
<1>6. SamePolicy(e) /\ PoolAllowedFor(a)
  BY <1>3 DEF Dispatch, AuthorizedExecution, FenceInv, PoolAllowed
<1>7. attempts[a].pool \in tenants[TenantOfExecution(e)].limits.resource_pools
  BY <1>5, <1>6 DEF PoolAllowedFor, PoolsOf
<1>8. /\ executions[e].authorization = principals[executions[e].principal]
      /\ executions[e].authorization.active
      /\ executions[e].generation = head
      /\ attempts[a].credential = credentials[attempts[a].pool]
      /\ attempts[a].resource_revision = resources[attempts[a].pool].policy_revision
  BY <1>3, <1>4 DEF Dispatch, AuthorizedExecution, Authenticate
<1>. QED  BY <1>5, <1>7, <1>8 DEF Fenced

\* Provider work is authorised only under the authority, policies, configuration
\* and credential the execution was admitted and the slot was reserved with
\* (attempts.rs, dispatch).
THEOREM FencedDispatchHolds == Spec => FencedDispatch
<1>1. Init => FenceInv
  BY DEF Init, FenceInv, RevisionBound, PoolAllowed, PoolAllowedFor, NoExecution, NoAttempt
<1>2. LedgerInv /\ FenceInv /\ [Next]_vars =>
        \A a \in Attempt :
          attempts[a].state = "prepared" /\ attempts'[a].state = "dispatched" => Fenced(a)
  BY FencedStep
<1>. QED  BY <1>1, <1>2, FenceStep, LedgerCorrect, PTL DEF Spec, FencedDispatch

-----------------------------------------------------------------------------
(* The outcome an execution reports *)

\* Nothing is reported before settlement.
UnsettledIsSilent ==
    \A e \in Execution : executions[e].state \notin Settled => executions[e].outcome = "none"

\* The incarnation that owns an execution joined before it was admitted.
OwnerKnown ==
    \A e \in Execution : executions[e].state # "absent" =>
       instances[executions[e].owner].status # "absent"

\* A provider terminal was observed by a sender that was authorised.
ObservedWasSent ==
    \A a \in Attempt : attempts[a].state \in Provider => permits[a] = 1

\* What OutcomeIsTrue says of one execution.
TrueOutcome(e) ==
    /\ executions[e].outcome = "owner_lost" =>
          /\ ~ LiveOwner(executions[e].owner)
          /\ \A a \in AttemptsOf(e) : permits[a] = 0
    /\ executions[e].outcome = "succeeded" =>
          /\ \E i \in DOMAIN executions[e].attempts :
                /\ attempts[executions[e].attempts[i]].state = "succeeded"
                /\ \A j \in DOMAIN executions[e].attempts :
                      j > i => attempts[executions[e].attempts[j]].state # "failed"
          /\ \A a \in AttemptsOf(e) : attempts[a].state \in Provider => permits[a] = 1

\* The inductive invariant of the outcomes.
OutcomeInv ==
    /\ UnsettledIsSilent /\ OwnerKnown /\ ObservedWasSent
    /\ \A e \in Execution : TrueOutcome(e)

\* The attempts of a settled execution are concluded.
LEMMA SettledConcluded ==
    ASSUME LedgerInv, NEW e \in Execution, executions[e].state \in Settled
    PROVE  AttemptsOf(e) \subseteq Attempt /\ \A a \in AttemptsOf(e) : attempts[a].state \in Final
<1>1. \A a \in AttemptsOf(e) : attempts[a].state # "absent" /\ attempts[a].state \notin Holding
  BY DEF LedgerInv, AttemptLedger, OneUnresolvedAttempt
<1>2. AttemptsOf(e) \subseteq Attempt /\ \A a \in AttemptsOf(e) : attempts[a].state \in AttemptState
  BY LedgerFacts DEF AttemptRow
<1>. QED  BY <1>1, <1>2 DEF AttemptState, Final

\* What a settled execution reported stays true: its attempts are final, none of
\* them is authorised any more, and its owner does not come back.
LEMMA ReportedStaysTrue ==
    ASSUME LedgerInv, OutcomeInv, [Next]_vars, NEW e \in Execution,
           executions[e].state \in Settled,
           \A a \in Attempt : attempts[a].state \in Final => permits'[a] = permits[a]
    PROVE  TrueOutcome(e)'
<1>1. executions'[e] = executions[e]
  BY FinalStep DEF SettledKept
<1>2. AttemptsOf(e) \subseteq Attempt /\ \A a \in AttemptsOf(e) : attempts[a].state \in Final
  BY SettledConcluded
<1>3. \A a \in AttemptsOf(e) : attempts'[a] = attempts[a] /\ permits'[a] = permits[a]
  BY <1>2, FinalStep DEF ConcludedKept
<1>4. AttemptsOf(e)' = AttemptsOf(e)
  BY <1>1 DEF AttemptsOf
<1>5. \A i \in DOMAIN executions[e].attempts : executions[e].attempts[i] \in AttemptsOf(e)
  BY DEF AttemptsOf
<1>6. PICK o \in Owner : o = executions[e].owner
  BY DEF LedgerInv, TypeInv, Admitted, Settled
<1>7. instances[o].status # "absent"
  BY <1>6 DEF OutcomeInv, OwnerKnown, Settled
<1>8. ~ LiveOwner(o) => ~ LiveOwner(o)'
  BY <1>7, LeaseStep DEF LeaseKept, LedgerInv
<1>9. TrueOutcome(e)
  BY DEF OutcomeInv
<1>10. executions[e].outcome = "owner_lost" =>
         /\ ~ LiveOwner(o)'
         /\ \A a \in AttemptsOf(e)' : permits'[a] = 0
  BY <1>3, <1>4, <1>6, <1>8, <1>9 DEF TrueOutcome
<1>11. executions[e].outcome = "succeeded" =>
          /\ \E i \in DOMAIN executions'[e].attempts :
                /\ attempts'[executions'[e].attempts[i]].state = "succeeded"
                /\ \A j \in DOMAIN executions'[e].attempts :
                      j > i => attempts'[executions'[e].attempts[j]].state # "failed"
          /\ \A a \in AttemptsOf(e)' : attempts'[a].state \in Provider => permits'[a] = 1
  BY <1>1, <1>3, <1>4, <1>5, <1>9 DEF TrueOutcome
<1>12. executions'[e].owner = o
  BY <1>1, <1>6
<1>. QED  BY <1>1, <1>10, <1>11, <1>12 DEF TrueOutcome, LiveOwner

\* An execution that reports nothing reports nothing wrong.
LEMMA SilentIsTrue ==
    ASSUME NEW e \in Execution, executions'[e].outcome \notin {"owner_lost", "succeeded"}
    PROVE  TrueOutcome(e)'
  BY DEF TrueOutcome

\* A step that settles nothing keeps the outcomes.
LEMMA OutcomeKept ==
    ASSUME LedgerInv, OutcomeInv, [Next]_vars,
           \A x \in Execution :
              /\ executions'[x].outcome = executions[x].outcome
              /\ executions'[x].owner = executions[x].owner
              /\ executions'[x].state = "absent" <=> executions[x].state = "absent"
              /\ executions'[x].state \in Settled <=> executions[x].state \in Settled,
           \A a \in Attempt :
              /\ attempts[a].state \in Final => permits'[a] = permits[a]
              /\ attempts'[a].state \in Provider => permits'[a] = 1
    PROVE  OutcomeInv'
<1>1. \A x \in Execution : executions[x].state \in Settled => TrueOutcome(x)'
  BY ReportedStaysTrue
<1>2. \A x \in Execution : executions[x].state \notin Settled => TrueOutcome(x)'
  BY SilentIsTrue DEF OutcomeInv, UnsettledIsSilent
<1>3. ASSUME NEW x \in Execution, executions'[x].state # "absent"
      PROVE  instances'[executions'[x].owner].status # "absent"
  <2>1. executions[x].state # "absent" /\ executions[x].owner \in Owner
    BY <1>3 DEF LedgerInv, TypeInv, Admitted
  <2>. QED  BY <2>1, LeaseStep DEF LeaseKept, LedgerInv, OutcomeInv, OwnerKnown
<1>. QED
  BY <1>1, <1>2, <1>3 DEF OutcomeInv, UnsettledIsSilent, OwnerKnown, ObservedWasSent

\* An execution is admitted by an incarnation that joined, and reports nothing.
LEMMA OutcomeAdmit ==
    ASSUME LedgerInv, OutcomeInv, [Next]_vars, NEW o \in Owner, NEW e \in Execution,
           NEW p \in Principal, NEW k \in Key \cup {None}, Admit(o, e, p, k)
    PROVE  OutcomeInv'
<1>1. /\ executions \in [Execution -> ExecutionRow]
      /\ UNCHANGED <<attempts, permits, instances>>
  BY DEF LedgerInv, TypeInv, TypeOK, Admit
<1>2. /\ executions[e].state = "absent"
      /\ executions'[e].state = "accepted" /\ executions'[e].outcome = "none"
      /\ executions'[e].owner = o /\ instances[o].status # "absent"
      /\ \A x \in Execution \ {e} : executions'[x] = executions[x]
  BY <1>1 DEF Admit, AcceptingOwner, LiveOwner
<1>3. \A x \in Execution : executions[x].state \in Settled => TrueOutcome(x)'
  BY <1>1, ReportedStaysTrue
<1>4. \A x \in Execution : executions[x].state \notin Settled => TrueOutcome(x)'
  BY <1>2, SilentIsTrue DEF OutcomeInv, UnsettledIsSilent
<1>. QED
  BY <1>1, <1>2, <1>3, <1>4
     DEF OutcomeInv, UnsettledIsSilent, OwnerKnown, ObservedWasSent, Settled

\* A finalization reports success only with the provider's latest terminal, and
\* a lost owner only when nothing was ever authorised.
LEMMA OutcomeFinalized ==
    ASSUME LedgerInv, OutcomeInv, [Next]_vars, NEW e \in Execution, NEW out,
           FinalizeLocked(e, out), out = "owner_lost" => LostBeforeDispatch(e)
    PROVE  OutcomeInv'
<1>. USE LedgerFacts
<1>1. /\ executions[e].state \in Open /\ executions[e].state # "absent"
      /\ executions[e].state \notin Settled
      /\ UNCHANGED <<now, permits, instances>>
  BY DEF FinalizeLocked, Open, Settled
<1>2. /\ executions'[e].state = "terminal" /\ executions'[e].outcome = out
      /\ executions'[e].owner = executions[e].owner
      /\ executions'[e].attempts = executions[e].attempts
      /\ \A x \in Execution \ {e} : executions'[x] = executions[x]
  BY DEF FinalizeLocked, ExecutionRow
<1>3. \A b \in Attempt : attempts'[b].state =
         IF b \in PreparedOf(e) THEN "not_dispatched" ELSE attempts[b].state
  <2>1. \A b \in Attempt : [attempts[b] EXCEPT !.state = "not_dispatched"].state = "not_dispatched"
    BY DEF AttemptRow
  <2>2. \A b \in Attempt : attempts'[b] =
          IF b \in PreparedOf(e) THEN [attempts[b] EXCEPT !.state = "not_dispatched"]
                                 ELSE attempts[b]
    BY DEF FinalizeLocked
  <2>. QED  BY <2>1, <2>2
<1>4. \A b \in AttemptsOf(e) : b \in Attempt /\ views[b] = attempts[b].state
  OBVIOUS
<1>5. AttemptsOf(e)' = AttemptsOf(e)
  BY <1>2 DEF AttemptsOf
<1>6. ObservedWasSent'
  BY <1>1, <1>3 DEF OutcomeInv, ObservedWasSent, Provider
<1>7. ASSUME out = "owner_lost"
      PROVE  ~ LiveOwner(executions[e].owner)' /\ \A a \in AttemptsOf(e) : permits[a] = 0
  <2>1. LostBeforeDispatch(e)
    BY <1>7
  <2>2. LiveOwner(executions[e].owner)' <=> LiveOwner(executions[e].owner)
    BY <1>1, <1>2 DEF LiveOwner
  <2>3. \A a \in AttemptsOf(e) : attempts[a].state \in {"prepared", "not_dispatched"}
    BY <1>4, <2>1 DEF LostBeforeDispatch, NoTerminal, FinalizeLocked
  <2>4. \A a \in AttemptsOf(e) : permits[a] \in Nat /\ permits[a] <= 1 /\ permits[a] # 1
    BY <1>4, <2>3 DEF LedgerInv, SendOnce, Provider
  <2>5. \A a \in AttemptsOf(e) : permits[a] = 0
    BY <2>4
  <2>. QED  BY <2>1, <2>2, <2>5 DEF LostBeforeDispatch
<1>8. ASSUME out = "succeeded"
      PROVE  \E i \in DOMAIN executions[e].attempts :
                /\ attempts'[executions[e].attempts[i]].state = "succeeded"
                /\ \A j \in DOMAIN executions[e].attempts :
                      j > i => attempts'[executions[e].attempts[j]].state # "failed"
  <2>1. PICK i \in DOMAIN executions[e].attempts :
           /\ views[executions[e].attempts[i]] = "succeeded"
           /\ \A j \in DOMAIN executions[e].attempts :
                 j > i => views[executions[e].attempts[j]] \notin Provider
    BY <1>8 DEF FinalizeLocked, LatestTerminal
  <2>2. \A j \in DOMAIN executions[e].attempts :
           /\ executions[e].attempts[j] \in AttemptsOf(e)
           /\ executions[e].attempts[j] \in Attempt
           /\ views[executions[e].attempts[j]] = attempts[executions[e].attempts[j]].state
    BY <1>4 DEF AttemptsOf
  <2>3. attempts'[executions[e].attempts[i]].state = "succeeded"
    BY <1>3, <2>1, <2>2 DEF PreparedOf
  <2>4. ASSUME NEW j \in DOMAIN executions[e].attempts, j > i
        PROVE  attempts'[executions[e].attempts[j]].state # "failed"
    BY <1>3, <2>1, <2>2, <2>4 DEF Provider
  <2>. QED  BY <2>3, <2>4
<1>9. \A a \in AttemptsOf(e)' : attempts'[a].state \in Provider => permits'[a] = 1
  BY <1>4, <1>5, <1>6 DEF ObservedWasSent
<1>10. TrueOutcome(e)'
  BY <1>1, <1>2, <1>5, <1>7, <1>8, <1>9 DEF TrueOutcome, LiveOwner
<1>11. ASSUME NEW x \in Execution \ {e} PROVE TrueOutcome(x)'
  <2>1. CASE executions[x].state \in Settled
    BY <1>1, <2>1, ReportedStaysTrue
  <2>2. CASE executions[x].state \notin Settled
    BY <1>2, <2>2, SilentIsTrue DEF OutcomeInv, UnsettledIsSilent
  <2>. QED  BY <2>1, <2>2
<1>12. UnsettledIsSilent' /\ OwnerKnown'
  BY <1>1, <1>2 DEF OutcomeInv, UnsettledIsSilent, OwnerKnown, Settled
<1>. QED  BY <1>6, <1>10, <1>11, <1>12 DEF OutcomeInv

\* An operator's resolution claims neither.
LEMMA OutcomeResolved ==
    ASSUME LedgerInv, OutcomeInv, [Next]_vars, NEW e \in Execution, NEW a \in Attempt,
           NEW out \in Resolution, ResolveAttempt(e, a, out)
    PROVE  OutcomeInv'
<1>. USE LedgerFacts
<1>1. /\ executions[e].state # "absent" /\ executions[e].state \notin Settled
      /\ UNCHANGED <<permits, instances>>
  BY DEF ResolveAttempt, Settled
<1>2. /\ executions'[e].state = "resolved" /\ executions'[e].outcome = out
      /\ executions'[e].owner = executions[e].owner
      /\ \A x \in Execution \ {e} : executions'[x] = executions[x]
  BY DEF ResolveAttempt, ExecutionRow
<1>3. /\ attempts'[a].state = "resolved"
      /\ \A b \in Attempt \ {a} : attempts'[b] = attempts[b]
  BY ReplaceFacts DEF ResolveAttempt
<1>4. ASSUME NEW x \in Execution PROVE TrueOutcome(x)'
  <2>1. CASE x = e
    BY <1>2, <2>1, SilentIsTrue DEF Resolution
  <2>2. CASE x # e /\ executions[x].state \in Settled
    BY <1>1, <2>2, ReportedStaysTrue
  <2>3. CASE x # e /\ executions[x].state \notin Settled
    BY <1>2, <2>3, SilentIsTrue DEF OutcomeInv, UnsettledIsSilent
  <2>. QED  BY <2>1, <2>2, <2>3
<1>5. UnsettledIsSilent' /\ OwnerKnown'
  BY <1>1, <1>2 DEF OutcomeInv, UnsettledIsSilent, OwnerKnown, Settled
<1>6. ObservedWasSent'
  BY <1>1, <1>3 DEF OutcomeInv, ObservedWasSent, Provider
<1>. QED  BY <1>4, <1>5, <1>6 DEF OutcomeInv

\* Every step keeps the outcomes true.
LEMMA OutcomeStep == LedgerInv /\ OutcomeInv /\ [Next]_vars => OutcomeInv'
<1>. SUFFICES ASSUME LedgerInv, OutcomeInv, [Next]_vars PROVE OutcomeInv'
  OBVIOUS
<1>. USE DEF authority, counters, rows
<1>0. executions \in [Execution -> ExecutionRow]
  BY DEF LedgerInv, TypeInv, TypeOK
<1>1. ASSUME UNCHANGED <<executions, attempts, permits>> PROVE OutcomeInv'
  BY <1>1, OutcomeKept DEF OutcomeInv, ObservedWasSent
<1>2. ASSUME NEW t \in Tenant, NEW limits \in TenantLimits, PutTenant(t, limits) PROVE OutcomeInv'
  BY <1>1, <1>2 DEF PutTenant
<1>3. ASSUME NEW e \in Execution, Project(e) PROVE OutcomeInv'
  BY <1>1, <1>3 DEF Project
<1>4. ASSUME NEW e \in Execution, NEW a \in Attempt, NEW out \in Provider,
             RecordTerminal(e, a, out)
      PROVE  OutcomeInv'
  <2>1. \A x \in Execution :
           /\ executions'[x].outcome = executions[x].outcome
           /\ executions'[x].owner = executions[x].owner
           /\ executions'[x].state = "absent" <=> executions[x].state = "absent"
           /\ executions'[x].state \in Settled <=> executions[x].state \in Settled
    BY <1>0, <1>4 DEF RecordTerminal, ConcludeAttempt, ExecutionRow, Settled
  <2>2. permits' = permits /\ \A b \in Attempt \ {a} : attempts'[b] = attempts[b]
    BY <1>4, ReplaceFacts DEF RecordTerminal, ConcludeAttempt
  <2>3. permits[a] = 1
    <3>1. permits[a] \in Nat /\ permits[a] > 0 /\ permits[a] <= 1
      BY <1>4, LedgerFacts DEF RecordTerminal, LedgerInv, SendOnce
    <3>. QED  BY <3>1
  <2>. QED  BY <2>1, <2>2, <2>3, OutcomeKept DEF OutcomeInv, ObservedWasSent
<1>5. ASSUME NEW e \in Execution, NEW ep \in Episode, GuardedRoute(e, ep) PROVE OutcomeInv'
  <2>1. \A x \in Execution :
           /\ executions'[x].outcome = executions[x].outcome
           /\ executions'[x].owner = executions[x].owner
           /\ executions'[x].state = executions[x].state
    BY <1>0, <1>5 DEF GuardedRoute, BindTrajectory, ExecutionRow
  <2>. QED  BY <1>5, <2>1, OutcomeKept DEF GuardedRoute, OutcomeInv, ObservedWasSent
<1>6. CASE Silent
  <2>1. \A a \in Attempt : attempts'[a].state \in Provider => permits'[a] = 1
    BY <1>6 DEF Silent, EvidenceStays, OutcomeInv, ObservedWasSent, Final
  <2>. QED  BY <1>6, <2>1, OutcomeKept DEF Silent, RowsKept, EvidenceStays
<1>7. ASSUME NEW e \in Execution, NEW out \in Provider, FinalizeLocked(e, out) PROVE OutcomeInv'
  BY <1>7, OutcomeFinalized DEF Provider
<1>8. ASSUME NEW e \in Execution, LostBeforeDispatch(e), FinalizeLocked(e, "owner_lost")
      PROVE  OutcomeInv'
  BY <1>8, OutcomeFinalized
<1>. QED
  BY <1>2, <1>3, <1>4, <1>5, <1>6, <1>7, <1>8, OutcomeAdmit, OutcomeResolved, FrameStep

\* What an execution's outcome tells its tenant is true, for good
\* (finalization.rs, finalize_locked, and recovery.rs, reconcile_one): after
\* "owner lost before dispatch" no send was or will be authorised, and a success
\* is the provider's latest terminal on an authorised send.
THEOREM OutcomeIsTrueHolds == Spec => []OutcomeIsTrue
<1>1. Init => OutcomeInv
  BY DEF Init, OutcomeInv, UnsettledIsSilent, OwnerKnown, ObservedWasSent, TrueOutcome,
         NoExecution, NoAttempt, Provider
<1>2. OutcomeInv => OutcomeIsTrue
  BY DEF OutcomeInv, TrueOutcome, OutcomeIsTrue
<1>. QED  BY <1>1, <1>2, OutcomeStep, LedgerCorrect, PTL DEF Spec

-----------------------------------------------------------------------------
(* Episode fences *)

\* A provider terminal of execution e was recorded.
Observed(e) == \E a \in Attempt : attempts[a].execution = e /\ attempts[a].state \in Provider

\* Evidence, in terms of the attempt rows instead of the log.
LEMMA EvidenceIs ==
    LedgerInv => \A e \in Execution : Evidence(e) <=> executions[e].state \in Settled \/ Observed(e)
<1>. SUFFICES ASSUME LedgerInv, NEW e \in Execution
              PROVE  (\E a \in AttemptsOf(e) : attempts[a].state \in Provider) <=> Observed(e)
  BY DEF Evidence
<1>1. \A a \in AttemptsOf(e) : a \in Attempt /\ attempts[a].execution = e
  BY LedgerFacts
<1>2. \A a \in Attempt : attempts[a].state \in Provider => a \in AttemptsOf(attempts[a].execution)
  BY DEF LedgerInv, AttemptLedger, Provider
<1>. QED  BY <1>1, <1>2 DEF Observed

\* Evidence before and after a step.
LEMMA EvidenceNext ==
    LedgerInv /\ [Next]_vars =>
       \A e \in Execution : /\ Evidence(e) <=> executions[e].state \in Settled \/ Observed(e)
                            /\ Evidence(e)' <=> executions'[e].state \in Settled \/ Observed(e)'
<1>1. LedgerInv' => (\A e \in Execution : Evidence(e) <=> executions[e].state \in Settled \/ Observed(e))'
  BY EvidenceIs, PTL
<1>. QED  BY <1>1, EvidenceIs, LedgerStep

\* The inductive invariant of the fences: only a settled execution is projected.
ProjectedIsSettled == \A e \in projected : executions[e].state \in Settled
EpisodeInv == FenceKeepsEvidence /\ ProjectedIsSettled

\* What the fences say of one execution.
Fences(e) ==
    /\ executions[e].trajectory # None /\ Evidence(e) =>
          (e \in fences[executions[e].trajectory]) # (e \in projected)
    /\ \A ep \in Episode : e \in fences[ep] => executions[e].trajectory = ep /\ Evidence(e)

\* FenceKeepsEvidence speaks about every execution.
LEMMA FencesOfAll ==
    fences \in [Episode -> SUBSET Execution] =>
       (FenceKeepsEvidence <=> \A e \in Execution : Fences(e))
<1>. SUFFICES ASSUME fences \in [Episode -> SUBSET Execution]
              PROVE  FenceKeepsEvidence <=> \A e \in Execution : Fences(e)
  OBVIOUS
<1>1. \A ep \in Episode : \A e \in fences[ep] : e \in Execution
  OBVIOUS
<1>. QED  BY <1>1 DEF FenceKeepsEvidence, Fences

\* What a step's proof starts from, and what is left to show.
LEMMA EpisodeGoal ==
    ASSUME LedgerInv, EpisodeInv, [Next]_vars
    PROVE  /\ fences \in [Episode -> SUBSET Execution] /\ projected \subseteq Execution
           /\ executions \in [Execution -> ExecutionRow] /\ None \notin Episode
           /\ \A x \in Execution : Fences(x) /\ executions[x].trajectory \in Episode \cup {None}
           /\ \A x \in projected : executions[x].state \in Settled
           /\ \A x \in Execution : executions[x].state \in Settled => executions'[x] = executions[x]
           /\ (\A x \in Execution : Fences(x)') /\ ProjectedIsSettled' => EpisodeInv'
<1>1. /\ fences \in [Episode -> SUBSET Execution] /\ projected \subseteq Execution
      /\ executions \in [Execution -> ExecutionRow]
  BY DEF LedgerInv, TypeInv, TypeOK
<1>2. fences' \in [Episode -> SUBSET Execution]
  BY LedgerStep DEF LedgerInv, TypeInv, TypeOK
<1>3. (fences \in [Episode -> SUBSET Execution] =>
         (FenceKeepsEvidence <=> \A e \in Execution : Fences(e)))'
  BY FencesOfAll, PTL
<1>4. \A x \in Execution : executions[x].trajectory \in Episode \cup {None}
  BY <1>1 DEF ExecutionRow
<1>. QED
  BY <1>1, <1>2, <1>3, <1>4, FencesOfAll, FinalStep, EngineAssumption
     DEF EpisodeInv, ProjectedIsSettled, SettledKept

\* A step that adds no evidence and moves no fence.
LEMMA EpisodeKept ==
    ASSUME LedgerInv, EpisodeInv, [Next]_vars, UNCHANGED <<fences, projected>>,
           \A x \in Execution :
              \/ executions'[x].trajectory = executions[x].trajectory /\ (Evidence(x)' <=> Evidence(x))
              \/ ~ Evidence(x) /\ ~ Evidence(x)'
    PROVE  EpisodeInv'
<1>1. ASSUME NEW x \in Execution PROVE Fences(x)'
  <2>1. Fences(x)
    BY EpisodeGoal
  <2>. QED  BY <2>1 DEF Fences
<1>2. ProjectedIsSettled'
  BY EpisodeGoal DEF ProjectedIsSettled
<1>. QED  BY <1>1, <1>2, EpisodeGoal

\* An execution whose first or last evidence is recorded enters its fence.
LEMMA EpisodeEntered ==
    ASSUME LedgerInv, EpisodeInv, [Next]_vars, NEW e \in Execution,
           executions[e].state \notin Settled, InstallProjectionFence(e),
           projected' = projected, Evidence(e)',
           \A x \in Execution : executions'[x].trajectory = executions[x].trajectory,
           \A x \in Execution \ {e} : Evidence(x)' <=> Evidence(x)
    PROVE  EpisodeInv'
<1>. USE EpisodeGoal
<1>1. e \notin projected
  OBVIOUS
<1>2. \A ep \in Episode : fences'[ep] =
         IF executions[e].trajectory = ep THEN fences[ep] \cup {e} ELSE fences[ep]
  BY DEF InstallProjectionFence
<1>3. ASSUME NEW x \in Execution \ {e} PROVE Fences(x)'
  <2>1. Fences(x) /\ (Evidence(x)' <=> Evidence(x)) /\ executions'[x].trajectory = executions[x].trajectory
    OBVIOUS
  <2>2. \A ep \in Episode : x \in fences'[ep] <=> x \in fences[ep]
    BY <1>2
  <2>. QED  BY <2>1, <2>2 DEF Fences
<1>4. Fences(e)'
  <2>1. Fences(e) /\ executions'[e].trajectory = executions[e].trajectory
        /\ executions[e].trajectory \in Episode \cup {None} /\ e \notin projected'
    BY <1>1
  <2>2. executions[e].trajectory # None => e \in fences'[executions[e].trajectory]
    BY <1>2, <2>1
  <2>3. \A ep \in Episode : e \in fences'[ep] => executions[e].trajectory = ep
    BY <1>2, <2>1 DEF Fences
  <2>. QED  BY <2>1, <2>2, <2>3 DEF Fences
<1>5. ProjectedIsSettled'
  BY DEF ProjectedIsSettled
<1>. QED  BY <1>3, <1>4, <1>5

\* A guard projects what its episode has pending, then binds an execution that
\* has no evidence.
LEMMA EpisodeGuarded ==
    ASSUME LedgerInv, EventAgrees, EpisodeInv, [Next]_vars, NEW e \in Execution,
           NEW ep \in Episode, GuardedRoute(e, ep)
    PROVE  EpisodeInv'
<1>. USE EpisodeGoal
<1>1. /\ executions'[e].trajectory = ep /\ executions[e].trajectory = None
      /\ executions'[e].state = executions[e].state /\ executions[e].state \notin Settled
      /\ \A x \in Execution \ {e} : executions'[x] = executions[x]
      /\ UNCHANGED attempts
  BY DEF GuardedRoute, BindTrajectory, AuthorizedExecution, ExecutionRow, Open, Settled
<1>2. \A x \in Execution : Evidence(x)' <=> Evidence(x)
  BY <1>1, EvidenceNext DEF Observed
<1>3. ~ Evidence(e)
  <2>1. \A a \in AttemptsOf(e) : attempts[a].state \in {"prepared", "not_dispatched"}
    BY LedgerFacts DEF GuardedRoute, BindTrajectory
  <2>. QED  BY <1>1, <2>1 DEF Evidence, Provider
<1>4. /\ projected' = projected \cup fences[ep]
      /\ \A q \in Episode : fences'[q] = IF q = ep THEN {} ELSE fences[q]
      /\ \A x \in fences[ep] : events[x] # None
  BY DEF GuardedRoute, CatchUp
<1>5. \A x \in fences[ep] : x \in Execution /\ executions[x].state \in Settled
  BY <1>4 DEF EventAgrees
<1>6. Fences(e)'
  <2>1. \A q \in Episode : e \notin fences[q]
    BY <1>3 DEF Fences
  <2>. QED  BY <1>2, <1>3, <1>4, <2>1 DEF Fences
<1>7. ASSUME NEW x \in Execution \ {e} PROVE Fences(x)'
  <2>1. Fences(x) /\ (Evidence(x)' <=> Evidence(x)) /\ executions'[x].trajectory = executions[x].trajectory
        /\ executions[x].trajectory \in Episode \cup {None}
    BY <1>1, <1>2
  <2>. QED  BY <1>4, <2>1 DEF Fences
<1>8. ProjectedIsSettled'
  BY <1>4, <1>5 DEF ProjectedIsSettled
<1>. QED  BY <1>6, <1>7, <1>8

\* Delivery projects a settled execution and takes it out of its fence.
LEMMA EpisodeProjected ==
    ASSUME LedgerInv, EventAgrees, EpisodeInv, [Next]_vars, NEW e \in Execution, Project(e)
    PROVE  EpisodeInv'
<1>. USE EpisodeGoal
<1>1. UNCHANGED <<executions, attempts>> /\ projected' = projected \cup {e}
  BY DEF Project, ProjectIn, rows
<1>2. \A x \in Execution : Evidence(x)' <=> Evidence(x)
  BY <1>1, EvidenceNext DEF Observed
<1>3. executions[e].state \in Settled
  BY DEF Project, EventAgrees
<1>4. \A q \in Episode : fences'[q] = IF executions[e].trajectory = q THEN fences[q] \ {e} ELSE fences[q]
  BY DEF Project, ProjectIn
<1>5. ASSUME NEW x \in Execution PROVE Fences(x)'
  <2>1. Fences(x) /\ (Evidence(x)' <=> Evidence(x)) /\ executions'[x].trajectory = executions[x].trajectory
        /\ executions[x].trajectory \in Episode \cup {None}
    BY <1>1, <1>2
  <2>2. CASE x = e
    <3>1. x \in projected' /\ \A q \in Episode : x \notin fences'[q]
      BY <1>1, <1>4, <2>1, <2>2 DEF Fences
    <3>. QED  BY <2>1, <3>1 DEF Fences
  <2>3. CASE x # e
    <3>1. /\ x \in projected' <=> x \in projected
          /\ \A q \in Episode : x \in fences'[q] <=> x \in fences[q]
      BY <1>1, <1>4, <2>3
    <3>. QED  BY <2>1, <3>1 DEF Fences
  <2>. QED  BY <2>2, <2>3
<1>6. ProjectedIsSettled'
  BY <1>1, <1>3 DEF ProjectedIsSettled
<1>. QED  BY <1>5, <1>6

\* Every step keeps the fences.
LEMMA EpisodeStep == LedgerInv /\ EventAgrees /\ EpisodeInv /\ [Next]_vars => EpisodeInv'
<1>. SUFFICES ASSUME LedgerInv, EventAgrees, EpisodeInv, [Next]_vars PROVE EpisodeInv'
  OBVIOUS
<1>. USE DEF authority, counters, rows
<1>0. /\ executions \in [Execution -> ExecutionRow]
      /\ \A x \in Execution : executions[x].state \in Settled => executions'[x] = executions[x]
  BY EpisodeGoal
<1>1. ASSUME NEW o \in Owner, NEW e \in Execution, NEW p \in Principal,
             NEW k \in Key \cup {None}, Admit(o, e, p, k)
      PROVE  EpisodeInv'
  <2>1. /\ executions[e].state = "absent" /\ executions'[e].state = "accepted"
        /\ \A x \in Execution \ {e} : executions'[x] = executions[x]
        /\ UNCHANGED <<attempts, fences, projected>>
    BY <1>0, <1>1 DEF Admit
  <2>2. ~ Observed(e)
    <3>1. AttemptsOf(e) = {}
      BY <2>1 DEF LedgerInv, TypeInv, Admitted, AttemptsOf
    <3>. QED  BY <3>1 DEF Observed, LedgerInv, AttemptLedger, Provider
  <2>3. ~ Evidence(e) /\ ~ Evidence(e)'
    BY <2>1, <2>2, EvidenceNext DEF Observed, Settled
  <2>4. \A x \in Execution \ {e} : Evidence(x)' <=> Evidence(x)
    BY <2>1, EvidenceNext DEF Observed
  <2>. QED  BY <2>1, <2>3, <2>4, EpisodeKept
<1>2. ASSUME NEW t \in Tenant, NEW limits \in TenantLimits, PutTenant(t, limits) PROVE EpisodeInv'
  <2>1. UNCHANGED <<executions, attempts, fences, projected>>
    BY <1>2 DEF PutTenant
  <2>2. \A x \in Execution : Evidence(x)' <=> Evidence(x)
    BY <2>1, EvidenceNext DEF Observed
  <2>. QED  BY <2>1, <2>2, EpisodeKept
<1>3. ASSUME NEW e \in Execution, NEW a \in Attempt, NEW out \in Provider,
             RecordTerminal(e, a, out)
      PROVE  EpisodeInv'
  <2>1. /\ executions[e].state \notin Settled /\ executions'[e].state \notin Settled
        /\ \A x \in Execution \ {e} : executions'[x] = executions[x]
        /\ \A x \in Execution : executions'[x].trajectory = executions[x].trajectory
    BY <1>0, <1>3 DEF RecordTerminal, ConcludeAttempt, ExecutionRow, Settled
  <2>2. /\ attempts'[a].state = out /\ attempts[a].execution = e
        /\ \A b \in Attempt : /\ attempts'[b].execution = attempts[b].execution
                              /\ b # a => attempts'[b] = attempts[b]
    BY <1>3, ReplaceFacts, LedgerFacts DEF RecordTerminal, ConcludeAttempt
  <2>3. Evidence(e)'
    <3>1. attempts'[a].execution = e /\ attempts'[a].state \in Provider
      BY <2>2
    <3>2. Observed(e)'
      BY <3>1 DEF Observed
    <3>. QED  BY <3>2, EvidenceNext
  <2>4. ASSUME NEW x \in Execution \ {e} PROVE Evidence(x)' <=> Evidence(x)
    <3>1. Observed(x)' <=> Observed(x)
      BY <2>2 DEF Observed
    <3>. QED  BY <2>1, <3>1, EvidenceNext
  <2>5. projected' = projected /\ InstallProjectionFence(e)
    BY <1>3 DEF RecordTerminal, ConcludeAttempt
  <2>. QED  BY <2>1, <2>3, <2>4, <2>5, EpisodeEntered
<1>4. ASSUME NEW e \in Execution, NEW out, FinalizeLocked(e, out) PROVE EpisodeInv'
  <2>1. /\ executions[e].state \notin Settled /\ executions'[e].state \in Settled
        /\ \A x \in Execution \ {e} : executions'[x] = executions[x]
        /\ \A x \in Execution : executions'[x].trajectory = executions[x].trajectory
    BY <1>0, <1>4 DEF FinalizeLocked, ExecutionRow, Settled, Open
  <2>2. \A b \in Attempt : /\ attempts'[b].execution = attempts[b].execution
                           /\ attempts'[b].state \in Provider <=> attempts[b].state \in Provider
    <3>1. \A b \in Attempt : attempts[b] \in AttemptRow
      BY <1>4, LedgerFacts
    <3>2. \A b \in Attempt : attempts'[b] = IF b \in PreparedOf(e)
             THEN [attempts[b] EXCEPT !.state = "not_dispatched"] ELSE attempts[b]
      BY <1>4 DEF FinalizeLocked
    <3>3. \A b \in PreparedOf(e) : attempts[b].state = "prepared"
      BY <1>4 DEF FinalizeLocked
    <3>. QED  BY <3>1, <3>2, <3>3 DEF AttemptRow, Provider
  <2>3. \A x \in Execution \ {e} : Evidence(x)' <=> Evidence(x)
    BY <2>1, <2>2, EvidenceNext DEF Observed
  <2>4. Evidence(e)'
    BY <2>1, EvidenceNext
  <2>5. projected' = projected /\ InstallProjectionFence(e)
    BY <1>4 DEF FinalizeLocked
  <2>. QED  BY <2>1, <2>3, <2>4, <2>5, EpisodeEntered
<1>5. ASSUME NEW e \in Execution, NEW a \in Attempt, NEW out \in Resolution,
             ResolveAttempt(e, a, out)
      PROVE  EpisodeInv'
  <2>1. /\ executions[e].state \notin Settled /\ executions'[e].state \in Settled
        /\ \A x \in Execution \ {e} : executions'[x] = executions[x]
        /\ \A x \in Execution : executions'[x].trajectory = executions[x].trajectory
    BY <1>0, <1>5 DEF ResolveAttempt, ExecutionRow, Settled
  <2>2. \A b \in Attempt : /\ attempts'[b].execution = attempts[b].execution
                           /\ attempts'[b].state \in Provider <=> attempts[b].state \in Provider
    BY <1>5, ReplaceFacts DEF ResolveAttempt, Provider
  <2>3. \A x \in Execution \ {e} : Evidence(x)' <=> Evidence(x)
    BY <2>1, <2>2, EvidenceNext DEF Observed
  <2>4. Evidence(e)'
    BY <2>1, EvidenceNext
  <2>5. projected' = projected /\ InstallProjectionFence(e)
    BY <1>5 DEF ResolveAttempt
  <2>. QED  BY <2>1, <2>3, <2>4, <2>5, EpisodeEntered
<1>6. CASE Silent
  <2>1. \A x \in Execution : Observed(x)' <=> Observed(x)
    BY <1>6 DEF Silent, EvidenceStays, Observed
  <2>2. \A x \in Execution : Evidence(x)' <=> Evidence(x)
    BY <1>6, <2>1, EvidenceNext DEF Silent, RowsKept
  <2>. QED  BY <1>6, <2>2, EpisodeKept DEF Silent, RowsKept
<1>. QED
  BY <1>1, <1>2, <1>3, <1>4, <1>5, <1>6, EpisodeGuarded, EpisodeProjected, FrameStep

\* The invariant holds always.
LEMMA EpisodeCorrect == Spec => [](LedgerInv /\ EventAgrees /\ EpisodeInv)
<1>1. Init => EpisodeInv
  BY DEF Init, EpisodeInv, FenceKeepsEvidence, ProjectedIsSettled, NoExecution
<1>. QED  BY <1>1, EpisodeStep, EventAgreesHolds, LedgerCorrect, PTL DEF Spec

\* Evidence of a bound execution is behind its episode's fence or projected,
\* never both and never neither (finalization.rs, install_projection_fence;
\* projection/coordinator.rs, project_in): delivery always finds the fence it must leave.
THEOREM FenceKeepsEvidenceHolds == Spec => []FenceKeepsEvidence
<1>1. EpisodeInv => FenceKeepsEvidence
  BY DEF EpisodeInv
<1>. QED  BY <1>1, EpisodeCorrect, PTL

\* Only a guard binds an execution, and it has projected the episode's evidence.
LEMMA GuardStep ==
    ASSUME LedgerInv, EpisodeInv, [Next]_vars, NEW e \in Execution,
           executions[e].trajectory = None, executions'[e].trajectory # None,
           NEW x \in Execution \ {e},
           executions[x].trajectory = executions'[e].trajectory, Evidence(x)
    PROVE  x \in projected'
<1>. USE EpisodeGoal
<1>1. \E f \in Execution, ep \in Episode : GuardedRoute(f, ep)
  <2>. USE DEF authority, counters, rows
  <2>1. ASSUME NEW o \in Owner, NEW f \in Execution, NEW p \in Principal,
               NEW k \in Key \cup {None}, Admit(o, f, p, k)
        PROVE  FALSE
    BY <2>1 DEF Admit
  <2>2. ASSUME NEW t \in Tenant, NEW limits \in TenantLimits, PutTenant(t, limits) PROVE FALSE
    BY <2>2 DEF PutTenant
  <2>3. ASSUME NEW f \in Execution, NEW a \in Attempt, NEW out \in Provider,
               RecordTerminal(f, a, out)
        PROVE  FALSE
    BY <2>3 DEF RecordTerminal, ConcludeAttempt, ExecutionRow
  <2>4. ASSUME NEW f \in Execution, NEW out, FinalizeLocked(f, out) PROVE FALSE
    BY <2>4 DEF FinalizeLocked, ExecutionRow
  <2>5. ASSUME NEW f \in Execution, NEW a \in Attempt, NEW out \in Resolution,
               ResolveAttempt(f, a, out)
        PROVE  FALSE
    BY <2>5 DEF ResolveAttempt, ExecutionRow
  <2>6. ASSUME NEW f \in Execution, Project(f) PROVE FALSE
    BY <2>6 DEF Project
  <2>7. ~ Silent
    BY DEF Silent, RowsKept
  <2>. QED  BY <2>1, <2>2, <2>3, <2>4, <2>5, <2>6, <2>7, FrameStep
<1>2. PICK f \in Execution, ep \in Episode : GuardedRoute(f, ep)
  BY <1>1
<1>3. f = e /\ executions'[e].trajectory = ep
  BY <1>2 DEF GuardedRoute, BindTrajectory, ExecutionRow
<1>4. projected' = projected \cup fences[ep]
  BY <1>2 DEF GuardedRoute, CatchUp
<1>5. Fences(x) /\ executions[x].trajectory = ep
  BY <1>3
<1>. QED  BY <1>4, <1>5 DEF Fences

\* A guard decides with the evidence of every execution bound to its episode
\* projected (guard.rs, guarded_route; projection/coordinator.rs, catch_up_in).
THEOREM GuardSeesEvidenceHolds == Spec => GuardSeesEvidence
<1>1. LedgerInv /\ EventAgrees /\ EpisodeInv /\ [Next]_vars =>
        \A e \in Execution :
          executions[e].trajectory = None /\ executions'[e].trajectory # None =>
             \A x \in Execution \ {e} :
                executions[x].trajectory = executions'[e].trajectory /\ Evidence(x)
                   => x \in projected'
  BY GuardStep
<1>. QED  BY <1>1, EpisodeCorrect, PTL DEF Spec, GuardSeesEvidence
=============================================================================
