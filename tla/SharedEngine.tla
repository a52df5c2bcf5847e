---------------------------- MODULE SharedEngine ----------------------------
(***************************************************************************)
(* The execution engine of BitRouter's shared gateway: the PostgreSQL      *)
(* records of apps/bitrouter/src/gateway/shared/engine and the             *)
(* transactions that change them.  Every action is one committed           *)
(* transaction; the row locks each of them takes before it reads make it   *)
(* atomic with respect to the others.  A rejected transaction is rolled    *)
(* back and changes nothing, so it is a stuttering step.                   *)
(*                                                                         *)
(* Many processes ("incarnations") share the records.  A process may stop  *)
(* at any point, which is the absence of its further steps, and the reply  *)
(* to a committed transaction may be lost.                                 *)
(*                                                                         *)
(* Definitions named Wrong... are deliberately wrong variants of the       *)
(* definition that follows them.  Nothing uses them: they are substituted  *)
(* one at a time to see that the properties below can fail.                *)
(***************************************************************************)
EXTENDS Integers, FiniteSets, Sequences

CONSTANTS
    Owner,            \* incarnation identities, one random uuid per join
    Principal,        \* API keys
    Tenant,
    TenantOf,         \* the tenant (user_id) of each API key
    Pool,             \* provider resource pools
    Execution,        \* execution identities
    Attempt,          \* provider attempt identities
    Key,              \* idempotency keys
    Episode,          \* trajectory episodes
    EpisodeOf,        \* the tenant an episode belongs to
    None,             \* an absent optional value
    TenantLimits,     \* the limits an operator may install for a tenant
    ResourceLimits,   \* the concurrency limits of a pool
    Authorization,    \* the contents an API key row may have
    LeaseTicks,       \* lease_ms in clock ticks
    MinuteTicks,      \* 60_000 ms in clock ticks
    DeferTicks,       \* recovery deferral (1_000 ms) in clock ticks
    MaxAttempts,      \* MAX_ATTEMPTS
    MaxPending,       \* 256, the backlog bound of an episode fence
    CatchUpBudget,    \* 8, the catch-up bound of a guard
    MaxTime,          \* bound: the last tick of the database clock
    MaxPolicy,        \* bound: the highest tenant or resource policy revision
    MaxGeneration,    \* bound: the highest configuration generation
    MaxCredential     \* bound: the highest credential version of a pool

ASSUME EngineAssumption ==
    /\ TenantOf \in [Principal -> Tenant]
    /\ EpisodeOf \in [Episode -> Tenant]
    /\ IsFiniteSet(Execution) /\ IsFiniteSet(Attempt)
    /\ None \notin Owner \cup Principal \cup Pool \cup Execution
                   \cup Key \cup Episode \cup Nat
    /\ TenantLimits \subseteq
         [concurrent_executions : Nat, requests_per_minute : Nat,
          resource_pools : SUBSET Pool]
    /\ ResourceLimits \subseteq Nat
    /\ Authorization \subseteq
         [active : BOOLEAN, expires : Nat, rpm : Nat \cup {None}]
    /\ LeaseTicks \in Nat \ {0}
    /\ MinuteTicks \in Nat \ {0}
    /\ DeferTicks \in Nat /\ MaxAttempts \in Nat /\ MaxPending \in Nat
    /\ CatchUpBudget \in Nat /\ MaxTime \in Nat /\ MaxPolicy \in Nat
    /\ MaxGeneration \in Nat /\ MaxCredential \in Nat

VARIABLES
    now,          \* the database clock, in ticks
    head,         \* config_generation of the authority head
    principals,   \* api_keys rows
    instances,    \* Kind::Instance rows
    tenants,      \* Kind::Tenant rows
    buckets,      \* Kind::Principal rows (RateBucket)
    resources,    \* Kind::Resource rows
    credentials,  \* the stamp version of each pool's credential, 0 before import
    executions,   \* Kind::Execution rows
    attempts,     \* Kind::Attempt rows
    views,        \* the copy of each attempt inside its execution's view
    idempotency,  \* Kind::Idempotency rows
    events,       \* Kind::Outbox rows: the terminal event of an execution
    fences,       \* Kind::EpisodeFence rows: the pending set of an episode
    projected,    \* Kind::ProjectionReceipt rows that exist
    permits       \* history: how often dispatch returned success for an attempt

authority == <<head, principals, credentials>>
counters  == <<tenants, buckets, resources>>
rows      == <<executions, attempts, views, idempotency, events>>
vars == <<now, authority, instances, counters, rows, fences, projected, permits>>

-----------------------------------------------------------------------------
(* Types *)

Provider     == {"succeeded", "failed"}          \* provider TerminalOutcome
Holding      == {"prepared", "dispatched", "unknown"}
AttemptState == {"absent", "not_dispatched", "resolved"} \cup Holding \cup Provider

Open           == {"accepted", "running"}
Settled        == {"terminal", "resolved"}
ExecutionState == {"absent", "unknown"} \cup Open \cup Settled
Resolution     == {"not_accepted", "terminated"} \* operator ResolutionOutcome
ResultOf       == {"none", "owner_lost"} \cup Provider \cup Resolution

NoDue == -1

ExecutionRow ==
    [state : ExecutionState, outcome : ResultOf,
     principal : Principal \cup {None}, owner : Owner \cup {None},
     authorization : Authorization \cup {None},
     tenant_revision : Nat, generation : Nat,
     trajectory : Episode \cup {None}, minute : Nat, due : Nat \cup {NoDue},
     attempts : Seq(Attempt), key : Key \cup {None}]

AttemptRow ==
    [state : AttemptState, execution : Execution \cup {None},
     pool : Pool \cup {None}, resource_revision : Nat, credential : Nat]

TenantRow ==
    [limits : TenantLimits \cup {None}, policy_revision : Nat, active : Nat,
     minute : Nat, accepted : Nat]

Event == [state : Settled, outcome : ResultOf, attempts : Seq(AttemptState)]

TypeOK ==
    /\ now \in 0..MaxTime
    /\ head \in Nat
    /\ principals \in [Principal -> Authorization]
    /\ instances \in [Owner -> [status : {"absent", "live", "draining"}, expires : Nat]]
    /\ tenants \in [Tenant -> TenantRow]
    /\ buckets \in [Principal -> [minute : Nat, accepted : Nat]]
    /\ resources \in [Pool -> [concurrent_attempts : Nat, policy_revision : Nat, active : Nat]]
    /\ credentials \in [Pool -> Nat]
    /\ executions \in [Execution -> ExecutionRow]
    /\ attempts \in [Attempt -> AttemptRow]
    /\ views \in [Attempt -> AttemptState]
    /\ idempotency \in [Tenant -> [Key -> Execution \cup {None}]]
    /\ events \in [Execution -> Event \cup {None}]
    /\ fences \in [Episode -> SUBSET Execution]
    /\ projected \subseteq Execution
    /\ permits \in [Attempt -> Nat]

-----------------------------------------------------------------------------
(* Initial state: a bootstrapped namespace without any engine record. *)

NoExecution ==
    [state |-> "absent", outcome |-> "none", principal |-> None, owner |-> None,
     authorization |-> None, tenant_revision |-> 0, generation |-> 0,
     trajectory |-> None, minute |-> 0, due |-> NoDue, attempts |-> <<>>,
     key |-> None]

NoAttempt ==
    [state |-> "absent", execution |-> None, pool |-> None,
     resource_revision |-> 0, credential |-> 0]

NoTenant ==
    [limits |-> None, policy_revision |-> 0, active |-> 0, minute |-> 0, accepted |-> 0]

NoResource == [concurrent_attempts |-> 0, policy_revision |-> 0, active |-> 0]

Init ==
    /\ now = 0
    /\ head = 0
    /\ principals \in [Principal -> {a \in Authorization : a.active}]
    /\ instances = [o \in Owner |-> [status |-> "absent", expires |-> 0]]
    /\ tenants = [t \in Tenant |-> NoTenant]
    /\ buckets = [p \in Principal |-> [minute |-> 0, accepted |-> 0]]
    /\ resources = [p \in Pool |-> NoResource]
    /\ credentials = [p \in Pool |-> 0]
    /\ executions = [e \in Execution |-> NoExecution]
    /\ attempts = [a \in Attempt |-> NoAttempt]
    /\ views = [a \in Attempt |-> "absent"]
    /\ idempotency = [t \in Tenant |-> [k \in Key |-> None]]
    /\ events = [e \in Execution |-> None]
    /\ fences = [ep \in Episode |-> {}]
    /\ projected = {}
    /\ permits = [a \in Attempt |-> 0]

-----------------------------------------------------------------------------
(* Helpers *)

\* The accounting minute of a clock reading.
MinuteOf(t) == t \div MinuteTicks

\* The tenant an execution is charged to.
TenantOfExecution(e) == TenantOf[executions[e].principal]

\* The attempts of an execution.
AttemptsOf(e) == {executions[e].attempts[i] : i \in DOMAIN executions[e].attempts}

\* Wrong: any earlier success counts.
WrongLatestTerminal(e, outcome) ==
    \E a \in AttemptsOf(e) : views[a] = outcome

\* The outcome of the latest attempt with a provider terminal, if there is one.
LatestTerminal(e, outcome) ==
    LET log == executions[e].attempts
    IN  \E i \in DOMAIN log :
            /\ views[log[i]] = outcome
            /\ \A j \in DOMAIN log : j > i => views[log[j]] \notin Provider

NoTerminal(e) == \A a \in AttemptsOf(e) : views[a] \notin Provider

\* live_owner(tx, false): the lease of the calling incarnation is unexpired.
LiveOwner(o) == instances[o].status # "absent" /\ instances[o].expires > now

\* live_owner(tx, true): and it still accepts new executions.
AcceptingOwner(o) == LiveOwner(o) /\ instances[o].status = "live"

\* authenticate: the key is active and has not expired.
Authenticate(p) == principals[p].active /\ principals[p].expires > now

\* Wrong: a replaced tenant policy is not noticed.
WrongSamePolicy(e) == TRUE

\* The tenant policy is the one the execution was admitted under.
SamePolicy(e) ==
    executions[e].tenant_revision = tenants[TenantOfExecution(e)].policy_revision

\* authorized_execution: the admission's snapshot still is the authority, and
\* the execution still allows provider work.  The caller is the owner.
AuthorizedExecution(e) ==
    /\ executions[e].state \in Open
    /\ Authenticate(executions[e].principal)
    /\ executions[e].authorization = principals[executions[e].principal]
    /\ SamePolicy(e)
    /\ executions[e].generation = head

-----------------------------------------------------------------------------
(* Clock and incarnations *)

Tick ==
    /\ now < MaxTime
    /\ now' = now + 1
    /\ UNCHANGED <<authority, instances, counters, rows, fences, projected, permits>>

\* deadline: the end of a lease granted now.
Deadline == now + LeaseTicks

\* Every lease ends within the modelled time: an incarnation joins or renews
\* only while its new deadline is at most MaxTime.
Join(o) ==
    /\ instances[o].status = "absent"
    /\ Deadline <= MaxTime
    /\ instances' = [instances EXCEPT ![o] = [status |-> "live", expires |-> Deadline]]
    /\ UNCHANGED <<now, authority, counters, rows, fences, projected, permits>>

Heartbeat(o) ==
    /\ LiveOwner(o)
    /\ Deadline <= MaxTime
    /\ instances' = [instances EXCEPT ![o].expires = Deadline]
    /\ UNCHANGED <<now, authority, counters, rows, fences, projected, permits>>

Drain(o) ==
    /\ instances[o].status # "absent"
    /\ instances' = [instances EXCEPT ![o].status = "draining"]
    /\ UNCHANGED <<now, authority, counters, rows, fences, projected, permits>>

-----------------------------------------------------------------------------
(* Authority and policy changes by operators *)

\* A configuration publication advances the authority head.
PublishGeneration ==
    /\ head < MaxGeneration
    /\ head' = head + 1
    /\ UNCHANGED <<now, principals, credentials, instances, counters, rows,
                   fences, projected, permits>>

\* An API key row is edited or revoked; its revision is a digest of its
\* contents, so that restoring the contents restores the revision.
SetPrincipal(p, authorization) ==
    /\ principals' = [principals EXCEPT ![p] = authorization]
    /\ UNCHANGED <<now, head, credentials, instances, counters, rows, fences,
                   projected, permits>>

\* Credential import, or the commit of a refresh: the pool's credential is
\* created at version 1 or replaced under the next version.
ImportCredential(pool) ==
    /\ resources[pool].policy_revision > 0
    /\ credentials[pool] < MaxCredential
    /\ credentials' = [credentials EXCEPT ![pool] = @ + 1]
    /\ UNCHANGED <<now, head, principals, instances, counters, rows, fences,
                   projected, permits>>

\* put_tenant: create at revision 1, or replace the limits under the next
\* revision.  Occupancy and rate counters survive.
PutTenant(t, limits) ==
    /\ tenants[t].policy_revision < MaxPolicy
    /\ tenants' = [tenants EXCEPT ![t] =
         IF tenants[t].policy_revision = 0
         THEN [limits |-> limits, policy_revision |-> 1, active |-> 0,
               minute |-> MinuteOf(now), accepted |-> 0]
         ELSE [tenants[t] EXCEPT !.limits = limits,
                                 !.policy_revision = tenants[t].policy_revision + 1]]
    /\ UNCHANGED <<now, authority, instances, buckets, resources, rows, fences,
                   projected, permits>>

\* put_resource: the reservations survive.
PutResource(pool, limit) ==
    /\ resources[pool].policy_revision < MaxPolicy
    /\ resources' = [resources EXCEPT
         ![pool].concurrent_attempts = limit,
         ![pool].policy_revision = resources[pool].policy_revision + 1]
    /\ UNCHANGED <<now, authority, instances, tenants, buckets, rows, fences,
                   projected, permits>>

-----------------------------------------------------------------------------
(* Admission *)

\* Wrong: the count of an earlier minute is carried over.
WrongSpent(bucket) == bucket.accepted

\* Rate units a bucket has spent in the current minute: rollover discards the
\* count of an earlier minute.
Spent(bucket) == IF bucket.minute = MinuteOf(now) THEN bucket.accepted ELSE 0

\* The principal's own rate bucket, charged only when its key has a limit.
ChargePrincipal(p) ==
    IF principals[p].rpm = None
    THEN UNCHANGED buckets
    ELSE /\ Spent(buckets[p]) < principals[p].rpm
         /\ buckets' = [buckets EXCEPT ![p] =
              [minute |-> MinuteOf(now), accepted |-> Spent(buckets[p]) + 1]]

\* Wrong: the key is bound again without looking for the execution it names.
WrongKeyIsFree(t, k) == TRUE

\* No execution is bound to the tenant's idempotency key.
KeyIsFree(t, k) == k # None => idempotency[t][k] = None

\* admit_with_id, the branch that creates an execution.  The identity e was
\* chosen by the caller before the call.  A request whose key is bound already
\* is answered from the existing execution and changes nothing.
Admit(o, e, p, k) ==
    LET t == TenantOf[p] IN
    /\ executions[e].state = "absent"
    /\ Authenticate(p)
    /\ tenants[t].policy_revision > 0
    /\ KeyIsFree(t, k)
    /\ AcceptingOwner(o)
    /\ tenants[t].active < tenants[t].limits.concurrent_executions
    /\ Spent(tenants[t]) < tenants[t].limits.requests_per_minute
    /\ ChargePrincipal(p)
    /\ tenants' = [tenants EXCEPT ![t].active = tenants[t].active + 1,
                                  ![t].minute = MinuteOf(now),
                                  ![t].accepted = Spent(tenants[t]) + 1]
    /\ executions' = [executions EXCEPT ![e] =
         [state |-> "accepted", outcome |-> "none", principal |-> p, owner |-> o,
          authorization |-> principals[p],
          tenant_revision |-> tenants[t].policy_revision, generation |-> head,
          trajectory |-> None, minute |-> MinuteOf(now),
          due |-> instances[o].expires, attempts |-> <<>>, key |-> k]]
    /\ idempotency' = IF k = None THEN idempotency
                      ELSE [idempotency EXCEPT ![t][k] = e]
    /\ UNCHANGED <<now, authority, instances, resources, attempts, views, events,
                   fences, projected, permits>>

-----------------------------------------------------------------------------
(* Provider attempts *)

\* Save the attempt row and replace_attempt in its execution's view.
ReplaceAttempt(a, state) ==
    /\ attempts' = [attempts EXCEPT ![a].state = state]
    /\ views' = [views EXCEPT ![a] = state]

\* Wrong: the slot is not returned.
WrongReleaseResource(pool) == UNCHANGED resources

\* An attempt's slot returns to its pool.
ReleaseResource(pool) ==
    /\ resources[pool].active > 0
    /\ resources' = [resources EXCEPT ![pool].active = resources[pool].active - 1]

\* prepare_observed_attempt: reserve a slot of the pool for a new attempt.
PrepareAttempt(e, a, pool) ==
    /\ AuthorizedExecution(e)
    /\ attempts[a].state = "absent"
    /\ pool \in tenants[TenantOfExecution(e)].limits.resource_pools
    /\ Len(executions[e].attempts) < MaxAttempts
    /\ \A b \in AttemptsOf(e) : views[b] \in Provider \cup {"not_dispatched"}
    /\ resources[pool].policy_revision > 0
    /\ credentials[pool] > 0
    /\ resources[pool].active < resources[pool].concurrent_attempts
    /\ LiveOwner(executions[e].owner)
    /\ resources' = [resources EXCEPT ![pool].active = resources[pool].active + 1]
    /\ attempts' = [attempts EXCEPT ![a] =
         [state |-> "prepared", execution |-> e, pool |-> pool,
          resource_revision |-> resources[pool].policy_revision,
          credential |-> credentials[pool]]]
    /\ views' = [views EXCEPT ![a] = "prepared"]
    /\ executions' = [executions EXCEPT
         ![e].attempts = Append(executions[e].attempts, a),
         ![e].state = "running",
         ![e].due = instances[executions[e].owner].expires]
    /\ UNCHANGED <<now, authority, instances, tenants, buckets, idempotency, events,
                   fences, projected, permits>>

\* Wrong: a repeated call after a lost reply is granted again.
WrongIntentIsUnused(a) == attempts[a].state \in {"prepared", "dispatched"}

\* The reservation has not been consumed by an earlier dispatch.
IntentIsUnused(a) == attempts[a].state = "prepared"

\* dispatch: consume the reservation.  A delivered reply authorises one send;
\* the reply to the committed transaction may also be lost.
Dispatch(e, a) ==
    /\ AuthorizedExecution(e)
    /\ a \in AttemptsOf(e)
    /\ attempts[a].credential = credentials[attempts[a].pool]
    /\ attempts[a].resource_revision = resources[attempts[a].pool].policy_revision
    /\ IntentIsUnused(a)
    /\ LiveOwner(executions[e].owner)
    /\ ReplaceAttempt(a, "dispatched")
    /\ executions' = [executions EXCEPT
         ![e].due = instances[executions[e].owner].expires]
    /\ permits' \in {permits, [permits EXCEPT ![a] = permits[a] + 1]}
    /\ UNCHANGED <<now, authority, instances, counters, idempotency, events,
                   fences, projected>>

\* Wrong: a full backlog is skipped instead of rejecting the caller.
WrongInstallProjectionFence(e) ==
    LET ep == executions[e].trajectory IN
    IF ep = None \/ Cardinality(fences[ep]) >= MaxPending
    THEN UNCHANGED fences
    ELSE fences' = [fences EXCEPT ![ep] = fences[ep] \cup {e}]

\* install_projection_fence: an execution bound to an episode enters the
\* pending set, unless it is there already; a full backlog rejects the caller.
InstallProjectionFence(e) ==
    LET ep == executions[e].trajectory IN
    IF ep = None
    THEN UNCHANGED fences
    ELSE /\ e \in fences[ep] \/ Cardinality(fences[ep]) < MaxPending
         /\ fences' = [fences EXCEPT ![ep] = fences[ep] \cup {e}]

\* Wrong: the concluded execution loses its place in the recovery scan.
WrongConcludedDue == NoDue

\* A concluded execution is due at once: its owner may be gone.
ConcludedDue == now

\* conclude_attempt: store the attempt's conclusion, return its slot and leave
\* the execution running.  Neither lease nor authority is consulted.
ConcludeAttempt(e, a, conclusion) ==
    /\ a \in AttemptsOf(e)
    /\ executions[e].state \in {"running", "unknown"}
    /\ ReplaceAttempt(a, conclusion)
    /\ ReleaseResource(attempts[a].pool)
    /\ executions' = [executions EXCEPT ![e].state = "running", ![e].due = ConcludedDue]
    /\ UNCHANGED <<now, authority, instances, tenants, buckets, idempotency, events,
                   projected, permits>>

\* record_observed_terminal: the owner saw the provider's terminal, possibly
\* after its lease expired.  Only a send it was granted can produce one.
RecordTerminal(e, a, outcome) ==
    /\ attempts[a].state \in {"dispatched", "unknown"}
    /\ permits[a] > 0
    /\ InstallProjectionFence(e)
    /\ ConcludeAttempt(e, a, outcome)

\* abandon_prepared: only a reservation proves that no send was authorised.
AbandonPrepared(e, a) ==
    /\ attempts[a].state = "prepared"
    /\ UNCHANGED fences
    /\ ConcludeAttempt(e, a, "not_dispatched")

\* mark_unknown: the sending future ended without evidence.
MarkUnknown(e, a) ==
    /\ a \in AttemptsOf(e)
    /\ attempts[a].state = "dispatched"
    /\ ReplaceAttempt(a, "unknown")
    /\ executions' = [executions EXCEPT ![e].state = "unknown", ![e].due = NoDue]
    /\ UNCHANGED <<now, authority, instances, counters, idempotency, events,
                   fences, projected, permits>>

-----------------------------------------------------------------------------
(* Settlement *)

\* The view of an execution as its terminal event carries it.
Snapshot(state, outcome, log, copies) ==
    [state |-> state, outcome |-> outcome,
     attempts |-> [i \in DOMAIN log |-> copies[log[i]]]]

\* Wrong: the event is taken before the unsent reservations are given back.
WrongPublishTerminalEvent(e, state, outcome) ==
    /\ events[e] = None
    /\ events' = [events EXCEPT ![e] =
         Snapshot(state, outcome, executions[e].attempts, views)]

\* publish_terminal_event: the event row must not exist yet.
PublishTerminalEvent(e, state, outcome) ==
    /\ events[e] = None
    /\ events' = [events EXCEPT ![e] =
         Snapshot(state, outcome, executions[e].attempts, views')]

\* Wrong: the slot is not returned.
WrongReleaseTenant(t) == UNCHANGED tenants

\* The tenant's concurrency slot returns with the settlement.
ReleaseTenant(t) ==
    /\ tenants[t].active > 0
    /\ tenants' = [tenants EXCEPT ![t].active = tenants[t].active - 1]

\* Wrong: finalization forgets the unsent reservations.
WrongPreparedOf(e) == {}

\* The reservations finalization still has to give back.
PreparedOf(e) == {a \in AttemptsOf(e) : views[a] = "prepared"}

\* finalize_locked: give back unsent reservations, fence the episode, settle
\* the execution, release its tenant slot and publish the event.
FinalizeLocked(e, outcome) ==
    /\ executions[e].state \in Open
    /\ \A a \in AttemptsOf(e) :
          views[a] \in Provider \cup {"prepared", "not_dispatched"}
    /\ outcome = "succeeded" => LatestTerminal(e, "succeeded")
    /\ \A a \in PreparedOf(e) : attempts[a].state = "prepared"
    /\ \A p \in Pool :
          Cardinality({a \in PreparedOf(e) : attempts[a].pool = p})
             <= resources[p].active
    /\ attempts' = [a \in Attempt |->
         IF a \in PreparedOf(e) THEN [attempts[a] EXCEPT !.state = "not_dispatched"]
                                ELSE attempts[a]]
    /\ views' = [a \in Attempt |->
         IF a \in PreparedOf(e) THEN "not_dispatched" ELSE views[a]]
    /\ resources' = [p \in Pool |-> [resources[p] EXCEPT !.active =
         resources[p].active
           - Cardinality({a \in PreparedOf(e) : attempts[a].pool = p})]]
    /\ InstallProjectionFence(e)
    /\ executions' = [executions EXCEPT
         ![e].state = "terminal", ![e].outcome = outcome, ![e].due = NoDue]
    /\ ReleaseTenant(TenantOfExecution(e))
    /\ PublishTerminalEvent(e, "terminal", outcome)
    /\ UNCHANGED <<now, authority, instances, buckets, idempotency, projected, permits>>

\* finish_with_inputs: the owner settles its execution.
Finish(e, outcome) == FinalizeLocked(e, outcome)

\* reconcile_one: any process visits an open execution that a scan returned
\* earlier.  A live owner only has its visit postponed to the lease's end.
Postpone(e) ==
    /\ executions[e].state \in Open
    /\ instances[executions[e].owner].expires > now
    /\ executions' = [executions EXCEPT ![e].due = instances[executions[e].owner].expires]
    /\ UNCHANGED <<now, authority, instances, counters, attempts, views, idempotency,
                   events, fences, projected, permits>>

\* The attempts whose provider work may still be going on.
InFlight(e) == {a \in AttemptsOf(e) : views[a] \in {"dispatched", "unknown"}}

\* An expired owner's dispatched work becomes unknown, never not_dispatched.
LoseOwner(e) ==
    /\ InFlight(e) # {}
    /\ \A a \in InFlight(e) : attempts[a].state \in {"dispatched", "unknown"}
    /\ attempts' = [a \in Attempt |->
         IF a \in InFlight(e) THEN [attempts[a] EXCEPT !.state = "unknown"]
                              ELSE attempts[a]]
    /\ views' = [a \in Attempt |-> IF a \in InFlight(e) THEN "unknown" ELSE views[a]]
    /\ executions' = [executions EXCEPT ![e].state = "unknown", ![e].due = NoDue]
    /\ UNCHANGED <<now, authority, instances, counters, idempotency, events,
                   fences, projected, permits>>

\* Without such work the execution is finalized with its latest terminal.
FinalizeOrphan(e) ==
    /\ InFlight(e) = {}
    /\ \/ \E outcome \in Provider : LatestTerminal(e, outcome) /\ FinalizeLocked(e, outcome)
       \/ NoTerminal(e) /\ FinalizeLocked(e, "owner_lost")

Recover(e) ==
    /\ executions[e].state \in Open
    /\ ~ LiveOwner(executions[e].owner)
    /\ LoseOwner(e) \/ FinalizeOrphan(e)

\* due_states: what a recovery scan returns among the open executions.
Due(e) == executions[e].due # NoDue /\ executions[e].due <= now

\* Wrong: the deferral also rewrites a settled execution.
WrongDeferRecovery(e) ==
    /\ executions[e].state # "absent"
    /\ now + DeferTicks <= MaxTime
    /\ executions' = [executions EXCEPT ![e].due = now + DeferTicks]
    /\ UNCHANGED <<now, authority, instances, counters, attempts, views, idempotency,
                   events, fences, projected, permits>>

\* defer_recovery: a visit that failed for any reason is retried later.
DeferRecovery(e) ==
    /\ executions[e].state \in Open
    /\ now + DeferTicks <= MaxTime
    /\ executions' = [executions EXCEPT ![e].due = now + DeferTicks]
    /\ UNCHANGED <<now, authority, instances, counters, attempts, views, idempotency,
                   events, fences, projected, permits>>

\* resolve_in: an operator closes an unknown execution by external evidence.
ResolveAttempt(e, a, outcome) ==
    /\ executions[e].state = "unknown"
    /\ a \in AttemptsOf(e) /\ views[a] = "unknown"
    /\ \A b \in AttemptsOf(e) \ {a} : views[b] \in Provider \cup {"not_dispatched"}
    /\ attempts[a].state = "unknown"
    /\ ReplaceAttempt(a, "resolved")
    /\ ReleaseResource(attempts[a].pool)
    /\ InstallProjectionFence(e)
    /\ executions' = [executions EXCEPT
         ![e].state = "resolved", ![e].outcome = outcome, ![e].due = NoDue]
    /\ ReleaseTenant(TenantOfExecution(e))
    /\ PublishTerminalEvent(e, "resolved", outcome)
    /\ UNCHANGED <<now, authority, instances, buckets, idempotency, projected, permits>>

-----------------------------------------------------------------------------
(* Episode fences *)

\* Wrong: pending members without a terminal event are passed over.
WrongCatchUp(ep) ==
    /\ projected' = projected \cup {x \in fences[ep] : events[x] # None}
    /\ fences' = [fences EXCEPT ![ep] = {x \in fences[ep] : events[x] = None}]

\* catch_up_in: project everything the episode has pending.  One member without
\* a terminal event, or more members than the budget, rejects the caller.
CatchUp(ep) ==
    /\ Cardinality(fences[ep]) <= CatchUpBudget
    /\ \A x \in fences[ep] : events[x] # None
    /\ projected' = projected \cup fences[ep]
    /\ fences' = [fences EXCEPT ![ep] = {}]

\* bind_trajectory: the binding precedes every dispatch.
BindTrajectory(e, ep) ==
    /\ EpisodeOf[ep] = TenantOfExecution(e)
    /\ \A a \in AttemptsOf(e) : views[a] \in {"prepared", "not_dispatched"}
    /\ LiveOwner(executions[e].owner)
    /\ executions' = [executions EXCEPT
         ![e].trajectory = ep, ![e].due = instances[executions[e].owner].expires]

\* guarded_route for an execution without a binding: catch up with the episode,
\* then bind.  A repeated call finds its binding and changes nothing.
GuardedRoute(e, ep) ==
    /\ AuthorizedExecution(e)
    /\ executions[e].trajectory = None
    /\ CatchUp(ep)
    /\ BindTrajectory(e, ep)
    /\ UNCHANGED <<now, authority, instances, counters, attempts, views, idempotency,
                   events, permits>>

\* project_in: create the receipt and leave the fence.  Only an event that is
\* projected already may find its fence without it.
ProjectIn(e) ==
    LET ep == executions[e].trajectory IN
    /\ IF ep = None
       THEN UNCHANGED fences
       ELSE /\ e \in fences[ep] \/ e \in projected
            /\ fences' = [fences EXCEPT ![ep] = fences[ep] \ {e}]
    /\ projected' = projected \cup {e}

\* deliver, first transaction, for a terminal event.
Project(e) ==
    /\ events[e] # None
    /\ ProjectIn(e)
    /\ UNCHANGED <<now, authority, instances, counters, rows, permits>>

-----------------------------------------------------------------------------
Next ==
    \/ Tick
    \/ PublishGeneration
    \/ \E o \in Owner : Join(o) \/ Heartbeat(o) \/ Drain(o)
    \/ \E p \in Principal : \E auth \in Authorization : SetPrincipal(p, auth)
    \/ \E t \in Tenant : \E limits \in TenantLimits : PutTenant(t, limits)
    \/ \E p \in Pool : ImportCredential(p) \/ \E limit \in ResourceLimits : PutResource(p, limit)
    \/ \E o \in Owner, e \in Execution, p \in Principal, k \in Key \cup {None} : Admit(o, e, p, k)
    \/ \E e \in Execution :
         \/ \E a \in Attempt :
              \/ \E pool \in Pool : PrepareAttempt(e, a, pool)
              \/ Dispatch(e, a)
              \/ \E outcome \in Provider : RecordTerminal(e, a, outcome)
              \/ AbandonPrepared(e, a)
              \/ MarkUnknown(e, a)
              \/ \E outcome \in Resolution : ResolveAttempt(e, a, outcome)
         \/ \E outcome \in Provider : Finish(e, outcome)
         \/ Postpone(e)
         \/ Recover(e)
         \/ DeferRecovery(e)
         \/ \E ep \in Episode : GuardedRoute(e, ep)
         \/ Project(e)

Spec == Init /\ [][Next]_vars

\* A replica's workers keep running: time passes, a due execution is visited
\* and a published event is delivered.  Nothing else is promised to happen.
Fairness ==
    /\ WF_vars(Tick)
    /\ \A e \in Execution :
         /\ WF_vars(Due(e) /\ (Postpone(e) \/ Recover(e)))
         /\ WF_vars(Project(e))

FairSpec == Spec /\ Fairness

-----------------------------------------------------------------------------
(* Properties *)

\* The executions that occupy a slot of tenant t.
Occupying(t) ==
    {e \in Execution : /\ executions[e].state \in Open \cup {"unknown"}
                       /\ TenantOfExecution(e) = t}

\* The attempts that occupy a slot of a pool.
Reserving(p) ==
    {a \in Attempt : attempts[a].state \in Holding /\ attempts[a].pool = p}

\* A tenant's occupancy counter is the number of its unsettled executions: no
\* interleaving of admission, settlement by the owner, recovery, operator
\* resolution and policy replacement leaks a slot or returns one twice.
TenantConservation == \A t \in Tenant : tenants[t].active = Cardinality(Occupying(t))

\* A pool's occupancy counter is the number of attempts that may still be sent
\* or still be running at the provider, across fallback, abandonment, late
\* evidence, recovery and resolution.
ResourceConservation == \A p \in Pool : resources[p].active = Cardinality(Reserving(p))

\* Every attempt row is listed exactly once, by the execution it names, and the
\* copy in that execution's view has the state of the row.
AttemptLedger ==
    /\ \A a \in Attempt : views[a] = attempts[a].state
    /\ \A a \in Attempt : attempts[a].state # "absent" =>
          attempts[a].execution \in Execution /\ a \in AttemptsOf(attempts[a].execution)
    /\ \A e \in Execution :
          /\ \A a \in AttemptsOf(e) : attempts[a].state # "absent" /\ attempts[a].execution = e
          /\ \A i, j \in DOMAIN executions[e].attempts :
                executions[e].attempts[i] = executions[e].attempts[j] => i = j

\* An execution has at most one attempt without a conclusion, it is unknown
\* exactly while that attempt is, and once settled it has none: fallback never
\* overtakes provider work whose outcome nobody knows.
OneUnresolvedAttempt ==
    \A e \in Execution :
       /\ \A a, b \in AttemptsOf(e) :
             attempts[a].state \in Holding /\ attempts[b].state \in Holding => a = b
       /\ executions[e].state = "unknown" <=>
             \E a \in AttemptsOf(e) : attempts[a].state = "unknown"
       /\ executions[e].state \in Settled =>
             \A a \in AttemptsOf(e) : attempts[a].state \notin Holding

\* Dispatch authorises an attempt's send at most once, and an attempt recorded
\* as reserved or not dispatched was never authorised: neither a lost reply nor
\* recovery by another process makes sent work look unsent.
SendOnce ==
    \A a \in Attempt :
       /\ permits[a] <= 1
       /\ permits[a] = 1 =>
             attempts[a].state \in {"dispatched", "unknown", "resolved"} \cup Provider

\* A settled execution has exactly one terminal event, an unsettled one has
\* none, and the event still equals the execution's view: delivery compares the
\* two and would reject an event that no longer matches.
EventAgrees ==
    \A e \in Execution :
       events[e] = IF executions[e].state \in Settled
                   THEN Snapshot(executions[e].state, executions[e].outcome,
                                 executions[e].attempts, views)
                   ELSE None

\* What an execution's outcome tells its tenant is true.  After "owner lost
\* before dispatch" no attempt was ever authorised and the owner's lease is over
\* for good, so none can be; a success is the latest terminal the provider was
\* observed to give, on an attempt whose send was authorised.
OutcomeIsTrue ==
    \A e \in Execution :
       /\ executions[e].outcome = "owner_lost" =>
             /\ ~ LiveOwner(executions[e].owner)
             /\ \A a \in AttemptsOf(e) : permits[a] = 0
       /\ executions[e].outcome = "succeeded" =>
             LET log == executions[e].attempts IN
             /\ \E i \in DOMAIN log :
                   /\ attempts[log[i]].state = "succeeded"
                   /\ \A j \in DOMAIN log : j > i => attempts[log[j]].state # "failed"
             /\ \A a \in AttemptsOf(e) : attempts[a].state \in Provider => permits[a] = 1

\* The rate counters of a minute count exactly the executions accepted in it,
\* for the tenant and for every limited key, also across policy replacement.
RateAccounting ==
    /\ \A t \in Tenant : tenants[t].accepted =
          Cardinality({e \in Execution : /\ executions[e].state # "absent"
                                         /\ TenantOfExecution(e) = t
                                         /\ executions[e].minute = tenants[t].minute})
    /\ \A p \in Principal : buckets[p].accepted =
          Cardinality({e \in Execution : /\ executions[e].principal = p
                                         /\ executions[e].authorization.rpm # None
                                         /\ executions[e].minute = buckets[p].minute})

\* The execution admitted under an idempotency key is the one the key names, so
\* that no two executions of a tenant share a key.
KeyNamesItsExecution ==
    \A e \in Execution : executions[e].key # None =>
       idempotency[TenantOfExecution(e)][executions[e].key] = e

\* The execution carries evidence its episode's next decision must see.
Evidence(e) ==
    \/ executions[e].state \in Settled
    \/ \E a \in AttemptsOf(e) : attempts[a].state \in Provider

\* Evidence of a bound execution stays behind its episode's fence until it is
\* projected, and what is behind a fence is bound to it and not yet projected:
\* projection can always leave the fence it needs.
FenceKeepsEvidence ==
    /\ \A e \in Execution : executions[e].trajectory # None /\ Evidence(e) =>
          (e \in fences[executions[e].trajectory]) # (e \in projected)
    /\ \A ep \in Episode : \A e \in fences[ep] :
          executions[e].trajectory = ep /\ Evidence(e)

\* A guard decides with the evidence of every execution bound to its episode
\* projected, including one observed and not yet finished.
GuardSeesEvidence ==
    [][\A e \in Execution :
          executions[e].trajectory = None /\ executions'[e].trajectory # None =>
             \A x \in Execution \ {e} :
                executions[x].trajectory = executions'[e].trajectory /\ Evidence(x)
                   => x \in projected']_vars

\* Settlement and provider evidence are final: a settled execution, its event,
\* and an attempt's terminal or resolution never change again.
SettledIsFinal ==
    [][/\ \A e \in Execution : executions[e].state \in Settled =>
             executions'[e] = executions[e] /\ events'[e] = events[e]
       /\ \A a \in Attempt :
             attempts[a].state \in Provider \cup {"resolved", "not_dispatched"} =>
                attempts'[a] = attempts[a]]_vars

\* The authority, the policies, the configuration and the credential an
\* attempt's execution was admitted and its slot was reserved with still hold.
Fenced(a) ==
    LET e == attempts[a].execution
        p == attempts[a].pool
    IN  /\ executions[e].authorization = principals[executions[e].principal]
        /\ executions[e].authorization.active
        /\ p \in tenants[TenantOfExecution(e)].limits.resource_pools
        /\ executions[e].generation = head
        /\ attempts[a].credential = credentials[p]
        /\ attempts[a].resource_revision = resources[p].policy_revision

\* An attempt is dispatched only under the authority its execution was admitted
\* and its slot was reserved with: the key's contents, the tenant policy, the
\* configuration, the pool policy and the credential are all unchanged.
FencedDispatch ==
    [][\A a \in Attempt :
          attempts[a].state = "prepared" /\ attempts'[a].state = "dispatched" => Fenced(a)]_vars

\* The episode's backlog refuses the execution.
BacklogFull(e) ==
    LET ep == executions[e].trajectory IN
    ep # None /\ e \notin fences[ep] /\ Cardinality(fences[ep]) >= MaxPending

\* An open execution whose owner is gone leaves the open states: recovery finds
\* it again after every deferral and late piece of evidence.  The one thing that
\* may hold it for good is a full episode backlog, which an execution that is
\* unknown may occupy until evidence or an operator settles it.
OrphanSettles ==
    \A e \in Execution :
       (executions[e].state \in Open /\ ~ LiveOwner(executions[e].owner))
          ~> (executions[e].state \notin Open \/ BacklogFull(e))

\* Every terminal event is projected: no event loses the fence it needs.
EventProjected == \A e \in Execution : events[e] # None ~> e \in projected
=============================================================================
