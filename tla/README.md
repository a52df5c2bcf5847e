# A TLA+ verification of BitRouter's shared gateway

BitRouter routes requests of language-model clients to providers. Most of the
repository is a single-process program: protocol adapters, a local agent
runtime, a command line. The part whose correctness is hardest to see from its
code and hardest to test is the *shared gateway*
(`apps/bitrouter/src/gateway/shared`): any number of replicas serve one
namespace of tenants through one PostgreSQL database, each of them may pause or
die anywhere, and what they share is money, rate limits, provider capacity and
single-use credentials. This project models that part in TLA+, with the
in-process machinery that each replica needs for it (custody of its requests,
application generations, publication of continuations), model-checks it with
TLC and proves its central invariants with TLAPS.

Paths below are relative to `src/apps/bitrouter/src/` unless they begin with
`src/`.

## 1. Inventory

| part | state it keeps | operations | modelled in |
|---|---|---|---|
| execution engine, `gateway/shared/engine*` | rows for instances, tenants, rate buckets, pools, executions, attempts, idempotency keys, terminal events | join, heartbeat, drain; admit; prepare, dispatch, record, abandon, mark unknown; finish; reconcile; resolve; put tenant and pool | `SharedEngine` |
| episode fences, guard and projection, `engine/guard.rs`, `engine/projection*` | the pending set of an episode, projection receipts | guarded route and binding, catch-up, project | `SharedEngine`, `TerminalDelivery` |
| terminal event delivery, `engine/outbox.rs`, `runtime/workers/outbox.rs` | outbox rows with claim leases; a worker's claim | claim, deliver (two transactions), acknowledge, retry | `TerminalDelivery`, `EventDelivery` |
| shared credentials, `credentials.rs`, `credentials/refresh.rs`, `gateway/providers/auth/store.rs` | an account's version, secret and refresh lease; a session's stage | import, load, begin, prepare refresh, exchange, commit, release, fence | `CredentialRefresh`; the version also in `SharedEngine` |
| authority, publication, API keys | the head of the configuration generations, key rows | publish, put principal | as far as admission and dispatch compare them, `SharedEngine` |
| request custody, `ownership.rs`, `dispatched.rs`, `admitted.rs` | a bounded registry of requests, the phase of each admission, a tracker of its current attempt | reserve, admit, begin, dispatch, observe, persist, drop, reconcile, finish a delivery, retire | `RequestCustody` |
| application generations and owned tasks, `generations*`, `runtime/publication.rs`, `runtime/lifecycle.rs`, `gateway/pipeline/owned_tasks.rs`, `continuation/owned.rs` | candidate, current and retired generations, the serving gate, the task sets of a pipeline, the continuation worker, the shutdown | publication pass, handover, retirement pass, drain, force, shutdown | `GenerationLifecycle` |
| continuation publication, `continuation/shared*.rs`, `gateway/shared/continuation.rs`, the delivery handshake in `gateway/pipeline/execution.rs` and `settlement.rs` | the row that maps a public response id to the provider's, with its lease; the producer record of a process; the pending markers | reserve, bind, open, acknowledge, activate, release, roll back, reconcile, recover, resolve, retire, close | `ContinuationPublication` |
| runtime workers, `runtime/workers*` | readiness, worker handles | heartbeat, custody, recovery, outbox, publication and retirement loops | the visitor of `RequestCustody`, the worker of `TerminalDelivery`, the passes of `GenerationLifecycle`, and the callers that justify `SharedEngine`'s fairness |
| tenancy service, `tenancy/` | a second process with its own authority and receipts | | not modelled |
| gateway pipeline, protocol adapters, providers, routing policy | mostly per-request data | | not modelled |
| core runtime, harness, metering, daemon, CLI, cloud client, crates | local state of one process | | not modelled |

How the parts interact. The pipeline reserves a place in the custody registry,
admits an execution, then for each provider it tries it loads a credential
(perhaps refreshing it), *prepares* an attempt, which takes a slot of the
provider's pool, and *dispatches* it, which authorises exactly one send. The
provider's terminal is recorded on the attempt; when the request ends the owner
finishes the execution, which returns the tenant's slot and publishes a terminal
event. Three other actors work on the same rows: the recovery loop of any
replica, for executions whose owner's lease is over; an operator, who resolves
executions whose outcome nobody knows and replaces policies and credentials; and
the outbox workers, which project each terminal event into metering, trajectory
and evaluation. An execution that belongs to a trajectory episode stands in the
episode's fence from its first evidence until that is projected, and a guard of
the episode decides only once the fence is empty. All communication between
replicas is through rows; there are no messages between them. Inside a replica a
request is bound to one *generation* of the application, built from one published
configuration: its tasks, its custody entry and its continuation markers hold the
generation until the last of them is gone. A native response becomes visible to
later requests through a *continuation* row, which is published around the moment
the client receives the response's end.

What is hard:

* every transaction's reply can be lost after it committed, and the caller must
  not repeat what it authorised (a send, the use of a refresh token);
* a process that is paused longer than its lease wakes up and continues with
  what it read before, while others took over;
* owner, recovery and operator may settle the same execution, and late evidence
  may arrive before, between and after them;
* policies, keys, credentials and the configuration change between the steps of
  one request;
* counters are updated in place, by steps far apart: a slot that is returned
  twice or never is invisible until the pool is full or the counter underflows;
* something must get *every* execution out of the open states and every event
  delivered, with no process that is obliged to survive;
* a request's future can be dropped at any await, while a transaction it sent is
  still on its way: what the process knows of a row may be older *or* newer than
  the row;
* a generation is replaced and retired while work bound to it still spawns,
  panics or registers more work, and a shutdown cuts across all of it.

`PROJECT.json` lists these hazards at their lines, with the properties that
cover each.

## 2. Modules

### SharedEngine

One action per transaction of the engine. The engine takes row locks in a fixed
order before it reads what it decides on, so a committed transaction is atomic
with respect to the others; a rejected one is rolled back and is a stuttering
step, as are idempotent replays, stale compare-and-swap replacements and
conflicting fingerprints. A process that dies simply takes no further steps; a
lost reply is visible only where it matters, in `Dispatch`, whose caller may or
may not learn that it is allowed to send (`permits` counts the permissions that
were delivered).

State: `instances` (leases), `tenants`, `buckets`, `resources` (the counters),
`executions`, `attempts` and `views` (the copy of each attempt inside the
execution's view, a separate field in the code that must be kept in step),
`idempotency`, `events`, `fences`, `projected`, and the authority the engine
compares: `head`, `principals`, `credentials`.

| actions | code |
|---|---|
| `Join`, `Heartbeat`, `Drain` | `Engine::join`, `drain`, `heartbeat`; an expired lease is never renewed |
| `PublishGeneration`, `SetPrincipal`, `ImportCredential`, `PutTenant`, `PutResource` | operator mutations |
| `Admit` | `admit_with_id`: key, tenant policy, idempotency, concurrency, both rate buckets |
| `PrepareAttempt`, `Dispatch`, `RecordTerminal`, `AbandonPrepared`, `MarkUnknown` | `engine/attempts.rs`, `mark_unknown` |
| `Finish`, `Postpone`, `Recover`, `DeferRecovery`, `ResolveAttempt` | the owner's, recovery's and the operator's settlement; `FinalizeLocked` is shared as in the code |
| `GuardedRoute`, `Project` | `guarded_route` with its catch-up and binding; the first transaction of `deliver` |

Abstractions. The provider's outcome is success or failure; failure codes and
usage are dropped. Fingerprints are dropped: a repeated key finds its execution,
whatever the fingerprint says nothing changes. A key's revision is a digest of
its contents, so `SetPrincipal` compares contents, and restoring them restores
the revision. A pool has one credential. Byte budgets, the key generation of the
head and listings are left out. `reconcile_one` does not check again that the
execution is due, so `Postpone` and `Recover` may happen at any time, and only
their fairness mentions `Due`. The second clock reading inside a transaction is
taken to equal the first.

### TerminalDelivery and EventDelivery

`TerminalDelivery` models the outbox rows and one delivery worker per replica:
`Claim` takes a lease, `Project` and `Complete` are the two transactions of
`deliver`, then `Acknowledge` or `Retry`. Time is relative and counted in
transaction timeouts, so that `Budget::new` appears with its real factors: a
claim may take 3, a delivery 2, an acknowledgement or retry 1, and the lease is
8. A worker's `timer` is the rest of its current tokio timeout; `Tick` cannot
pass it unless the worker is `held`, that is paused together with its timers.
`Fragile` workers may be paused, lose their instance lease or die at any await.
A claim's random token is its worker, which is exact because a worker has one
claim at a time and forgets it before the next. `metered` and `admitted` count
effects and are history.

`EventDelivery` is the promise: absent, published, projected, delivered,
acknowledged, each once, in this order. `TerminalDelivery` implements it with
`stage` read from the outbox row and the receipt (`StageOf`).

### CredentialRefresh

One account and the sessions that use it. Refresh tokens rotate: a token that is
presented twice is treated by the provider as stolen. The code therefore stores
the *intent* to refresh before the exchange and holds no lock during it. A
session is one request's use of the account and its identity is its lease token.
`Begin`, `PrepareRefresh`, `Commit` and `Release` are the transactions of
`credentials/refresh.rs`, each with its lost-reply branch; `Refresh` is the
exchange; `Load`, `Import` and `Fence` are `credentials.rs`; `Dispatch` is the
engine's use of the fence. The secret is identified with the version it was
sealed under; `presented` and `origin` are history.

### RequestCustody

One process and its requests, over a small durable execution row per request.
`phase`, `pipelineFailed` and `tracker` are the fields of `Custody`; `owned`,
`queue`, `generations` and `slots` those of the registry; `future` is the live
`Attempt` of `dispatched.rs`. A request reserves a slot, admits, and begins,
dispatches, observes and persists attempts; it may be dropped at any await, and
the registry's visitor (the custody loop, or the drain of a generation) then
settles its execution and gives the slot back. `job` is the reconciliation under
way: `Start`, `Track` (`reconcile_dispatch`), `Interrupt` (`interrupt_attempts`),
`Read` and `Finish` are its awaits, in the code's order, each of which may fail.

The fault model is the point of the module. `Commit` stores a row and answers;
`Lose` leaves a transaction *in flight*: it commits (`LateCommit`) or rolls back
(`LateRollback`) later, perhaps after the future that sent it is gone. It keeps
its row lock, so a locking operation waits for it, while a plain read returns the
row from before it. The owner's lease may expire, another replica may recover the
row, and an operator may resolve it. A request of an `Episodic` execution also
meets its episode's backlog: other executions fill it and are projected (`Fill`,
`Project`, `full`), and while it is full whatever would put the execution behind
the fence is refused (`Fenceable`, as in `install_projection_fence`), which is a
terminal's record and a settlement, by the owner, a visitor, recovery or an
operator. `sent`, `seen` and `delivered` are history. Refusals that depend on the
contents of a record (a usage total that overflows, invalid projection inputs) are
data and outside the model.

### GenerationLifecycle

The applications of one process. `slot` is where `Generations` keeps a
generation, `served` the gate of `http.rs`, `build` the build task with what it
returned, `at` how far the one holder of a resource's waiter has come (the
publication pass, a retirement pass, or the forced join). `shut`, `cut`, `sealed`
and `dirty` are the state of `OwnedTasks`, whose task sets are `exec` and
`settle`: a task ends, panics (leaving a payload that is destroyed later, and
whose destruction may register compensation), or is aborted and then destroyed.
`Begin`, `GraceEnds`, `ForceShutdown`, `ForcePipelines` and `ForceEnds` are
`shutdown_until`. Deadlines pass at any time; `GiveUp` is a pass that ran out of
time. `ReconcileCustody` is a visit that settles an entry of the process's custody
registry; whether it ever succeeds is up to the store.

### ContinuationPublication

All publications of one continuation identity, by several processes. `row` is the
shared row with its lease, `flight` a lost transaction as in `RequestCustody`,
`closed` and `closure` the durable producer record and a process's knowledge of
it. `held` is the identity lock of a process, under which a task binds or a worker
reconciles. `worker` is the reconciliation worker: it starts with the first bind of
the process that may have left a row, of this identity (`Bound`, a failed bind) or
of another (`BindElsewhere`), never at assembly and never again (`WorkerEnds`). It
visits the process's own markers and is alone in scanning for rows that others
left (`RecoverClaim`, `RecoverFinish`) and purging; a draining process joins it,
closes its producer record and then visits its own markers itself (`Visits`).
`marker` is the pending entry with its disposition and reason; reasons
only grow (`Retiring < Uncertain < RollbackRequired`). `task` is the tracked
settlement task and `client` the delivery future: the client's terminal is
released only after the row became active, and the observation of what happened is
frozen in `Witness`. Processes retire (`MayStop`) or crash (`MayCrash`), tasks are aborted and answers
lost (`MayFail`), retention ends (`MayExpire`).

In every module a definition named `Wrong...` is a deliberately wrong variant of
the definition after it (a dropped guard, a missing reset, an off-by-one). None
is used. Each is what one of the mutants in `PROJECT.json` substitutes, to show
that the property it is paired with can fail.

## 3. Properties and runs

| run | instance | states | checks |
|---|---|---|---|
| `lifecycle` | 2 incarnations, 2 executions, 2 attempts, 1 pool, 4 clock values | 292,545 | slots conserved; one unresolved attempt; one send; event equals execution; the reported outcome is what happened; settlement final |
| `authority` | 1 execution and attempt; tenant and pool policies, key, credential and generation change | 412,926 | dispatch only under the authority of admission |
| `admission` | 3 executions, 2 principals, an idempotency key, 3 minutes | 1,772,900 | rate counters, idempotency |
| `progress` | 2 executions, an episode with a backlog of 1, fair recovery and delivery | 168,614 | fence keeps evidence, guard sees evidence, orphans settle, events are projected |
| `delivery` | 2 workers (1 fragile), 2 events, 1 failure | 121,610 | effects once, implements `EventDelivery`, every event is acknowledged |
| `refresh` | 3 sessions, leases of 2 ticks, 5 clock values, 4 versions | 155,770 | no token twice, spent token fenced, refresh follows its token, dispatch unspent |
| `custody_evidence` | 2 requests, 1 slot, 2 attempts each, one behind a backlog that fills | 3,130,058 | retired is settled, evidence kept, sent is never unsent, delivered is durable, an intent stands |
| `custody_registry` | 2 requests of 2 generations, 2 slots, one of them calls a provider and meets a full backlog; fair worker | 421,978 | entries, slots and counts agree; a dropped request is retired once the backlogs stay free |
| `generation_handover` | 1 request, 2 builds, 2 revisions, 1 failed pass, stop at any time | 1,496,284 | traffic meets the published generation; reclaimed is idle; sealed is complete; force is sticky; the report is true |
| `generation_progress` | 1 request, 4 builds, 3 revisions, 1 failed pass; fair workers, custody that may never settle | 192,304 | shutdown ends, serving converges to the head or custody holds the retired budget |
| `continuation_custody` | 2 publications of one process, 2 processes, crash and lost answers | 1,907,322 | delivered is published, cleared is gone, resolved is delivered |
| `continuation_retire` | 1 publication, 2 processes, every fault, retention; database answers again | 132,930 | a retired process leaves nothing; a crashed one is recovered by a running worker |

What the less obvious properties say. `OutcomeIsTrue`: an execution that reports
success has a latest terminal that succeeded, and one that reports
`owner_lost` was never sent anywhere. `RetiredIsSettled`: a custody slot is given
back only when the execution is not open and *no transaction in flight* can still
change it, which is why `reconcile` probes an uncertain admission under the row's
lock. `IntentStands`: a visitor that read the attempts before a dispatch intent
committed never takes that intent back. `ReportIsTrue`: when the shutdown is over
nothing runs, and when it is reported clean nothing is left in the registries and
no task of a retired generation was lost. `ClearedIsGone`: when a live process has
given a marker up, no row of that publication exists or can still appear from a
lost transaction. `DeliveredIsPublished`: the row of a publication whose end the
client received stays active until its retention ends.

Four liveness properties are conditional, each on something the code does not
guarantee. `OrphanSettles` excepts a full backlog. `DroppedRetires` says that if
the backlogs stay free from some time on, the entry of a dropped request is retired
unless its evidence is `Contradicted`. `Converges` says that the serving generation
reaches the published head and stays there, the process stops, or it is `Stuck`: all
the places for retired generations are taken by generations that still have an entry
in custody. `CrashedIsRecovered` says that if from some time on a worker runs in some
process, no unpublished row of a crashed process stays. `RetiredLeavesNothing` has no
such condition, because a draining process resolves its own markers after the
producer record is closed; a process that is forced out of its drain has crashed.

Why the bounds are enough to be interesting. In `lifecycle` a lease is one tick
and the clock has four values, so a lease can be renewed, expire, and be followed
by recovery and late evidence; two executions compete for a pool and a tenant,
and an execution can use both attempts, which is a fallback. `authority` lowers
tenant and pool limits to zero under a running execution and revokes, restores and expires the key within the
life of an attempt. `admission` has more executions than each limit. `progress`
has a backlog that one execution fills. `delivery` lets an event be claimed again
after a lost or late reply. `refresh` has time for a lease to end and be reclaimed
while its session is still at the provider, and for an import in between. In
`custody_evidence` the second request gets its slot only from the first, and each
can fall back once; in `custody_registry` one request can stay alive for ever in
front of the other, and the evidence of the one that calls a provider can meet a
failed transaction, a recovery and an operator (`Calling` bounds which requests
call a provider). `generation_handover` has a request that outlives its generation
with one retired slot; `generation_progress` needs a second handover to find that
slot occupied. `continuation_custody` has a second publication of the same
identity, which finds the row of the first; a configuration with one publication
in each of two processes (`ProducerOf` of different producers, 2.02 million
states) was also checked for the same properties and passes, but is left out of
the runs for its length. Symmetry is used in the engine's and the refresh's safety
runs only.

Bounds that only limit the instance are named `Max...` (`MaxTime`, `MaxPolicy`,
`MaxGeneration`, `MaxCredential`, `MaxFailures`, `MaxVersion`, `MaxBuilds`,
`MaxRevision`), and `LastStop`, `Calling`, `Episodic`,
`MayStop`, `MayCrash`, `MayFail` and `MayExpire`.
`MaxAttempts`, `MaxPending`, `CatchUpBudget`, `MaxRetired` and `Limit` are limits
of the code, made small. Deadlock is not checked where the system may stop: where
the modelled clock ends (`SharedEngine`, `CredentialRefresh`), when all requests or
publications of the instance are over, and when the last revision is served; it is
checked for `TerminalDelivery` and in `generation_handover`, where only a shutdown
that is over may be the end.

Fairness. `SharedEngine`'s `Fairness` says that time passes, that a due open
execution is visited, and that a published event is projected. The first two are
what `recovery_loop` does in every replica: it scans what is due, oldest first,
defers what fails and never stops while the process runs; some replica running
is the assumption. Nothing is promised about owners, operators or heartbeats. An
orphan is *not* promised to settle while its episode's backlog is full: an
execution with evidence that became unknown keeps its place in the fence until
new evidence or an operator settles it, and every other settlement of that
episode is rejected meanwhile (`install_projection_fence`); `OrphanSettles` says
so with `BacklogFull`. In `TerminalDelivery` time passes, a worker that is not
paused gets on with its claim, because every await of `complete` has a timeout,
and a worker that is not fragile keeps claiming each claimable event, because the
scan is ordered by due time.

`RequestCustody`: the custody loop visits the queue for ever, every operation of
the store ends in its timeout at the latest, a transaction in flight commits or
rolls back, and at some time the database is back for good; nothing is said about
requests, which may live for ever, nor about the backlogs of episodes. `GenerationLifecycle`: every task that can run
is run, an aborted one ends, and in the end a retirement pass is given the time it
needs (`retire` is called again with a fresh deadline until it succeeds); a
shutdown that is forced needs no such time. Nothing is assumed of
`ReconcileCustody`: `Custody::reconcile` may be refused on every visit. `ContinuationPublication`: the
database eventually stops losing answers, lost transactions end, the worker visits
each marker in turn (strong fairness, because another holder of the identity lock
may stand in the way of any one visit) as does the drain (`retire` calls it again
until no marker is left), the worker of a draining process ends (strong fairness: it
reads its cancellation before each pass, and a pass ends), a retiring process aborts
its tasks, an abandoned lease lapses, and the scan of a worker that runs goes on. That
a worker runs is assumed nowhere; it is the condition of `CrashedIsRecovered`.

Four observations the model made explicit, none of which the code or its
documents promise otherwise:

* `Contradicted` in `RequestCustody`: an entry that still holds a provider's
  terminal when an operator resolves its execution can never retire, because
  `record_observed_terminal` refuses the evidence on every visit. It keeps its
  slot until the process ends; `DroppedRetires` names the exception. Without it
  the run `custody_registry` finds that behaviour. An entry behind a full backlog
  is refused in the same way for as long as the backlog is full.
* A generation with such an entry is never reclaimed (`report.custody == 0` in
  `retire_grace`) and keeps its place among the retired ones. When the whole budget
  is taken in this way no new authority is served until the process restarts
  (`Stuck`).
* In shared mode `assemble.rs` does not start the continuation worker; the first
  bind of a process does. While no live process has bound anything, nobody scans,
  and the unpublished row of a crashed process stays. It is never resolved
  meanwhile: `resolve_visible` takes only active rows.
* A second delivery of the same response may be delivered on a row that the first
  one inserted, and the first may be rolled back afterwards. The second delivery
  verifies the foreign row before each of its steps and promises nothing later, so
  `DeliveredIsPublished` is stated for the publication that inserted the row.

## 4. Proofs

The proofs hold for any number of incarnations, tenants, pools, executions,
attempts, workers, events, sessions, requests, generations and publications, and
for any values of the limits; the assumptions on the constants are
`EngineAssumption`, `DeliveryAssumption`, `RefreshAssumption`,
`CustodyAssumption`, `LifecycleAssumption` and `PubAssumption`, which TLC
evaluates on every run. Each of the components follows the same argument: an
inductive invariant, checked with TLC on the run's instance before it was proved, one lemma for each action that it is kept, and the
properties as consequences.

`SharedEngineProofs`. `TypeCorrect` needs `Admitted` as well: an execution that
exists names a principal, an owner and a key's contents, without which
`TenantOf[...]` of a settled execution has no value. `AttemptLedgerHolds`,
`OneUnresolvedAttemptHolds` and `SendOnceHolds` share the invariant `LedgerInv`,
because none is inductive alone: that `Dispatch` is granted once needs the copy in
the view to agree with the row, and that finalization leaves no holding attempt
needs the list of attempts to be exactly the rows that name the execution.
`LedgerMoved` reduces a step to the one execution whose attempts it moves. The last
part (`FrameStep`, `LeaseStep`) says what a step may touch at all; the other two
modules about the engine start from it.

`SharedConservationProofs`. `TenantConservationHolds` and
`ResourceConservationHolds` extend `LedgerInv` to `SlotInv` with
`UnknownTenantIsIdle` (a tenant without a policy has never admitted anything,
which is why creating it at zero loses nothing). Each step either leaves the
counted set alone, adds one element, removes one, or, in a finalization, removes
all unsent reservations of a pool at once; there is one lemma for each.
`RateAccountingHolds` needs `RateInv`: no counter is behind the executions it
counts (`MinutesFollow`), so a rollover starts a minute in which nobody was
accepted, and nothing was accepted before a tenant's first policy
(`PolicyPrecedes`), so creating the row at zero loses nothing.

`TerminalDeliveryProofs`. `DeliveryInv` says what a worker in each phase knows of
its event (`WorkerKnows`) and that its lease outlasts its timer by the budget of
the phases still to come (`LeaseOutlasts`). From it follow `EffectsOnceHolds`,
`LeaseCoversDeliveryHolds` and, step by step, the refinement
`DeliversInOrderHolds`.

`CredentialRefreshProofs`. `RefreshInv` adds to the two invariants that a version
not yet stored was never presented, that a session knows only stored versions,
that a session with a durable intent is the only one that may present its version
(`GrantExclusive`) and that a replacement was obtained by presenting its token
(`StagedPresented`). `PresentedOnceHolds`, `PresentedIsFencedHolds`,
`RefreshFollowsItsTokenHolds` and `DispatchesUnspentHolds` follow.

`SharedFinalityProofs`. From `LedgerInv`: `SettledIsFinalHolds` (each action either
leaves a settled execution and a concluded attempt alone or needs them unsettled),
`EventAgreesHolds` (the event is taken from the view that the same step stores, and
by finality the view never moves away from it). `StepKinds` reduces the rest to
four actions: every other step is `Quiet`, that is keeps identities, bindings and
policies and neither makes nor consumes a reservation. `KeyNamesItsExecutionHolds`
adds to its property that an execution with a key has a principal.
`FencedDispatchHolds` needs two facts that no single transaction shows:
`RevisionBound` (no execution was admitted under a policy revision its tenant does
not have yet, so replacing a policy always invalidates what was admitted before)
and `PoolAllowed` (a reservation whose execution still has its tenant policy is for
a pool that policy allows). `OutcomeIsTrueHolds` needs that nothing is reported
before settlement, that the owner of an execution had joined, and that a provider's
terminal was observed on an authorised attempt (`OutcomeInv`); once reported, an
outcome stays true because its attempts are final. `FenceKeepsEvidenceHolds` and
`GuardSeesEvidenceHolds` share `EpisodeInv`, which adds that what is projected is
settled.

`RequestCustodyProofs`. `Custody` speaks of one request at a time (`Inv`): which rows
the transactions can produce and what may still be in flight (`RowInv`), where a
terminal is while the row does not have it yet (`SeenInv`, `StoredInv`,
`EvidenceInv`), and why what a visit read without a lock is still true when its
transaction commits (`ReadInv`); and of the registry: who is in the queue
(`QueueInv`) and what the counters count (`Counted`). The transactions are treated
first, as functions of a row (each makes a legal row that follows the one it found),
so that the lemma of an action only says which transaction it runs. All six safety
properties follow: `RetiredIsSettledHolds`, `EvidenceKeptHolds`,
`SentIsNeverUnsentHolds`, `DeliveredIsDurableHolds`, `EntryAccountingHolds` and
`IntentStandsHolds`.

`GenerationLifecycleProofs`. `Lifecycle` says, for each generation, which barrier the
holder of its waiter has passed (`WaiterInv`, `BarrierInv`) and that a pipeline is
closed before it is forced or sealed (`PipelineInv`); for each request, what it may
still own in the generation it is bound to (`WorkInv`); and for the process, what
each stage of the shutdown has waited for (`StageInv`, `EndInv`). `Forced` describes
what a force does to any set of generations, for the four actions that force.
`ServedIsCurrentHolds`, `ReclaimedIsIdleHolds`, `SealedIsCompleteHolds`,
`ForceIsStickyHolds` and `ReportIsTrueHolds` follow, and `TypeCorrect` with the
budget of retired generations.

`ContinuationPublicationProofs`. None of the three properties is inductive alone:
that a delivered row stays needs that a cancellation is recorded only for a
publication that was not released, that a cleared marker leaves nothing needs that a
marker of disposition `existing` belongs to a publication whose row was never
inserted, and both need to know what an operation in hand, or a transaction that was
lost, may still write. `Publication` says so for each publication (`TaskInv`,
`MarkerInv`, `ActiveInv`, `ClearedInv`), for the holder of each identity lock
(`HeldInv`) and for the row and the lost transaction (`StoreInv`). `Recedes` covers
every error path at once: a marker is kept and only gets stronger while its task turns
back. `Lent` says what a lost transaction can be. The read past the lock of a lost
transaction (`StaleAbsence`) is harmless because whoever may take it has seen its row
inserted, and a lost transaction that meets no row inserts one of another publication
(`StaleAbsenceIs`). `DeliveredIsPublishedHolds`, `ClearedIsGoneHolds` and
`ResolvedIsDeliveredHolds` follow.

`TypeCorrect` is proved for all six components. It, `AttemptLedger` and
`LeaseCoversDelivery` are proved and no longer model-checked, since the runs are
spent on other properties. The conservation of slots is model-checked with fixed
limits; that it survives a limit lowered below the occupancy rests on
`TenantConservationHolds` and `ResourceConservationHolds`, which cover `PutTenant` and
`PutResource` with any limits.

Only model-checked: the liveness properties (`OrphanSettles`, `EventProjected`,
`DeliversEventually`, `DroppedRetires`, `ShutdownEnds`, `Converges`,
`RetiredLeavesNothing` and `CrashedIsRecovered`: fairness and `ENABLED` are out of the prover's reach). Every
safety invariant and action property of the runs is proved.

## 5. Plan

Done, in this order: `SharedEngine` with its first proofs; `EventDelivery` and
`TerminalDelivery` with the refinement proved; `CredentialRefresh` with its
proofs; conservation of slots; `RequestCustody`; `GenerationLifecycle`;
`ContinuationPublication`; finality, events, keys and the dispatch fence proved;
outcomes, rates, fences and guards; all safety properties of `RequestCustody`, of
`GenerationLifecycle` and of `ContinuationPublication`.

Next:

1. An abstract execution contract (accepted, then perhaps sent, then settled once,
   with one event) that both `SharedEngine` and the row of `RequestCustody`
   implement.
2. The tenancy service, as a project of its own size.

## 6. What is not modelled, and why

SQL, migrations and the retry of serialization failures are the atomicity the
actions assume. Sealing, signing, digests and wire formats are data. The contents
of a projection (trajectory evaluation, prior inference) are data that no guard
of the engine reads. The pipeline, the protocol adapters and provider transports
translate and stream; what the engine sees of them is an outcome, and of the
pipeline only its task sets and its delivery handshake are modelled. Routing is a
computation over a locked policy file; the engine sees a pool and a generation.
The local runtime (sessions, evolution, harness, thread service), metering, the
daemon, the command line and the cloud client run in one process beside the
shared gateway and share no rows with it. The tenancy service is a second
program. `PROJECT.json` lists each with its reason.

The models stand for about 6,700 lines of a repository of half a million lines of
implementation. The share is small by the nature of the rest and not by omission
of a concurrent part: almost all of those lines are translations between model
protocols, configuration and its validation, command-line handling, migrations,
generated registries, and the local runtime with its files and child processes.
They hold little state that two actors share, and a model of them would repeat the
data transformations line by line without a behaviour to check. The lines that are
modelled are where several actors meet: every transaction of the shared engine,
every await of its callers, and the lifetimes of what a replica keeps in memory.
