------------------------- MODULE GenerationLifecycle -------------------------
(***************************************************************************)
(* The applications of one shared process: built from the published        *)
(* authority, served one at a time, retired once nothing uses them, and    *)
(* drained or forced when the process stops (generations.rs,               *)
(* generations/resource.rs, pipeline/owned_tasks.rs, the serving gate of   *)
(* http.rs, continuation/owned.rs, runtime/publication.rs,                 *)
(* runtime/workers.rs and runtime/lifecycle.rs).                           *)
(*                                                                         *)
(* A generation keeps one application.  A request is bound to the          *)
(* generation that is served when it arrives; it holds a source (with its  *)
(* snapshot), an entry in the custody registry, and the tasks that it      *)
(* spawns, which may outlive the source.  Deadlines pass at any time.      *)
(* Readiness (health.rs) only makes fewer requests arrive and is left out. *)
(*                                                                         *)
(* Definitions named Wrong... are deliberately wrong variants of the       *)
(* definition that follows them and are not used.                          *)
(***************************************************************************)
EXTENDS Naturals, FiniteSets

CONSTANTS
    Request,
    None,
    MaxRetired,    \* max_retired, the budget of retired generations
    MaxBuilds,     \* bound: generations that are ever built
    MaxRevision,   \* bound: the last authority that is published
    MaxFailures,   \* bound: passes of the publication that fail
    LastStop       \* bound: the last revision at which the process may be told to stop

Generation == 1..MaxBuilds

ASSUME LifecycleAssumption ==
    /\ MaxRetired \in Nat \ {0}
    /\ MaxBuilds \in Nat
    /\ MaxRevision \in Nat \ {0}
    /\ MaxFailures \in Nat
    /\ LastStop \in Nat
    /\ None \notin Generation
    /\ None \notin {"clean", "unclean", "forced"}

VARIABLES
    \* The authority, and how often a pass of the publication has failed.
    head,          \* the published revision; every publication advances it
    failures,
    \* Generations.
    slot,          \* where the manager keeps each generation
    closed,        \* State.closed, and Publication.withdrawn with it
    forcing,       \* State.forcing, and Resource.forcing of what is retained
    served,        \* the generation whose snapshot is published
    \* Resource.
    rev,           \* revision
    build,         \* build: the task, or what it returned
    retiring,      \* retiring
    at,            \* how far the holder of the waiter has come
    pipeline,      \* Retirement.pipeline
    producer,      \* Retirement.producer_closed
    \* OwnedTasks.
    shut,          \* State.closed
    cut,           \* State.forcing
    sealed,        \* State.sealed
    dirty,         \* the summary counts something that did not finish
    \* The continuation registry.
    native,        \* its worker
    marker,        \* the requests with an unresolved publication
    \* Requests.
    gen,           \* the generation that a request is bound to
    source,        \* the requests that hold a source
    exec,          \* the execution task of each request
    settle,        \* its settlement task
    custody,       \* the requests with an entry in the registry
    \* The process.
    publisher,     \* the publication worker
    early,         \* the retirement and custody workers run
    transport,     \* the accept and connection tasks
    external,      \* Generations.external_joined
    phase,         \* how far the shutdown has come
    attempts       \* Shutdown.attempts: the generations that it retires

authority == <<head, failures>>
manager == <<slot, closed, forcing, served>>
resource == <<rev, build, retiring, at, pipeline, producer>>
tasks == <<shut, cut, sealed, dirty>>
continuation == <<native, marker>>
requests == <<gen, source, exec, settle, custody>>
shutdown == <<early, transport, external, phase, attempts>>
vars == <<authority, manager, resource, tasks, continuation, requests, publisher, shutdown>>

-----------------------------------------------------------------------------
Retained == {g \in Generation : slot[g] \in {"candidate", "current", "retired"}}
InSlot(s) == {g \in Generation : slot[g] = s}
Bound(g) == {r \in Request : gen[r] = g}

\* Outcome.components and Components.snapshot of a joined build.
Components(g) == build[g] \in {"ready", "snapshotless"}
Joined(g) == Components(g) \/ build[g] = "failed"

\* A task in a JoinSet.  Only a drain looks at the sets, and it reaps first:
\* a task that has ended counts as joined, except that a panic leaves a payload
\* ("gone": it did not finish).
Live == {"running", "aborted", "discarded"}
Pending == Live \cup {"panicked"}

Busy(g) ==
    \E r \in Bound(g) : r \in source \/ exec[r] \in Pending \/ settle[r] \in Pending

TaskState == Pending \cup {"none", "payload", "joined", "gone"}

TypeOK ==
    /\ head \in 1..MaxRevision
    /\ failures \in 0..MaxFailures
    /\ slot \in [Generation -> {"unmade", "candidate", "current", "retired", "reclaimed"}]
    /\ Cardinality(InSlot("current")) <= 1 /\ Cardinality(InSlot("candidate")) <= 1
    /\ Cardinality(InSlot("retired")) <= MaxRetired
    /\ closed \in BOOLEAN /\ forcing \in BOOLEAN
    /\ served \in Generation \cup {None}
    /\ rev \in [Generation -> 0..MaxRevision]
    /\ build \in [Generation -> {"none", "running", "built", "unbound", "broken",
                                 "ready", "snapshotless", "failed"}]
    /\ retiring \in [Generation -> BOOLEAN]
    /\ at \in [Generation -> {"idle", "publish", "build", "drain", "native",
                              "close", "custody", "remove", "forced", "join"}]
    /\ pipeline \in [Generation -> {None, "clean", "unclean", "forced"}]
    /\ producer \in [Generation -> BOOLEAN]
    /\ shut \in [Generation -> BOOLEAN] /\ cut \in [Generation -> BOOLEAN]
    /\ sealed \in [Generation -> BOOLEAN] /\ dirty \in [Generation -> BOOLEAN]
    /\ native \in [Generation -> {"running", "forced", "joined"}]
    /\ marker \in SUBSET Request
    /\ gen \in [Request -> Generation \cup {None}]
    /\ source \in SUBSET Request
    /\ exec \in [Request -> TaskState] /\ settle \in [Request -> TaskState]
    /\ custody \in SUBSET Request
    /\ publisher \in {"idle", "waiting", "checking", "publishing", "stopped"}
    /\ early \in BOOLEAN
    /\ transport \in {"open", "stopping", "forced", "joined"}
    /\ external \in BOOLEAN
    /\ phase \in {"up", "draining", "retiring", "late", "forced", "over"}
    /\ attempts \in SUBSET Generation

Init ==
    /\ head = 1
    /\ failures = 0
    /\ slot = [g \in Generation |-> "unmade"]
    /\ closed = FALSE /\ forcing = FALSE
    /\ served = None
    /\ rev = [g \in Generation |-> 0]
    /\ build = [g \in Generation |-> "none"]
    /\ retiring = [g \in Generation |-> FALSE]
    /\ at = [g \in Generation |-> "idle"]
    /\ pipeline = [g \in Generation |-> None]
    /\ producer = [g \in Generation |-> FALSE]
    /\ shut = [g \in Generation |-> FALSE] /\ cut = [g \in Generation |-> FALSE]
    /\ sealed = [g \in Generation |-> FALSE] /\ dirty = [g \in Generation |-> FALSE]
    /\ native = [g \in Generation |-> "running"]
    /\ marker = {}
    /\ gen = [r \in Request |-> None]
    /\ source = {}
    /\ exec = [r \in Request |-> "none"] /\ settle = [r \in Request |-> "none"]
    /\ custody = {}
    /\ publisher = "idle"
    /\ early = TRUE
    /\ transport = "open"
    /\ external = FALSE
    /\ phase = "up"
    /\ attempts = {}

-----------------------------------------------------------------------------
\* The serving gate, and the work of a request.

\* acquire_request: the snapshot is read and its source taken under one lock.
Acquire(r) ==
    /\ gen[r] = None
    /\ transport # "joined"
    /\ served # None
    /\ ~ shut[served]
    /\ gen' = [gen EXCEPT ![r] = served]
    /\ source' = source \cup {r}
    /\ custody' = custody \cup {r}
    /\ UNCHANGED <<authority, manager, resource, tasks, continuation, exec, settle, publisher, shutdown>>

\* Wrong: a task that is registered after the force runs.
WrongSpawned(g) == "running"

\* spawn: once forced or sealed, the work is owned but never polled.
Spawned(g) == IF cut[g] \/ sealed[g] THEN "discarded" ELSE "running"

SpawnExecution(r) ==
    /\ r \in source
    /\ exec[r] = "none"
    /\ exec' = [exec EXCEPT ![r] = Spawned(gen[r])]
    /\ UNCHANGED <<authority, manager, resource, tasks, continuation, gen, source, settle,
                   custody, publisher, shutdown>>

\* A running execution reserves a publication, unless the registry has
\* stopped accepting.
Publish(r) ==
    /\ exec[r] = "running"
    /\ r \notin marker
    /\ native[gen[r]] = "running"
    /\ marker' = marker \cup {r}
    /\ UNCHANGED <<authority, manager, resource, tasks, native, requests, publisher, shutdown>>

\* A task of r ends; it may register the settlement first.
Settlement(r) ==
    settle' \in {settle} \cup
        (IF settle[r] = "none" THEN {[settle EXCEPT ![r] = Spawned(gen[r])]} ELSE {})

EndExecution(r) ==
    /\ exec[r] = "running"
    /\ exec' = [exec EXCEPT ![r] = "joined"]
    /\ Settlement(r)
    /\ marker' \in {marker, marker \ {r}}
    /\ UNCHANGED <<authority, manager, resource, tasks, native, gen, source, custody, publisher, shutdown>>

PanicExecution(r) ==
    /\ exec[r] = "running"
    /\ exec' = [exec EXCEPT ![r] = "panicked"]
    /\ UNCHANGED <<authority, manager, resource, tasks, continuation, gen, source, settle,
                   custody, publisher, shutdown>>

\* An aborted or discarded task is destroyed, and its destructor may register
\* compensation.
DestroyExecution(r) ==
    /\ exec[r] \in {"aborted", "discarded"}
    /\ exec' = [exec EXCEPT ![r] = "gone"]
    /\ dirty' = [dirty EXCEPT ![gen[r]] = TRUE]
    /\ Settlement(r)
    /\ UNCHANGED <<authority, manager, resource, shut, cut, sealed, continuation, gen, source,
                   custody, publisher, shutdown>>

EndSettlement(r) ==
    /\ settle[r] = "running"
    /\ settle' = [settle EXCEPT ![r] = "joined"]
    /\ UNCHANGED <<authority, manager, resource, tasks, continuation, gen, source, exec,
                   custody, publisher, shutdown>>

DestroySettlement(r) ==
    /\ settle[r] \in {"aborted", "discarded"}
    /\ settle' = [settle EXCEPT ![r] = "gone"]
    /\ dirty' = [dirty EXCEPT ![gen[r]] = TRUE]
    /\ UNCHANGED <<authority, manager, resource, shut, cut, sealed, continuation, gen, source,
                   exec, custody, publisher, shutdown>>

\* The response body is destroyed, at its end or with its connection.
Release(r) ==
    /\ r \in source
    /\ source' = source \ {r}
    /\ UNCHANGED <<authority, manager, resource, tasks, continuation, gen, exec, settle,
                   custody, publisher, shutdown>>

\* reconcile_one of the registry, by the custody worker or a retirement: only
\* an entry that no part of the request still holds.  The store may refuse the
\* settlement, on every visit even; then the entry stays.
ReconcileCustody(r) ==
    /\ r \in custody
    /\ early \/ \E g \in Generation : at[g] = "custody"
    /\ r \notin source
    /\ {exec[r], settle[r]} \cap Live = {}
    /\ custody' = custody \ {r}
    /\ UNCHANGED <<authority, manager, resource, tasks, continuation, gen, source, exec, settle,
                   publisher, shutdown>>

\* The registry's worker compensates a publication whose execution has ended.
ReconcileMarker(r) ==
    /\ r \in marker
    /\ exec[r] \notin Live
    /\ native[gen[r]] = "running"
    /\ marker' = marker \ {r}
    /\ UNCHANGED <<authority, manager, resource, tasks, native, requests, publisher, shutdown>>

-----------------------------------------------------------------------------
\* The manager.

\* mark_retiring and close_sources of the generations gs.
Withdrawn(gs) ==
    /\ retiring' = [g \in Generation |-> retiring[g] \/ g \in gs]
    /\ shut' = [g \in Generation |-> shut[g] \/ (g \in gs /\ Components(g))]

\* force_components: the worker is cancelled at once, the pipeline only when
\* the transport's tasks have joined.
ForceNative(gs) ==
    native' = [g \in Generation |->
                  IF g \in gs /\ native[g] # "joined" THEN "forced" ELSE native[g]]

\* OwnedTasks::force wants closed sources, and none left.
Forcible(g) == shut'[g] /\ Bound(g) \cap source = {}

ForceTasks(gs) ==
    LET now     == {g \in gs : Forcible(g) /\ ~ cut[g]}
        Cut(st) == [r \in Request |-> IF gen[r] \in now /\ st[r] = "running" THEN "aborted"
                                      ELSE st[r]]
    IN  /\ cut' = [g \in Generation |-> cut[g] \/ g \in now]
        /\ exec' = Cut(exec)
        /\ settle' = Cut(settle)

\* close_sources and force_components of the generations gs.
ForceComponents(gs, joined) ==
    /\ shut' = [g \in Generation |-> shut[g] \/ g \in gs]
    /\ ForceNative(gs)
    /\ ForceTasks(IF joined THEN gs ELSE {})

\* The build task returns; an aborted one as well.
FinishBuild(g) ==
    /\ build[g] = "running"
    /\ \E outcome \in {"built", "unbound", "broken"} :
          /\ outcome # "built" /\ ~ forcing => failures < MaxFailures
          /\ failures' = IF outcome # "built" /\ ~ forcing THEN failures + 1 ELSE failures
          /\ build' = [build EXCEPT ![g] = outcome]
    /\ UNCHANGED <<head, manager, rev, retiring, at, pipeline, producer, tasks, continuation,
                   requests, publisher, shutdown>>

\* poll_build: the result is kept; a force that came before it is applied now.
JoinBuild(g) ==
    LET outcome == CASE build[g] = "built" -> "ready"
                     [] build[g] = "unbound" -> "snapshotless"
                     [] OTHER -> "failed"
    IN  /\ build[g] \in {"built", "unbound", "broken"}
        /\ build' = [build EXCEPT ![g] = outcome]
        /\ IF forcing /\ outcome # "failed"
           THEN ForceComponents({g}, external)
           ELSE UNCHANGED <<shut, cut, native, exec, settle>>
        /\ UNCHANGED <<sealed, dirty, marker>>

\* can_build, and the checks of start_candidate.
CanBuild ==
    /\ ~ closed
    /\ InSlot("candidate") = {}
    /\ Cardinality(InSlot("retired")) < MaxRetired

-----------------------------------------------------------------------------
\* The publication worker (publication.rs, run and build).

Advance ==
    /\ head < MaxRevision
    /\ head' = head + 1
    /\ UNCHANGED <<failures, manager, resource, tasks, continuation, requests, publisher, shutdown>>

Loaded == IF served = None THEN 0 ELSE rev[served]

\* materialize and start_candidate; the worker waits for the build.
StartCandidate(g) ==
    /\ publisher = "idle"
    /\ Loaded # head
    /\ CanBuild
    /\ slot[g] = "unmade" /\ \A h \in Generation : slot[h] = "unmade" => g <= h
    /\ slot' = [slot EXCEPT ![g] = "candidate"]
    /\ rev' = [rev EXCEPT ![g] = head]
    /\ build' = [build EXCEPT ![g] = "running"]
    /\ at' = [at EXCEPT ![g] = "publish"]
    /\ publisher' = "waiting"
    /\ UNCHANGED <<authority, closed, forcing, served, retiring, pipeline, producer, tasks,
                   continuation, requests, shutdown>>

\* Wrong: a pass that gives up leaves its candidate as it is.
WrongDiscarded(g) == {}

\* Drop for CandidatePublication: discard_candidate marks what the pass leaves.
Discarded(g) == {g}

\* The pass ends without publishing; its waiter is dropped.
Discard(g, next) ==
    /\ Withdrawn(Discarded(g))
    /\ at' = [at EXCEPT ![g] = IF @ = "publish" THEN "idle" ELSE @]
    /\ publisher' = next
    /\ UNCHANGED <<rev, build, pipeline, producer, cut, sealed, dirty, continuation, manager,
                   requests, shutdown>>

\* wait_candidate: the build has joined.
WaitCandidate(g) ==
    /\ slot[g] = "candidate"
    /\ publisher = "waiting" /\ at[g] = "publish"
    /\ JoinBuild(g)
    /\ at' = [at EXCEPT ![g] = "idle"]
    /\ publisher' = "checking"
    /\ UNCHANGED <<authority, manager, rev, retiring, pipeline, producer, gen, source, custody,
                   shutdown>>

\* The candidate is not ready, the head has moved, or the head was not read.
Outdated(g) ==
    /\ slot[g] = "candidate"
    /\ publisher = "checking"
    /\ build[g] # "ready" \/ retiring[g] \/ head # rev[g]
    /\ Discard(g, "idle")
    /\ UNCHANGED authority

\* The build takes longer than the deadline, or the authority is not read.
PassFails(g) ==
    /\ slot[g] = "candidate"
    /\ publisher \in {"waiting", "checking"}
    /\ failures < MaxFailures
    /\ failures' = failures + 1
    /\ Discard(g, "idle")
    /\ UNCHANGED head

CheckHead(g) ==
    /\ slot[g] = "candidate"
    /\ publisher = "checking"
    /\ build[g] = "ready" /\ ~ retiring[g]
    /\ head = rev[g]
    /\ publisher' = "publishing"
    /\ UNCHANGED <<authority, manager, resource, tasks, continuation, requests, shutdown>>

\* Wrong: a candidate is published although the process is being withdrawn.
WrongMayPublish(g) ==
    /\ InSlot("current") = {} \/ Cardinality(InSlot("retired")) < MaxRetired
    /\ build[g] = "ready"
    /\ rev[g] > Loaded

\* The checks of publish_candidate and of install.
MayPublish(g) ==
    /\ ~ closed
    /\ InSlot("current") = {} \/ Cardinality(InSlot("retired")) < MaxRetired
    /\ ~ retiring[g]
    /\ build[g] = "ready"
    /\ rev[g] > Loaded

\* publish_candidate: the gate and the slots change together.
PublishCandidate(g) ==
    /\ slot[g] = "candidate"
    /\ publisher = "publishing"
    /\ MayPublish(g)
    /\ slot' = [h \in Generation |-> CASE h = g -> "current"
                                       [] slot[h] = "current" -> "retired"
                                       [] OTHER -> slot[h]]
    /\ served' = g
    /\ Withdrawn(InSlot("current"))
    /\ publisher' = "idle"
    /\ UNCHANGED <<authority, closed, forcing, rev, build, at, pipeline, producer, cut, sealed,
                   dirty, continuation, requests, shutdown>>

PublishRefused(g) ==
    /\ slot[g] = "candidate"
    /\ publisher = "publishing"
    /\ ~ MayPublish(g)
    /\ Discard(g, "idle")
    /\ UNCHANGED authority

\* A retirement that ran during the withdrawal has removed the candidate.
PassOrphaned ==
    /\ publisher \in {"checking", "publishing"}
    /\ InSlot("candidate") = {}
    /\ publisher' = "idle"
    /\ UNCHANGED <<authority, manager, resource, tasks, continuation, requests, shutdown>>

\* The worker is told to stop, or aborted, at an await.
StopPublisher ==
    /\ phase # "up"
    /\ \/ /\ publisher = "idle"
          /\ publisher' = "stopped"
          /\ UNCHANGED <<manager, resource, tasks, continuation, requests, shutdown>>
       \/ /\ publisher \in {"waiting", "checking"}
          /\ \E g \in InSlot("candidate") : Discard(g, "stopped")
    /\ UNCHANGED authority
-----------------------------------------------------------------------------
\* Retirement (generations.rs, retire; resource.rs, retire_grace), by the
\* retirement worker and later by the shutdown.

\* The steps of a retirement at which its future can be dropped.
Retirement == {"build", "drain", "native", "close", "custody"}

Go(g, step) == at' = [at EXCEPT ![g] = step]

\* begin_retirement and the waiter.
BeginRetirement(g) ==
    /\ g \in Retained
    /\ early \/ phase = "retiring"
    /\ ~ forcing
    /\ retiring[g]
    /\ at[g] = "idle"
    /\ Go(g, "build")
    /\ UNCHANGED <<authority, manager, rev, build, retiring, pipeline, producer, tasks,
                   continuation, requests, publisher, shutdown>>

\* The build has joined; sources are closed before the drain.
RetireBuild(g) ==
    /\ at[g] = "build"
    /\ \/ JoinBuild(g) /\ UNCHANGED at
       \/ /\ Joined(g)
          /\ IF Components(g)
             THEN Go(g, "drain") /\ shut' = [shut EXCEPT ![g] = TRUE]
             ELSE Go(g, "close") /\ UNCHANGED shut
          /\ UNCHANGED <<build, cut, sealed, dirty, continuation, exec, settle>>
    /\ UNCHANGED <<authority, manager, rev, retiring, pipeline, producer, gen, source, custody,
                   publisher, shutdown>>

Draining(g) == at[g] \in {"drain", "join"}

\* poll_joined takes a panicked task out of its set, and then destroys what
\* it returned, which may register compensation.
Reap(r) ==
    /\ exec[r] = "panicked"
    /\ Draining(gen[r])
    /\ exec' = [exec EXCEPT ![r] = "payload"]
    /\ dirty' = [dirty EXCEPT ![gen[r]] = TRUE]
    /\ UNCHANGED <<authority, manager, resource, shut, cut, sealed, continuation, gen, source,
                   settle, custody, publisher, shutdown>>

DropPayload(r) ==
    /\ exec[r] = "payload"
    /\ exec' = [exec EXCEPT ![r] = "gone"]
    /\ Settlement(r)
    /\ UNCHANGED <<authority, manager, resource, tasks, continuation, gen, source, custody,
                   publisher, shutdown>>

\* Wrong: the sets are looked at before the reaped values are destroyed.
WrongFixedPoint(g) == ~ Busy(g)

\* No source, no task, and no reaped value left.
FixedPoint(g) == ~ Busy(g) /\ \A r \in Bound(g) : exec[r] # "payload"

\* Wrong: a task that panicked does not count.
WrongSummary(g) == IF cut[g] THEN "forced" ELSE "clean"

Summary(g) == IF cut[g] THEN "forced" ELSE IF dirty[g] THEN "unclean" ELSE "clean"

\* drain_until: the fixed point seals the pipeline; a forced one ends the
\* graceful retirement.
RetireDrain(g) ==
    /\ at[g] = "drain"
    /\ FixedPoint(g)
    /\ sealed' = [sealed EXCEPT ![g] = TRUE]
    /\ pipeline' = [pipeline EXCEPT ![g] = Summary(g)]
    /\ Go(g, CASE cut[g] -> "idle"
               [] ~ cut[g] /\ producer[g] -> "custody"
               [] OTHER -> "native")
    /\ UNCHANGED <<authority, manager, rev, build, retiring, producer, shut, cut, dirty,
                   continuation, requests, publisher, shutdown>>

\* drain_owned_grace: the worker is joined, the producer closed, and every
\* unresolved publication reconciled.
RetireNative(g) ==
    /\ at[g] = "native"
    /\ \/ /\ native[g] = "running"
          /\ native' = [native EXCEPT ![g] = "joined"]
          /\ UNCHANGED <<marker, producer, at>>
       \/ /\ native[g] = "joined"
          /\ \E r \in marker \cap Bound(g) : marker' = marker \ {r}
          /\ UNCHANGED <<native, producer, at>>
       \/ /\ native[g] = "joined"
          /\ marker \cap Bound(g) = {}
          /\ producer' = [producer EXCEPT ![g] = TRUE]
          /\ Go(g, "custody")
          /\ UNCHANGED <<native, marker>>
    /\ UNCHANGED <<authority, manager, rev, build, retiring, pipeline, tasks, requests,
                   publisher, shutdown>>

\* registration.close of a build that left no application.
CloseRegistration(g) ==
    /\ at[g] = "close"
    /\ producer' = [producer EXCEPT ![g] = TRUE]
    /\ Go(g, "custody")
    /\ UNCHANGED <<authority, manager, rev, build, retiring, pipeline, tasks, continuation,
                   requests, publisher, shutdown>>

\* Wrong: the entries of the registry are not counted.
WrongReclaimable(g) ==
    Joined(g) /\ producer[g] /\ (Components(g) => ~ Busy(g) /\ served # g)

\* The report's barriers; retired_quiescent looks at the gate once more.
Reclaimable(g) ==
    /\ Joined(g)
    /\ producer[g]
    /\ Bound(g) \cap custody = {}
    /\ Components(g) => ~ Busy(g) /\ served # g

RetireReport(g) ==
    /\ at[g] = "custody"
    /\ Reclaimable(g)
    /\ Go(g, "remove")
    /\ UNCHANGED <<authority, manager, rev, build, retiring, pipeline, producer, tasks,
                   continuation, requests, publisher, shutdown>>

\* The manager's own checks, under its lock.
MayRemove(g) == ~ forcing /\ (slot[g] # "current" \/ closed)

Remove(g) ==
    /\ at[g] = "remove"
    /\ slot' = IF MayRemove(g) THEN [slot EXCEPT ![g] = "reclaimed"] ELSE slot
    /\ Go(g, "idle")
    /\ UNCHANGED <<authority, closed, forcing, served, rev, build, retiring, pipeline, producer,
                   tasks, continuation, requests, publisher, shutdown>>

\* The deadline of the attempt, an error, or the force signal: the waiter is
\* dropped, and everything else stays where it is.
GiveUp(g) ==
    /\ at[g] \in Retirement
    /\ \A r \in Bound(g) : exec[r] # "payload"
    /\ Go(g, "idle")
    /\ UNCHANGED <<authority, manager, rev, build, retiring, pipeline, producer, tasks,
                   continuation, requests, publisher, shutdown>>

-----------------------------------------------------------------------------
\* The shutdown (lifecycle.rs, shutdown_until).

\* begin and the start of grace: the gate and the generations are withdrawn,
\* the early workers told to stop, the owner withdrawn in the database,
\* whatever comes of it, and the transport told to stop.
Begin ==
    /\ head <= LastStop
    /\ phase = "up"
    /\ phase' = "draining"
    /\ closed' = TRUE
    /\ served' = None
    /\ Withdrawn(Retained)
    /\ transport' = "stopping"
    /\ UNCHANGED <<authority, slot, forcing, rev, build, at, pipeline, producer, cut, sealed,
                   dirty, continuation, requests, publisher, early, external, attempts>>

NoPayload == \A r \in Request : exec[r] # "payload"

\* Every retirement under way is cancelled where it waits.
Cancelled == [g \in Generation |-> IF at[g] \in Retirement THEN "idle" ELSE at[g]]

StopEarly ==
    /\ phase # "up"
    /\ early
    /\ NoPayload /\ \A g \in Generation : at[g] # "remove"
    /\ early' = FALSE
    /\ at' = Cancelled
    /\ UNCHANGED <<authority, manager, rev, build, retiring, pipeline, producer, tasks,
                   continuation, requests, publisher, transport, external, phase, attempts>>

TransportJoins ==
    /\ transport \in {"stopping", "forced"}
    /\ source = {}
    /\ transport' = "joined"
    /\ UNCHANGED <<authority, manager, resource, tasks, continuation, requests, publisher, early,
                   external, phase, attempts>>

EarlyJoined == publisher = "stopped" /\ ~ early

\* join_early, and the attempts that the shutdown will wait for.
JoinEarly ==
    /\ phase = "draining"
    /\ EarlyJoined
    /\ phase' = "retiring"
    /\ attempts' = {g \in Retained : retiring[g]}
    /\ UNCHANGED <<authority, manager, resource, tasks, continuation, requests, publisher, early,
                   transport, external>>

GraceEnds ==
    /\ phase = "retiring"
    /\ \A g \in attempts : slot[g] = "reclaimed"
    /\ transport = "joined"
    /\ phase' = "late"
    /\ UNCHANGED <<authority, manager, resource, tasks, continuation, requests, publisher, early,
                   transport, external, attempts>>

\* The last outbox pass, the heartbeat and the exporter.
LatePass ==
    /\ phase = "late"
    /\ phase' = "over"
    /\ UNCHANGED <<authority, manager, resource, tasks, continuation, requests, publisher, early,
                   transport, external, attempts>>

\* The deadline, an error or a second signal: grace is cancelled where it waits
\* and the force is broadcast to the transport, the generations and the workers.
ForceShutdown ==
    /\ phase \in {"draining", "retiring", "late"}
    /\ phase = "retiring" => NoPayload /\ \A g \in Generation : at[g] # "remove"
    /\ phase' = "forced"
    /\ forcing' = TRUE
    /\ transport' = IF transport = "joined" THEN transport ELSE "forced"
    /\ at' = IF phase = "retiring" THEN Cancelled ELSE at
    /\ ForceComponents({g \in Retained : Components(g)}, FALSE)
    /\ UNCHANGED <<authority, slot, closed, served, rev, build, retiring, pipeline, producer,
                   sealed, dirty, marker, gen, source, custody, publisher, early, external,
                   attempts>>

\* force_pipelines, once the transport has joined.
ForcePipelines ==
    /\ phase = "forced"
    /\ transport = "joined"
    /\ ~ external
    /\ external' = TRUE
    /\ ForceComponents({g \in Retained : Components(g)}, TRUE)
    /\ UNCHANGED <<authority, manager, resource, sealed, dirty, marker, gen, source, custody,
                   publisher, early, transport, phase, attempts>>

\* Wrong: a forced shutdown also waits for durable state that only a graceful
\* retirement resolves.
WrongQuiescent(g) ==
    /\ Joined(g) /\ producer[g]
    /\ at[g] = "idle"
    /\ Bound(g) \cap source = {}
    /\ Components(g) => pipeline[g] # None /\ ~ Busy(g) /\ native[g] = "joined"

\* is_quiescent of a forced report.
Quiescent(g) ==
    /\ Joined(g)
    /\ at[g] = "idle"
    /\ Bound(g) \cap source = {}
    /\ Components(g) => pipeline[g] # None /\ ~ Busy(g) /\ native[g] = "joined"

\* join_forced of a resource, unless another waiter is still there.
JoinForced(g) ==
    /\ phase = "forced"
    /\ g \in Retained
    /\ ~ Quiescent(g)
    /\ at[g] = "idle"
    /\ Go(g, "forced")
    /\ UNCHANGED <<authority, manager, rev, build, retiring, pipeline, producer, tasks,
                   continuation, requests, publisher, shutdown>>

ForcedBuild(g) ==
    /\ at[g] = "forced"
    /\ \/ JoinBuild(g) /\ UNCHANGED at
       \/ /\ Joined(g)
          /\ Go(g, IF Components(g) THEN "join" ELSE "idle")
          /\ IF Components(g) THEN ForceComponents({g}, external)
             ELSE UNCHANGED <<shut, cut, native, exec, settle>>
          /\ UNCHANGED <<build, sealed, dirty, marker>>
    /\ UNCHANGED <<authority, manager, rev, retiring, pipeline, producer, gen, source, custody,
                   publisher, shutdown>>

\* join_forced_owned: the aborted worker has ended.
ForcedNative(g) ==
    /\ at[g] = "join"
    /\ native[g] = "forced"
    /\ native' = [native EXCEPT ![g] = "joined"]
    /\ UNCHANGED <<authority, manager, resource, tasks, marker, requests, publisher, shutdown>>

\* join_forced of the pipeline, after the force that the transport's end allows.
ForcedDrain(g) ==
    /\ at[g] = "join"
    /\ external /\ cut[g]
    /\ native[g] = "joined"
    /\ FixedPoint(g)
    /\ sealed' = [sealed EXCEPT ![g] = TRUE]
    /\ pipeline' = [pipeline EXCEPT ![g] = Summary(g)]
    /\ Go(g, "idle")
    /\ UNCHANGED <<authority, manager, rev, build, retiring, producer, shut, cut, dirty,
                   continuation, requests, publisher, shutdown>>

ForceEnds ==
    /\ phase = "forced"
    /\ \A g \in Retained : Quiescent(g)
    /\ publisher = "stopped" /\ ~ early
    /\ transport = "joined"
    /\ phase' = "over"
    /\ UNCHANGED <<authority, manager, resource, tasks, continuation, requests, publisher, early,
                   transport, external, attempts>>

Ended == phase = "over" /\ UNCHANGED vars

-----------------------------------------------------------------------------
Next ==
    \/ Advance \/ StopPublisher \/ PassOrphaned
    \/ Begin \/ StopEarly \/ TransportJoins \/ JoinEarly
    \/ GraceEnds \/ LatePass \/ ForceShutdown \/ ForcePipelines \/ ForceEnds \/ Ended
    \/ \E r \in Request :
          \/ Acquire(r) \/ SpawnExecution(r) \/ Publish(r)
          \/ EndExecution(r) \/ PanicExecution(r) \/ DestroyExecution(r)
          \/ EndSettlement(r) \/ DestroySettlement(r) \/ Release(r)
          \/ ReconcileCustody(r) \/ ReconcileMarker(r)
          \/ Reap(r) \/ DropPayload(r)
    \/ \E g \in Generation :
          \/ StartCandidate(g) \/ FinishBuild(g) \/ WaitCandidate(g)
          \/ Outdated(g) \/ PassFails(g) \/ CheckHead(g)
          \/ PublishCandidate(g) \/ PublishRefused(g)
          \/ BeginRetirement(g) \/ RetireBuild(g) \/ RetireDrain(g)
          \/ RetireNative(g) \/ CloseRegistration(g)
          \/ RetireReport(g) \/ Remove(g) \/ GiveUp(g)
          \/ JoinForced(g) \/ ForcedBuild(g) \/ ForcedNative(g) \/ ForcedDrain(g)

Spec == Init /\ [][Next]_vars

-----------------------------------------------------------------------------
\* Properties.

\* The gate only shows the manager's current generation, which takes requests
\* and is not being retired; after the withdrawal it shows none (http.rs,
\* install and withdraw; generations.rs, publish_candidate).
ServedIsCurrent ==
    /\ served # None => slot[served] = "current" /\ ~ retiring[served] /\ ~ shut[served]
    /\ closed => served = None

\* A generation is given up (generations.rs, retire) only when its build has
\* joined, no request bound to it has anything left in the process, and its
\* continuation worker and producer are closed.
ReclaimedIsIdle ==
    \A g \in InSlot("reclaimed") :
        /\ Joined(g) /\ served # g /\ producer[g]
        /\ Components(g) => native[g] = "joined"
        /\ \A r \in Bound(g) :
              /\ r \notin source \cup custody \cup marker
              /\ {exec[r], settle[r]} \cap (Pending \cup {"payload"}) = {}

\* Nothing is registered with a pipeline after its drain has ended
\* (owned_tasks.rs, poll_joined): its summary is complete.
SealedIsComplete ==
    \A g \in Generation : sealed[g] => FixedPoint(g)

\* Once a pipeline is forced (owned_tasks.rs, force and spawn) none of its work
\* is polled again, work that its destruction registers included; and a build
\* that returns after the force is forced as well (resource.rs, poll_build).
ForceIsSticky ==
    /\ \A r \in Request :
          gen[r] # None /\ cut[gen[r]] => exec[r] # "running" /\ settle[r] # "running"
    /\ forcing => \A g \in Retained : Components(g) => shut[g] /\ native[g] \in {"forced", "joined"}

\* The reports of the retirements are clean (lifecycle.rs, report).
Clean ==
    /\ phase = "over" /\ ~ forcing
    /\ \A g \in attempts : build[g] = "ready" /\ pipeline[g] = "clean"

\* What the shutdown reports is true (lifecycle.rs, report).  Quiescent: no
\* worker, source, task, build or continuation worker of any generation is
\* left.  Clean: nothing is lost either; every generation is reclaimed, no
\* custody and no publication is unresolved, and all work of the generations
\* that were alive when the shutdown began has finished.
ReportIsTrue ==
    /\ phase = "over" =>
        /\ publisher = "stopped" /\ ~ early /\ transport = "joined"
        /\ source = {}
        /\ \A r \in Request : {exec[r], settle[r]} \cap (Pending \cup {"payload"}) = {}
        /\ \A g \in Generation : slot[g] # "unmade" =>
              Joined(g) /\ (Components(g) => native[g] = "joined")
    /\ Clean =>
        /\ custody = {} /\ marker = {} /\ Retained = {}
        /\ \A r \in Request :
              gen[r] \in attempts => {exec[r], settle[r]} \subseteq {"none", "joined"}

-----------------------------------------------------------------------------
\* Every task that can run is run, an aborted one ends, requests end, and
\* deadlines pass.  Nothing is promised about the settlement of custody.
Scheduled ==
    /\ WF_vars(StopPublisher) /\ WF_vars(PassOrphaned) /\ WF_vars(StopEarly)
    /\ WF_vars(TransportJoins) /\ WF_vars(ForceShutdown) /\ WF_vars(ForcePipelines)
    /\ WF_vars(ForceEnds) /\ WF_vars(LatePass)
    /\ \A r \in Request :
          /\ WF_vars(EndExecution(r) \/ PanicExecution(r) \/ DestroyExecution(r))
          /\ WF_vars(EndSettlement(r) \/ DestroySettlement(r))
          /\ WF_vars(Release(r))
          /\ WF_vars(Reap(r) \/ DropPayload(r))
    /\ \A g \in Generation :
          /\ WF_vars(StartCandidate(g)) /\ WF_vars(FinishBuild(g))
          /\ WF_vars(WaitCandidate(g) \/ Outdated(g) \/ CheckHead(g))
          /\ WF_vars(PublishCandidate(g) \/ PublishRefused(g))
          /\ WF_vars(BeginRetirement(g) \/ RetireBuild(g) \/ RetireDrain(g) \/ RetireNative(g)
                     \/ CloseRegistration(g) \/ RetireReport(g) \/ Remove(g))
          /\ WF_vars(forcing /\ GiveUp(g))
          /\ WF_vars(JoinForced(g) \/ ForcedBuild(g) \/ ForcedNative(g) \/ ForcedDrain(g))

\* In the end every pass of the retirement is given the time that it needs.
FairSpec ==
    /\ Spec
    /\ Scheduled
    /\ <>[][\A g \in Generation : GiveUp(g) => forcing]_vars

\* A shutdown that has begun ends, gracefully or forced (lifecycle.rs,
\* shutdown_until): no join waits for ever on another.
ShutdownEnds == phase = "draining" ~> phase = "over"

\* The budget is used up by retired generations each of which still has an
\* entry in the custody registry.
Stuck ==
    /\ Cardinality(InSlot("retired")) = MaxRetired
    /\ \A g \in InSlot("retired") : Bound(g) \cap custody # {}

\* The process comes to serve the last published authority (publication.rs,
\* run), unless it stops: neither a failed pass nor a late build keeps the
\* candidate's slot, and the retired generations give theirs back.  The one
\* exception is custody that the store never settles (ownership.rs, reconcile):
\* a generation with such an entry is not reclaimed (resource.rs, retire_grace).
Converges == <>[](Loaded = head \/ closed \/ Stuck)
=============================================================================
