---------------------- MODULE GenerationLifecycleProofs ----------------------
(***************************************************************************)
(* What GenerationLifecycle guarantees for every number of requests and    *)
(* generations, every budget of retired ones and every moment at which the *)
(* process is told to stop or is forced.                                   *)
(*                                                                         *)
(* None of the properties is inductive by itself.  Lifecycle says, for     *)
(* each generation, which barrier its retirement or its forced join has    *)
(* passed (the holder of the waiter in at[g]) and what that implies for    *)
(* the pipeline, the continuation worker and the producer; for each        *)
(* request, what it may still own in the generation it is bound to; and    *)
(* for the process, what each stage of the shutdown has waited for.        *)
(*                                                                         *)
(* One lemma per action shows that it keeps Lifecycle, one step per        *)
(* conjunct; the properties follow from Lifecycle.                         *)
(***************************************************************************)
EXTENDS GenerationLifecycle, Integers, TLAPS, FiniteSetTheorems

\* The types of the variables.
Types ==
    /\ head \in 1..MaxRevision
    /\ failures \in 0..MaxFailures
    /\ slot \in [Generation -> {"unmade", "candidate", "current", "retired", "reclaimed"}]
    /\ closed \in BOOLEAN /\ forcing \in BOOLEAN
    /\ served \in Generation \cup {None}
    /\ rev \in [Generation -> 0..MaxRevision]
    /\ build \in [Generation -> {"none", "running", "built", "unbound", "broken",
                                 "ready", "snapshotless", "failed"}]
    /\ retiring \in [Generation -> BOOLEAN]
    /\ at \in [Generation -> {"idle", "publish", "build", "drain", "native",
                              "close", "custody", "remove", "forced", "join"}]
    /\ pipeline \in [Generation -> {None, "clean", "unclean", "forced"}]
    /\ producer \in [Generation -> BOOLEAN]
    /\ shut \in [Generation -> BOOLEAN] /\ cut \in [Generation -> BOOLEAN]
    /\ sealed \in [Generation -> BOOLEAN] /\ dirty \in [Generation -> BOOLEAN]
    /\ native \in [Generation -> {"running", "forced", "joined"}]
    /\ marker \in SUBSET Request
    /\ gen \in [Request -> Generation \cup {None}]
    /\ source \in SUBSET Request
    /\ exec \in [Request -> TaskState] /\ settle \in [Request -> TaskState]
    /\ custody \in SUBSET Request
    /\ publisher \in {"idle", "waiting", "checking", "publishing", "stopped"}
    /\ early \in BOOLEAN
    /\ transport \in {"open", "stopping", "forced", "joined"}
    /\ external \in BOOLEAN
    /\ phase \in {"up", "draining", "retiring", "late", "forced", "over"}
    /\ attempts \in SUBSET Generation

\* At most one candidate and one current generation, and a bounded number of
\* retired ones; an unmade generation has no build.
SlotInv ==
    /\ \A g, h \in Generation :
          slot[g] \in {"candidate", "current"} /\ slot[h] = slot[g] => g = h
    /\ Cardinality(InSlot("retired")) <= MaxRetired
    /\ \A g \in Generation : slot[g] = "unmade" => build[g] = "none"

\* What the gate shows.
ServedInv ==
    /\ served # None =>
          /\ slot[served] = "current" /\ build[served] = "ready"
          /\ ~ retiring[served] /\ ~ shut[served]
    /\ closed => served = None

\* The stages of the shutdown; from its begin on everything is retired.
StageInv ==
    /\ closed <=> phase # "up"
    /\ phase \in {"up", "draining", "retiring", "late"} => ~ forcing
    /\ phase = "forced" => forcing
    /\ closed => \A g \in Retained : retiring[g]

\* The holder of the waiter of g, and what it has reached.
WaiterInv(g) ==
    /\ at[g] # "idle" => g \in Retained
    /\ at[g] \in Retirement \cup {"remove"} => retiring[g]
    /\ at[g] \in {"forced", "join"} => forcing
    /\ at[g] \in {"drain", "native", "join"} => shut[g] /\ Components(g)
    /\ at[g] = "native" => sealed[g]
    /\ at[g] = "close" => build[g] = "failed"

\* The pipeline of g: closed before it is forced or sealed.
PipelineInv(g) ==
    /\ shut[g] => retiring[g]
    /\ cut[g] \/ sealed[g] => shut[g]
    /\ pipeline[g] # None <=> sealed[g]
    /\ pipeline[g] = "clean" => ~ dirty[g]
    /\ forcing /\ g \in Retained /\ Components(g) =>
          shut[g] /\ native[g] \in {"forced", "joined"}

\* The barriers that retirement has passed.
BarrierInv(g) ==
    /\ producer[g] =>
          \/ build[g] = "failed"
          \/ Components(g) /\ native[g] = "joined" /\ sealed[g]
    /\ at[g] = "remove" \/ slot[g] = "reclaimed" => producer[g]

\* The work of r, in the generation that it is bound to.
WorkInv(r) ==
    /\ settle[r] \notin {"panicked", "payload"}
    /\ gen[r] = None =>
          r \notin source \cup custody \cup marker /\ exec[r] = "none" /\ settle[r] = "none"
    /\ gen[r] # None =>
          /\ build[gen[r]] = "ready"
          /\ cut[gen[r]] => exec[r] # "running" /\ settle[r] # "running"
          /\ sealed[gen[r]] =>
                /\ r \notin source
                /\ exec[r] \notin Pending \cup {"payload"}
                /\ settle[r] \notin Pending
          /\ exec[r] \in {"gone", "payload"} \/ settle[r] = "gone" => dirty[gen[r]]
          /\ producer[gen[r]] => r \notin marker
          /\ at[gen[r]] = "remove" \/ slot[gen[r]] = "reclaimed" => r \notin custody

\* What the shutdown has waited for.
EndInv ==
    /\ transport = "joined" => source = {}
    /\ phase \in {"retiring", "late", "over"} => publisher = "stopped" /\ ~ early
    /\ phase \in {"retiring", "late"} => Retained \subseteq attempts
    /\ phase \in {"late", "over"} => transport = "joined"
    /\ phase = "late" \/ (phase = "over" /\ ~ forcing) => Retained = {}
    /\ phase = "over" => \A g \in Retained :
          /\ at[g] = "idle" /\ Joined(g)
          /\ Components(g) => sealed[g] /\ native[g] = "joined"

\* The inductive invariant.
Lifecycle ==
    /\ Types /\ SlotInv /\ ServedInv /\ StageInv /\ EndInv
    /\ \A g \in Generation : WaiterInv(g) /\ PipelineInv(g) /\ BarrierInv(g)
    /\ \A r \in Request : WorkInv(r)

-----------------------------------------------------------------------------
\* acquire_request binds a request to a generation that takes requests.
LEMMA AcquireKeeps ==
    ASSUME Lifecycle, NEW r \in Request, Acquire(r)
    PROVE  Lifecycle'
<1>1. /\ Types /\ SlotInv /\ ServedInv /\ StageInv /\ EndInv
      /\ \A h \in Generation : WaiterInv(h) /\ PipelineInv(h) /\ BarrierInv(h)
      /\ \A s \in Request : WorkInv(s)
    BY DEF Lifecycle
<1>2. UNCHANGED <<head, failures, slot, closed, forcing, served, rev, build,
                  retiring, at, pipeline, producer, shut, cut, sealed, dirty,
                  native, marker, exec, settle, publisher, early, transport,
                  external, phase, attempts>>
    BY DEF Acquire, authority, manager, resource, tasks, continuation, requests, shutdown
<1>3. /\ served \in Generation /\ build[served] = "ready"
      /\ ~ cut[served] /\ ~ sealed[served] /\ ~ producer[served]
      /\ at[served] # "remove" /\ slot[served] # "reclaimed"
    BY <1>1, <1>2 DEF Acquire, Types, ServedInv, PipelineInv, BarrierInv, WaiterInv
<1>4. Types'
    BY <1>1, <1>2, <1>3 DEF Types, Acquire
<1>5. /\ SlotInv'
      /\ ServedInv'
      /\ StageInv'
      /\ \A h \in Generation : WaiterInv(h)'
      /\ \A h \in Generation : PipelineInv(h)'
      /\ \A h \in Generation : BarrierInv(h)'
    BY <1>1, <1>2
       DEF SlotInv, InSlot, ServedInv, StageInv, Retained, WaiterInv, Retirement,
           Components, PipelineInv, BarrierInv
<1>6. ASSUME NEW s \in Request
      PROVE  WorkInv(s)'
    BY <1>1, <1>2, <1>3 DEF Types, WorkInv, Pending, Live, Acquire
<1>7. EndInv'
    BY <1>1, <1>2, <1>3 DEF EndInv, Retained, Components, Joined, Acquire
<1>8. QED
    BY <1>4, <1>5, <1>6, <1>7 DEF Lifecycle

\* spawn: the execution of a request is registered, or discarded.
LEMMA SpawnExecutionKeeps ==
    ASSUME Lifecycle, NEW r \in Request, SpawnExecution(r)
    PROVE  Lifecycle'
<1>1. /\ Types /\ SlotInv /\ ServedInv /\ StageInv /\ EndInv
      /\ \A h \in Generation : WaiterInv(h) /\ PipelineInv(h) /\ BarrierInv(h)
      /\ \A s \in Request : WorkInv(s)
    BY DEF Lifecycle
<1>2. UNCHANGED <<head, failures, slot, closed, forcing, served, rev, build,
                  retiring, at, pipeline, producer, shut, cut, sealed, dirty,
                  native, marker, gen, source, settle, custody, publisher, early,
                  transport, external, phase, attempts>>
    BY DEF SpawnExecution, authority, manager, resource, tasks, continuation, requests,
           shutdown
<1>3. Types'
    BY <1>1, <1>2 DEF Types, SpawnExecution, TaskState, Spawned, Pending, Live
<1>4. /\ SlotInv'
      /\ ServedInv'
      /\ StageInv'
      /\ \A h \in Generation : WaiterInv(h)'
      /\ \A h \in Generation : PipelineInv(h)'
      /\ \A h \in Generation : BarrierInv(h)'
      /\ EndInv'
    BY <1>1, <1>2
       DEF SlotInv, InSlot, ServedInv, StageInv, Retained, WaiterInv, Retirement,
           Components, PipelineInv, BarrierInv, EndInv, Joined
<1>5. ASSUME NEW s \in Request
      PROVE  WorkInv(s)'
    BY <1>1, <1>2 DEF Types, WorkInv, Pending, Live, SpawnExecution, Spawned
<1>6. QED
    BY <1>3, <1>4, <1>5 DEF Lifecycle

\* A running execution reserves a publication; its producer is open.
LEMMA PublishKeeps ==
    ASSUME Lifecycle, NEW r \in Request, Publish(r)
    PROVE  Lifecycle'
<1>1. /\ Types /\ SlotInv /\ ServedInv /\ StageInv /\ EndInv
      /\ \A h \in Generation : WaiterInv(h) /\ PipelineInv(h) /\ BarrierInv(h)
      /\ \A s \in Request : WorkInv(s)
    BY DEF Lifecycle
<1>2. UNCHANGED <<head, failures, slot, closed, forcing, served, rev, build,
                  retiring, at, pipeline, producer, shut, cut, sealed, dirty,
                  native, gen, source, exec, settle, custody, publisher, early,
                  transport, external, phase, attempts>>
    BY DEF Publish, authority, manager, resource, tasks, continuation, requests, shutdown
<1>3. gen[r] \in Generation /\ ~ producer[gen[r]]
    BY <1>1, <1>2 DEF Publish, Types, WorkInv, BarrierInv
<1>4. Types'
    BY <1>1, <1>2, <1>3 DEF Types, Publish
<1>5. /\ SlotInv'
      /\ ServedInv'
      /\ StageInv'
      /\ \A h \in Generation : WaiterInv(h)'
      /\ \A h \in Generation : PipelineInv(h)'
      /\ \A h \in Generation : BarrierInv(h)'
      /\ EndInv'
    BY <1>1, <1>2
       DEF SlotInv, InSlot, ServedInv, StageInv, Retained, WaiterInv, Retirement,
           Components, PipelineInv, BarrierInv, EndInv, Joined
<1>6. ASSUME NEW s \in Request
      PROVE  WorkInv(s)'
    BY <1>1, <1>2, <1>3 DEF Types, WorkInv, Pending, Live, Publish
<1>7. QED
    BY <1>4, <1>5, <1>6 DEF Lifecycle

\* An execution ends, and may register its settlement.
LEMMA EndExecutionKeeps ==
    ASSUME Lifecycle, NEW r \in Request, EndExecution(r)
    PROVE  Lifecycle'
<1>1. /\ Types /\ SlotInv /\ ServedInv /\ StageInv /\ EndInv
      /\ \A h \in Generation : WaiterInv(h) /\ PipelineInv(h) /\ BarrierInv(h)
      /\ \A s \in Request : WorkInv(s)
    BY DEF Lifecycle
<1>2. UNCHANGED <<head, failures, slot, closed, forcing, served, rev, build,
                  retiring, at, pipeline, producer, shut, cut, sealed, dirty,
                  native, gen, source, custody, publisher, early, transport,
                  external, phase, attempts>>
    BY DEF EndExecution, Settlement, authority, manager, resource, tasks, continuation,
           requests, shutdown
<1>3. Types'
    BY <1>1, <1>2 DEF Types, EndExecution, Settlement, TaskState, Spawned, Pending, Live
<1>4. /\ SlotInv'
      /\ ServedInv'
      /\ StageInv'
      /\ \A h \in Generation : WaiterInv(h)'
      /\ \A h \in Generation : PipelineInv(h)'
      /\ \A h \in Generation : BarrierInv(h)'
      /\ EndInv'
    BY <1>1, <1>2
       DEF SlotInv, InSlot, ServedInv, StageInv, Retained, WaiterInv, Retirement,
           Components, PipelineInv, BarrierInv, EndInv, Joined
<1>5. ASSUME NEW s \in Request
      PROVE  WorkInv(s)'
    BY <1>1, <1>2 DEF Types, WorkInv, Pending, Live, EndExecution, Settlement, Spawned
<1>6. QED
    BY <1>3, <1>4, <1>5 DEF Lifecycle

\* An execution panics and stays in its set.
LEMMA PanicExecutionKeeps ==
    ASSUME Lifecycle, NEW r \in Request, PanicExecution(r)
    PROVE  Lifecycle'
<1>1. /\ Types /\ SlotInv /\ ServedInv /\ StageInv /\ EndInv
      /\ \A h \in Generation : WaiterInv(h) /\ PipelineInv(h) /\ BarrierInv(h)
      /\ \A s \in Request : WorkInv(s)
    BY DEF Lifecycle
<1>2. UNCHANGED <<head, failures, slot, closed, forcing, served, rev, build,
                  retiring, at, pipeline, producer, shut, cut, sealed, dirty,
                  native, marker, gen, source, settle, custody, publisher, early,
                  transport, external, phase, attempts>>
    BY DEF PanicExecution, authority, manager, resource, tasks, continuation, requests,
           shutdown
<1>3. Types'
    BY <1>1, <1>2 DEF Types, PanicExecution, TaskState, Pending, Live
<1>4. /\ SlotInv'
      /\ ServedInv'
      /\ StageInv'
      /\ \A h \in Generation : WaiterInv(h)'
      /\ \A h \in Generation : PipelineInv(h)'
      /\ \A h \in Generation : BarrierInv(h)'
      /\ EndInv'
    BY <1>1, <1>2
       DEF SlotInv, InSlot, ServedInv, StageInv, Retained, WaiterInv, Retirement,
           Components, PipelineInv, BarrierInv, EndInv, Joined
<1>5. ASSUME NEW s \in Request
      PROVE  WorkInv(s)'
    BY <1>1, <1>2 DEF Types, WorkInv, Pending, Live, PanicExecution
<1>6. QED
    BY <1>3, <1>4, <1>5 DEF Lifecycle

\* An aborted execution is destroyed before the pipeline is sealed.
LEMMA DestroyExecutionKeeps ==
    ASSUME Lifecycle, NEW r \in Request, DestroyExecution(r)
    PROVE  Lifecycle'
<1>1. /\ Types /\ SlotInv /\ ServedInv /\ StageInv /\ EndInv
      /\ \A h \in Generation : WaiterInv(h) /\ PipelineInv(h) /\ BarrierInv(h)
      /\ \A s \in Request : WorkInv(s)
    BY DEF Lifecycle
<1>2. UNCHANGED <<head, failures, slot, closed, forcing, served, rev, build,
                  retiring, at, pipeline, producer, shut, cut, sealed, native,
                  marker, gen, source, custody, publisher, early, transport,
                  external, phase, attempts>>
    BY DEF DestroyExecution, Settlement, authority, manager, resource, tasks,
           continuation, requests, shutdown
<1>3. /\ gen[r] \in Generation /\ ~ sealed[gen[r]]
      /\ pipeline[gen[r]] = None
    BY <1>1, <1>2 DEF DestroyExecution, Types, WorkInv, PipelineInv, Pending, Live
<1>4. Types'
    BY <1>1, <1>2, <1>3
       DEF Types, DestroyExecution, Settlement, TaskState, Spawned, Pending, Live
<1>5. /\ SlotInv'
      /\ ServedInv'
      /\ StageInv'
      /\ \A h \in Generation : WaiterInv(h)'
      /\ \A h \in Generation : BarrierInv(h)'
      /\ EndInv'
    BY <1>1, <1>2
       DEF SlotInv, InSlot, ServedInv, StageInv, Retained, WaiterInv, Retirement,
           Components, BarrierInv, EndInv, Joined
<1>6. ASSUME NEW h \in Generation
      PROVE  PipelineInv(h)'
    BY <1>1, <1>2, <1>3, LifecycleAssumption
       DEF Types, PipelineInv, Retained, Components, DestroyExecution, Settlement
<1>7. ASSUME NEW s \in Request
      PROVE  WorkInv(s)'
    BY <1>1, <1>2, <1>3
       DEF Types, WorkInv, Pending, Live, DestroyExecution, Settlement, Spawned
<1>8. QED
    BY <1>4, <1>5, <1>6, <1>7 DEF Lifecycle

\* A settlement ends.
LEMMA EndSettlementKeeps ==
    ASSUME Lifecycle, NEW r \in Request, EndSettlement(r)
    PROVE  Lifecycle'
<1>1. /\ Types /\ SlotInv /\ ServedInv /\ StageInv /\ EndInv
      /\ \A h \in Generation : WaiterInv(h) /\ PipelineInv(h) /\ BarrierInv(h)
      /\ \A s \in Request : WorkInv(s)
    BY DEF Lifecycle
<1>2. UNCHANGED <<head, failures, slot, closed, forcing, served, rev, build,
                  retiring, at, pipeline, producer, shut, cut, sealed, dirty,
                  native, marker, gen, source, exec, custody, publisher, early,
                  transport, external, phase, attempts>>
    BY DEF EndSettlement, authority, manager, resource, tasks, continuation, requests,
           shutdown
<1>3. Types'
    BY <1>1, <1>2 DEF Types, EndSettlement, TaskState, Pending, Live
<1>4. /\ SlotInv'
      /\ ServedInv'
      /\ StageInv'
      /\ \A h \in Generation : WaiterInv(h)'
      /\ \A h \in Generation : PipelineInv(h)'
      /\ \A h \in Generation : BarrierInv(h)'
      /\ EndInv'
    BY <1>1, <1>2
       DEF SlotInv, InSlot, ServedInv, StageInv, Retained, WaiterInv, Retirement,
           Components, PipelineInv, BarrierInv, EndInv, Joined
<1>5. ASSUME NEW s \in Request
      PROVE  WorkInv(s)'
    BY <1>1, <1>2 DEF Types, WorkInv, Pending, Live, EndSettlement
<1>6. QED
    BY <1>3, <1>4, <1>5 DEF Lifecycle

\* An aborted settlement is destroyed before the pipeline is sealed.
LEMMA DestroySettlementKeeps ==
    ASSUME Lifecycle, NEW r \in Request, DestroySettlement(r)
    PROVE  Lifecycle'
<1>1. /\ Types /\ SlotInv /\ ServedInv /\ StageInv /\ EndInv
      /\ \A h \in Generation : WaiterInv(h) /\ PipelineInv(h) /\ BarrierInv(h)
      /\ \A s \in Request : WorkInv(s)
    BY DEF Lifecycle
<1>2. UNCHANGED <<head, failures, slot, closed, forcing, served, rev, build,
                  retiring, at, pipeline, producer, shut, cut, sealed, native,
                  marker, gen, source, exec, custody, publisher, early, transport,
                  external, phase, attempts>>
    BY DEF DestroySettlement, authority, manager, resource, tasks, continuation, requests,
           shutdown
<1>3. /\ gen[r] \in Generation /\ ~ sealed[gen[r]]
      /\ pipeline[gen[r]] = None
    BY <1>1, <1>2 DEF DestroySettlement, Types, WorkInv, PipelineInv, Pending, Live
<1>4. Types'
    BY <1>1, <1>2, <1>3 DEF Types, DestroySettlement, TaskState, Pending, Live
<1>5. /\ SlotInv'
      /\ ServedInv'
      /\ StageInv'
      /\ \A h \in Generation : WaiterInv(h)'
      /\ \A h \in Generation : BarrierInv(h)'
      /\ EndInv'
    BY <1>1, <1>2
       DEF SlotInv, InSlot, ServedInv, StageInv, Retained, WaiterInv, Retirement,
           Components, BarrierInv, EndInv, Joined
<1>6. ASSUME NEW h \in Generation
      PROVE  PipelineInv(h)'
    BY <1>1, <1>2, <1>3, LifecycleAssumption
       DEF Types, PipelineInv, Retained, Components, DestroySettlement
<1>7. ASSUME NEW s \in Request
      PROVE  WorkInv(s)'
    BY <1>1, <1>2, <1>3 DEF Types, WorkInv, Pending, Live, DestroySettlement
<1>8. QED
    BY <1>4, <1>5, <1>6, <1>7 DEF Lifecycle

\* The response body is destroyed.
LEMMA ReleaseKeeps ==
    ASSUME Lifecycle, NEW r \in Request, Release(r)
    PROVE  Lifecycle'
<1>1. /\ Types /\ SlotInv /\ ServedInv /\ StageInv /\ EndInv
      /\ \A h \in Generation : WaiterInv(h) /\ PipelineInv(h) /\ BarrierInv(h)
      /\ \A s \in Request : WorkInv(s)
    BY DEF Lifecycle
<1>2. UNCHANGED <<head, failures, slot, closed, forcing, served, rev, build,
                  retiring, at, pipeline, producer, shut, cut, sealed, dirty,
                  native, marker, gen, exec, settle, custody, publisher, early,
                  transport, external, phase, attempts>>
    BY DEF Release, authority, manager, resource, tasks, continuation, requests, shutdown
<1>3. Types'
    BY <1>1, <1>2 DEF Types, Release
<1>4. /\ SlotInv'
      /\ ServedInv'
      /\ StageInv'
      /\ \A h \in Generation : WaiterInv(h)'
      /\ \A h \in Generation : PipelineInv(h)'
      /\ \A h \in Generation : BarrierInv(h)'
    BY <1>1, <1>2
       DEF SlotInv, InSlot, ServedInv, StageInv, Retained, WaiterInv, Retirement,
           Components, PipelineInv, BarrierInv
<1>5. ASSUME NEW s \in Request
      PROVE  WorkInv(s)'
    BY <1>1, <1>2 DEF Types, WorkInv, Pending, Live, Release
<1>6. EndInv'
    BY <1>1, <1>2 DEF EndInv, Retained, Components, Joined, Release
<1>7. QED
    BY <1>3, <1>4, <1>5, <1>6 DEF Lifecycle

\* reconcile_one closes an entry that nothing holds.
LEMMA ReconcileCustodyKeeps ==
    ASSUME Lifecycle, NEW r \in Request, ReconcileCustody(r)
    PROVE  Lifecycle'
<1>1. /\ Types /\ SlotInv /\ ServedInv /\ StageInv /\ EndInv
      /\ \A h \in Generation : WaiterInv(h) /\ PipelineInv(h) /\ BarrierInv(h)
      /\ \A s \in Request : WorkInv(s)
    BY DEF Lifecycle
<1>2. UNCHANGED <<head, failures, slot, closed, forcing, served, rev, build,
                  retiring, at, pipeline, producer, shut, cut, sealed, dirty,
                  native, marker, gen, source, exec, settle, publisher, early,
                  transport, external, phase, attempts>>
    BY DEF ReconcileCustody, authority, manager, resource, tasks, continuation, requests,
           shutdown
<1>3. Types'
    BY <1>1, <1>2 DEF Types, ReconcileCustody
<1>4. /\ SlotInv'
      /\ ServedInv'
      /\ StageInv'
      /\ \A h \in Generation : WaiterInv(h)'
      /\ \A h \in Generation : PipelineInv(h)'
      /\ \A h \in Generation : BarrierInv(h)'
      /\ EndInv'
    BY <1>1, <1>2
       DEF SlotInv, InSlot, ServedInv, StageInv, Retained, WaiterInv, Retirement,
           Components, PipelineInv, BarrierInv, EndInv, Joined
<1>5. ASSUME NEW s \in Request
      PROVE  WorkInv(s)'
    BY <1>1, <1>2 DEF Types, WorkInv, Pending, Live, ReconcileCustody
<1>6. QED
    BY <1>3, <1>4, <1>5 DEF Lifecycle

\* The continuation worker compensates a publication.
LEMMA ReconcileMarkerKeeps ==
    ASSUME Lifecycle, NEW r \in Request, ReconcileMarker(r)
    PROVE  Lifecycle'
<1>1. /\ Types /\ SlotInv /\ ServedInv /\ StageInv /\ EndInv
      /\ \A h \in Generation : WaiterInv(h) /\ PipelineInv(h) /\ BarrierInv(h)
      /\ \A s \in Request : WorkInv(s)
    BY DEF Lifecycle
<1>2. UNCHANGED <<head, failures, slot, closed, forcing, served, rev, build,
                  retiring, at, pipeline, producer, shut, cut, sealed, dirty,
                  native, gen, source, exec, settle, custody, publisher, early,
                  transport, external, phase, attempts>>
    BY DEF ReconcileMarker, authority, manager, resource, tasks, continuation, requests,
           shutdown
<1>3. Types'
    BY <1>1, <1>2 DEF Types, ReconcileMarker
<1>4. /\ SlotInv'
      /\ ServedInv'
      /\ StageInv'
      /\ \A h \in Generation : WaiterInv(h)'
      /\ \A h \in Generation : PipelineInv(h)'
      /\ \A h \in Generation : BarrierInv(h)'
      /\ EndInv'
    BY <1>1, <1>2
       DEF SlotInv, InSlot, ServedInv, StageInv, Retained, WaiterInv, Retirement,
           Components, PipelineInv, BarrierInv, EndInv, Joined
<1>5. ASSUME NEW s \in Request
      PROVE  WorkInv(s)'
    BY <1>1, <1>2 DEF Types, WorkInv, Pending, Live, ReconcileMarker
<1>6. QED
    BY <1>3, <1>4, <1>5 DEF Lifecycle

\* The drain takes a panicked task out of its set.
LEMMA ReapKeeps ==
    ASSUME Lifecycle, NEW r \in Request, Reap(r)
    PROVE  Lifecycle'
<1>1. /\ Types /\ SlotInv /\ ServedInv /\ StageInv /\ EndInv
      /\ \A h \in Generation : WaiterInv(h) /\ PipelineInv(h) /\ BarrierInv(h)
      /\ \A s \in Request : WorkInv(s)
    BY DEF Lifecycle
<1>2. UNCHANGED <<head, failures, slot, closed, forcing, served, rev, build,
                  retiring, at, pipeline, producer, shut, cut, sealed, native,
                  marker, gen, source, settle, custody, publisher, early, transport,
                  external, phase, attempts>>
    BY DEF Reap, authority, manager, resource, tasks, continuation, requests, shutdown
<1>3. /\ gen[r] \in Generation /\ ~ sealed[gen[r]]
      /\ pipeline[gen[r]] = None
    BY <1>1, <1>2 DEF Reap, Types, WorkInv, PipelineInv, Pending, Live
<1>4. Types'
    BY <1>1, <1>2, <1>3 DEF Types, Reap, TaskState, Pending, Live
<1>5. /\ SlotInv'
      /\ ServedInv'
      /\ StageInv'
      /\ \A h \in Generation : WaiterInv(h)'
      /\ \A h \in Generation : BarrierInv(h)'
      /\ EndInv'
    BY <1>1, <1>2
       DEF SlotInv, InSlot, ServedInv, StageInv, Retained, WaiterInv, Retirement,
           Components, BarrierInv, EndInv, Joined
<1>6. ASSUME NEW h \in Generation
      PROVE  PipelineInv(h)'
    BY <1>1, <1>2, <1>3, LifecycleAssumption
       DEF Types, PipelineInv, Retained, Components, Reap
<1>7. ASSUME NEW s \in Request
      PROVE  WorkInv(s)'
    BY <1>1, <1>2, <1>3 DEF Types, WorkInv, Pending, Live, Reap, Draining
<1>8. QED
    BY <1>4, <1>5, <1>6, <1>7 DEF Lifecycle

\* What a panicked task returned is destroyed.
LEMMA DropPayloadKeeps ==
    ASSUME Lifecycle, NEW r \in Request, DropPayload(r)
    PROVE  Lifecycle'
<1>1. /\ Types /\ SlotInv /\ ServedInv /\ StageInv /\ EndInv
      /\ \A h \in Generation : WaiterInv(h) /\ PipelineInv(h) /\ BarrierInv(h)
      /\ \A s \in Request : WorkInv(s)
    BY DEF Lifecycle
<1>2. UNCHANGED <<head, failures, slot, closed, forcing, served, rev, build,
                  retiring, at, pipeline, producer, shut, cut, sealed, dirty,
                  native, marker, gen, source, custody, publisher, early, transport,
                  external, phase, attempts>>
    BY DEF DropPayload, Settlement, authority, manager, resource, tasks, continuation,
           requests, shutdown
<1>3. Types'
    BY <1>1, <1>2 DEF Types, DropPayload, Settlement, TaskState, Spawned, Pending, Live
<1>4. /\ SlotInv'
      /\ ServedInv'
      /\ StageInv'
      /\ \A h \in Generation : WaiterInv(h)'
      /\ \A h \in Generation : PipelineInv(h)'
      /\ \A h \in Generation : BarrierInv(h)'
      /\ EndInv'
    BY <1>1, <1>2
       DEF SlotInv, InSlot, ServedInv, StageInv, Retained, WaiterInv, Retirement,
           Components, PipelineInv, BarrierInv, EndInv, Joined
<1>5. ASSUME NEW s \in Request
      PROVE  WorkInv(s)'
    BY <1>1, <1>2 DEF Types, WorkInv, Pending, Live, DropPayload, Settlement, Spawned
<1>6. QED
    BY <1>3, <1>4, <1>5 DEF Lifecycle

-----------------------------------------------------------------------------
\* The slots are finitely many.
LEMMA SlotsAreFinite ==
    ASSUME NEW S \in SUBSET Generation
    PROVE  IsFiniteSet(S) /\ Cardinality(S) \in Nat
<1>1. IsFiniteSet(1..MaxBuilds)
    BY FS_Interval, LifecycleAssumption
<1>2. QED
    BY <1>1, FS_Subset, FS_CardinalityType DEF Generation

\* The budget of retired generations is kept when none is added.
LEMMA BudgetStays ==
    ASSUME NEW S \in SUBSET Generation, NEW T \in SUBSET S, Cardinality(S) <= MaxRetired
    PROVE  Cardinality(T) <= MaxRetired
<1>1. IsFiniteSet(S) /\ Cardinality(S) \in Nat /\ Cardinality(T) \in Nat
    BY SlotsAreFinite
<1>2. Cardinality(T) <= Cardinality(S)
    BY <1>1, FS_Subset
<1>3. QED
    BY <1>1, <1>2, LifecycleAssumption

\* A new authority is published.
LEMMA AdvanceKeeps ==
    ASSUME Lifecycle, Advance
    PROVE  Lifecycle'
<1>1. /\ Types /\ SlotInv /\ ServedInv /\ StageInv /\ EndInv
      /\ \A h \in Generation : WaiterInv(h) /\ PipelineInv(h) /\ BarrierInv(h)
      /\ \A s \in Request : WorkInv(s)
    BY DEF Lifecycle
<1>2. UNCHANGED <<failures, slot, closed, forcing, served, rev, build, retiring, at,
                  pipeline, producer, shut, cut, sealed, dirty, native, marker, gen,
                  source, exec, settle, custody, publisher, early, transport,
                  external, phase, attempts>>
    BY DEF Advance, authority, manager, resource, tasks, continuation, requests, shutdown
<1>3. Types'
    BY <1>1, <1>2, LifecycleAssumption DEF Types, Advance
<1>4. /\ SlotInv'
      /\ ServedInv'
      /\ StageInv'
      /\ \A h \in Generation : WaiterInv(h)'
      /\ \A h \in Generation : PipelineInv(h)'
      /\ \A h \in Generation : BarrierInv(h)'
      /\ \A s \in Request : WorkInv(s)'
      /\ EndInv'
    BY <1>1, <1>2
       DEF SlotInv, InSlot, ServedInv, StageInv, Retained, WaiterInv, Retirement,
           Components, PipelineInv, BarrierInv, WorkInv, Pending, Live, EndInv, Joined
<1>5. QED
    BY <1>3, <1>4 DEF Lifecycle

\* The transport joins when no source is left.
LEMMA TransportJoinsKeeps ==
    ASSUME Lifecycle, TransportJoins
    PROVE  Lifecycle'
<1>1. /\ Types /\ SlotInv /\ ServedInv /\ StageInv /\ EndInv
      /\ \A h \in Generation : WaiterInv(h) /\ PipelineInv(h) /\ BarrierInv(h)
      /\ \A s \in Request : WorkInv(s)
    BY DEF Lifecycle
<1>2. UNCHANGED <<head, failures, slot, closed, forcing, served, rev, build,
                  retiring, at, pipeline, producer, shut, cut, sealed, dirty,
                  native, marker, gen, source, exec, settle, custody, publisher,
                  early, external, phase, attempts>>
    BY DEF TransportJoins, authority, manager, resource, tasks, continuation, requests,
           shutdown
<1>3. Types'
    BY <1>1, <1>2 DEF Types, TransportJoins
<1>4. /\ SlotInv'
      /\ ServedInv'
      /\ StageInv'
      /\ \A h \in Generation : WaiterInv(h)'
      /\ \A h \in Generation : PipelineInv(h)'
      /\ \A h \in Generation : BarrierInv(h)'
      /\ \A s \in Request : WorkInv(s)'
    BY <1>1, <1>2
       DEF SlotInv, InSlot, ServedInv, StageInv, Retained, WaiterInv, Retirement,
           Components, PipelineInv, BarrierInv, WorkInv, Pending, Live
<1>5. EndInv'
    BY <1>1, <1>2 DEF EndInv, Retained, Components, Joined, TransportJoins
<1>6. QED
    BY <1>3, <1>4, <1>5 DEF Lifecycle

\* join_early: what the shutdown retires is everything that is retained.
LEMMA JoinEarlyKeeps ==
    ASSUME Lifecycle, JoinEarly
    PROVE  Lifecycle'
<1>1. /\ Types /\ SlotInv /\ ServedInv /\ StageInv /\ EndInv
      /\ \A h \in Generation : WaiterInv(h) /\ PipelineInv(h) /\ BarrierInv(h)
      /\ \A s \in Request : WorkInv(s)
    BY DEF Lifecycle
<1>2. UNCHANGED <<head, failures, slot, closed, forcing, served, rev, build,
                  retiring, at, pipeline, producer, shut, cut, sealed, dirty,
                  native, marker, gen, source, exec, settle, custody, publisher,
                  early, transport, external>>
    BY DEF JoinEarly, authority, manager, resource, tasks, continuation, requests,
           shutdown
<1>3. Types'
    BY <1>1, <1>2 DEF Types, JoinEarly, Retained
<1>4. /\ SlotInv'
      /\ ServedInv'
      /\ \A h \in Generation : WaiterInv(h)'
      /\ \A h \in Generation : PipelineInv(h)'
      /\ \A h \in Generation : BarrierInv(h)'
      /\ \A s \in Request : WorkInv(s)'
    BY <1>1, <1>2
       DEF SlotInv, InSlot, ServedInv, WaiterInv, Retained, Retirement, Components,
           PipelineInv, BarrierInv, WorkInv, Pending, Live
<1>5. StageInv'
    BY <1>1, <1>2 DEF StageInv, Retained, JoinEarly
<1>6. EndInv'
    BY <1>1, <1>2
       DEF EndInv, Retained, Components, Joined, JoinEarly, EarlyJoined, StageInv,
           WaiterInv
<1>7. QED
    BY <1>3, <1>4, <1>5, <1>6 DEF Lifecycle

\* Every attempt of the shutdown has been reclaimed.
LEMMA GraceEndsKeeps ==
    ASSUME Lifecycle, GraceEnds
    PROVE  Lifecycle'
<1>1. /\ Types /\ SlotInv /\ ServedInv /\ StageInv /\ EndInv
      /\ \A h \in Generation : WaiterInv(h) /\ PipelineInv(h) /\ BarrierInv(h)
      /\ \A s \in Request : WorkInv(s)
    BY DEF Lifecycle
<1>2. UNCHANGED <<head, failures, slot, closed, forcing, served, rev, build,
                  retiring, at, pipeline, producer, shut, cut, sealed, dirty,
                  native, marker, gen, source, exec, settle, custody, publisher,
                  early, transport, external, attempts>>
    BY DEF GraceEnds, authority, manager, resource, tasks, continuation, requests,
           shutdown
<1>3. Types'
    BY <1>1, <1>2 DEF Types, GraceEnds
<1>4. /\ SlotInv'
      /\ ServedInv'
      /\ \A h \in Generation : WaiterInv(h)'
      /\ \A h \in Generation : PipelineInv(h)'
      /\ \A h \in Generation : BarrierInv(h)'
      /\ \A s \in Request : WorkInv(s)'
    BY <1>1, <1>2
       DEF SlotInv, InSlot, ServedInv, WaiterInv, Retained, Retirement, Components,
           PipelineInv, BarrierInv, WorkInv, Pending, Live
<1>5. StageInv'
    BY <1>1, <1>2 DEF StageInv, Retained, GraceEnds
<1>6. EndInv'
    BY <1>1, <1>2 DEF EndInv, Retained, Components, Joined, GraceEnds
<1>7. QED
    BY <1>3, <1>4, <1>5, <1>6 DEF Lifecycle

\* The last pass ends a graceful shutdown.
LEMMA LatePassKeeps ==
    ASSUME Lifecycle, LatePass
    PROVE  Lifecycle'
<1>1. /\ Types /\ SlotInv /\ ServedInv /\ StageInv /\ EndInv
      /\ \A h \in Generation : WaiterInv(h) /\ PipelineInv(h) /\ BarrierInv(h)
      /\ \A s \in Request : WorkInv(s)
    BY DEF Lifecycle
<1>2. UNCHANGED <<head, failures, slot, closed, forcing, served, rev, build,
                  retiring, at, pipeline, producer, shut, cut, sealed, dirty,
                  native, marker, gen, source, exec, settle, custody, publisher,
                  early, transport, external, attempts>>
    BY DEF LatePass, authority, manager, resource, tasks, continuation, requests, shutdown
<1>3. Types'
    BY <1>1, <1>2 DEF Types, LatePass
<1>4. /\ SlotInv'
      /\ ServedInv'
      /\ \A h \in Generation : WaiterInv(h)'
      /\ \A h \in Generation : PipelineInv(h)'
      /\ \A h \in Generation : BarrierInv(h)'
      /\ \A s \in Request : WorkInv(s)'
    BY <1>1, <1>2
       DEF SlotInv, InSlot, ServedInv, WaiterInv, Retained, Retirement, Components,
           PipelineInv, BarrierInv, WorkInv, Pending, Live
<1>5. StageInv'
    BY <1>1, <1>2 DEF StageInv, Retained, LatePass
<1>6. EndInv'
    BY <1>1, <1>2 DEF EndInv, Retained, Components, Joined, LatePass, StageInv
<1>7. QED
    BY <1>3, <1>4, <1>5, <1>6 DEF Lifecycle

\* The early workers end; their retirements are cancelled where they wait.
LEMMA StopEarlyKeeps ==
    ASSUME Lifecycle, StopEarly
    PROVE  Lifecycle'
<1>1. /\ Types /\ SlotInv /\ ServedInv /\ StageInv /\ EndInv
      /\ \A h \in Generation : WaiterInv(h) /\ PipelineInv(h) /\ BarrierInv(h)
      /\ \A s \in Request : WorkInv(s)
    BY DEF Lifecycle
<1>2. UNCHANGED <<head, failures, slot, closed, forcing, served, rev, build,
                  retiring, pipeline, producer, shut, cut, sealed, dirty, native,
                  marker, gen, source, exec, settle, custody, publisher, transport,
                  external, phase, attempts>>
    BY DEF StopEarly, Cancelled, authority, manager, resource, tasks, continuation,
           requests, shutdown
<1>3. /\ at' = [h \in Generation |-> IF at[h] \in Retirement THEN "idle" ELSE at[h]]
      /\ early' = FALSE
    BY DEF StopEarly, Cancelled
<1>4. early' \in BOOLEAN
    BY <1>1, <1>2, <1>3
<1>5. at' \in [Generation -> {"idle", "publish", "build", "drain", "native",
                              "close", "custody", "remove", "forced", "join"}]
    BY <1>1, <1>2, <1>3, <1>4 DEF Types
<1>6. \A h \in Generation : at'[h] \in {at[h], "idle"} /\ (at'[h] = at[h] \/ at[h] # "idle")
    BY <1>1, <1>2, <1>3, <1>4, <1>5 DEF Retirement
<1>7. Types'
    BY <1>1, <1>2, <1>4, <1>5 DEF Types
<1>8. /\ SlotInv'
      /\ ServedInv'
      /\ StageInv'
      /\ \A h \in Generation : PipelineInv(h)'
    BY <1>1, <1>2
       DEF SlotInv, InSlot, ServedInv, StageInv, Retained, PipelineInv, Components
<1>9. ASSUME NEW h \in Generation
      PROVE  WaiterInv(h)'
    BY <1>1, <1>2, <1>3, <1>4, <1>5, <1>6
       DEF Types, WaiterInv, Retained, Retirement, Components
<1>10. ASSUME NEW h \in Generation
       PROVE  BarrierInv(h)'
    BY <1>1, <1>2, <1>3, <1>4, <1>5, <1>6 DEF Types, BarrierInv, Components
<1>11. ASSUME NEW s \in Request
       PROVE  WorkInv(s)'
    BY <1>1, <1>2, <1>3, <1>4, <1>5, <1>6 DEF Types, WorkInv, Pending, Live
<1>12. EndInv'
    BY <1>1, <1>2, <1>3, <1>4, <1>5, <1>6 DEF EndInv, Retained, Components, Joined
<1>13. QED
    BY <1>7, <1>8, <1>9, <1>10, <1>11, <1>12 DEF Lifecycle

\* A forced shutdown ends when every retained generation is quiescent.
LEMMA ForceEndsKeeps ==
    ASSUME Lifecycle, ForceEnds
    PROVE  Lifecycle'
<1>1. /\ Types /\ SlotInv /\ ServedInv /\ StageInv /\ EndInv
      /\ \A h \in Generation : WaiterInv(h) /\ PipelineInv(h) /\ BarrierInv(h)
      /\ \A s \in Request : WorkInv(s)
    BY DEF Lifecycle
<1>2. UNCHANGED <<head, failures, slot, closed, forcing, served, rev, build,
                  retiring, at, pipeline, producer, shut, cut, sealed, dirty,
                  native, marker, gen, source, exec, settle, custody, publisher,
                  early, transport, external, attempts>>
    BY DEF ForceEnds, authority, manager, resource, tasks, continuation, requests,
           shutdown
<1>3. Types'
    BY <1>1, <1>2 DEF Types, ForceEnds
<1>4. /\ SlotInv'
      /\ ServedInv'
      /\ \A h \in Generation : WaiterInv(h)'
      /\ \A h \in Generation : PipelineInv(h)'
      /\ \A h \in Generation : BarrierInv(h)'
      /\ \A s \in Request : WorkInv(s)'
    BY <1>1, <1>2
       DEF SlotInv, InSlot, ServedInv, WaiterInv, Retained, Retirement, Components,
           PipelineInv, BarrierInv, WorkInv, Pending, Live
<1>5. StageInv'
    BY <1>1, <1>2 DEF StageInv, Retained, ForceEnds
<1>6. EndInv'
    BY <1>1, <1>2
       DEF EndInv, Retained, Components, Joined, ForceEnds, Quiescent, StageInv,
           PipelineInv
<1>7. QED
    BY <1>3, <1>4, <1>5, <1>6 DEF Lifecycle

\* The publication worker finds its candidate removed.
LEMMA PassOrphanedKeeps ==
    ASSUME Lifecycle, PassOrphaned
    PROVE  Lifecycle'
<1>1. /\ Types /\ SlotInv /\ ServedInv /\ StageInv /\ EndInv
      /\ \A h \in Generation : WaiterInv(h) /\ PipelineInv(h) /\ BarrierInv(h)
      /\ \A s \in Request : WorkInv(s)
    BY DEF Lifecycle
<1>2. UNCHANGED <<head, failures, slot, closed, forcing, served, rev, build,
                  retiring, at, pipeline, producer, shut, cut, sealed, dirty,
                  native, marker, gen, source, exec, settle, custody, early,
                  transport, external, phase, attempts>>
    BY DEF PassOrphaned, authority, manager, resource, tasks, continuation, requests,
           shutdown
<1>3. Types'
    BY <1>1, <1>2 DEF Types, PassOrphaned
<1>4. /\ SlotInv'
      /\ ServedInv'
      /\ StageInv'
      /\ \A h \in Generation : WaiterInv(h)'
      /\ \A h \in Generation : PipelineInv(h)'
      /\ \A h \in Generation : BarrierInv(h)'
      /\ \A s \in Request : WorkInv(s)'
    BY <1>1, <1>2
       DEF SlotInv, InSlot, ServedInv, StageInv, Retained, WaiterInv, Retirement,
           Components, PipelineInv, BarrierInv, WorkInv, Pending, Live
<1>5. EndInv'
    BY <1>1, <1>2 DEF EndInv, Retained, Components, Joined, PassOrphaned
<1>6. QED
    BY <1>3, <1>4, <1>5 DEF Lifecycle

\* start_candidate makes the one candidate.
LEMMA StartCandidateKeeps ==
    ASSUME Lifecycle, NEW g \in Generation, StartCandidate(g)
    PROVE  Lifecycle'
<1>1. /\ Types /\ SlotInv /\ ServedInv /\ StageInv /\ EndInv
      /\ \A h \in Generation : WaiterInv(h) /\ PipelineInv(h) /\ BarrierInv(h)
      /\ \A s \in Request : WorkInv(s)
    BY DEF Lifecycle
<1>2. UNCHANGED <<head, failures, closed, forcing, served, retiring, pipeline,
                  producer, shut, cut, sealed, dirty, native, marker, gen, source,
                  exec, settle, custody, early, transport, external, phase, attempts>>
    BY DEF StartCandidate, CanBuild, authority, manager, resource, tasks, continuation,
           requests, shutdown
<1>3. build[g] = "none" /\ ~ producer[g] /\ slot[g] = "unmade" /\ ~ closed
    BY <1>1, <1>2 DEF SlotInv, BarrierInv, StartCandidate, Components, CanBuild
<1>4. InSlot("retired")' \subseteq InSlot("retired") /\ InSlot("retired") \subseteq Generation
    BY <1>1, <1>2, <1>3 DEF InSlot, StartCandidate, Types
<1>5. \A h \in Generation :
          /\ slot[h] # "candidate"
          /\ slot'[h] = IF h = g THEN "candidate" ELSE slot[h]
          /\ build'[h] = IF h = g THEN "running" ELSE build[h]
    BY <1>1, <1>2, <1>3, <1>4 DEF InSlot, StartCandidate, CanBuild, Types
<1>6. Cardinality(InSlot("retired")') <= MaxRetired
    BY <1>1, <1>2, <1>3, <1>4, <1>5, BudgetStays DEF SlotInv
<1>7. Types'
    BY <1>1, <1>2, <1>3, <1>4, <1>5, <1>6 DEF Types, StartCandidate, CanBuild
<1>8. SlotInv'
    BY <1>1, <1>2, <1>3, <1>4, <1>5, <1>6 DEF SlotInv, InSlot, StartCandidate, CanBuild
<1>9. ServedInv'
    BY <1>1, <1>2, <1>3, <1>4, <1>5, <1>6 DEF ServedInv, StartCandidate, CanBuild
<1>10. StageInv'
    BY <1>1, <1>2, <1>3, <1>4, <1>5, <1>6 DEF StageInv, Retained, StartCandidate, CanBuild
<1>11. ASSUME NEW h \in Generation
       PROVE  WaiterInv(h)'
    BY <1>1, <1>2, <1>3, <1>4, <1>5, <1>6
       DEF Types, WaiterInv, Retained, Retirement, Components, StartCandidate, CanBuild
<1>12. ASSUME NEW h \in Generation
       PROVE  PipelineInv(h)'
    BY <1>1, <1>2, <1>3, <1>4, <1>5, <1>6, LifecycleAssumption
       DEF Types, PipelineInv, Retained, Components, StartCandidate, CanBuild
<1>13. ASSUME NEW h \in Generation
       PROVE  BarrierInv(h)'
    BY <1>1, <1>2, <1>3, <1>4, <1>5, <1>6
       DEF Types, BarrierInv, Components, StartCandidate, CanBuild
<1>14. ASSUME NEW s \in Request
       PROVE  WorkInv(s)'
    BY <1>1, <1>2, <1>3, <1>4, <1>5, <1>6
       DEF Types, WorkInv, Pending, Live, StartCandidate, CanBuild
<1>15. EndInv'
    BY <1>1, <1>2, <1>3, <1>4, <1>5, <1>6
       DEF EndInv, Retained, Components, Joined, StartCandidate, CanBuild
<1>16. QED
    BY <1>7, <1>8, <1>9, <1>10, <1>11, <1>12, <1>13, <1>14, <1>15 DEF Lifecycle

\* The build task returns.
LEMMA FinishBuildKeeps ==
    ASSUME Lifecycle, NEW g \in Generation, FinishBuild(g)
    PROVE  Lifecycle'
<1>1. /\ Types /\ SlotInv /\ ServedInv /\ StageInv /\ EndInv
      /\ \A h \in Generation : WaiterInv(h) /\ PipelineInv(h) /\ BarrierInv(h)
      /\ \A s \in Request : WorkInv(s)
    BY DEF Lifecycle
<1>2. UNCHANGED <<head, slot, closed, forcing, served, rev, retiring, at, pipeline,
                  producer, shut, cut, sealed, dirty, native, marker, gen, source,
                  exec, settle, custody, publisher, early, transport, external,
                  phase, attempts>>
    BY DEF FinishBuild, authority, manager, resource, tasks, continuation, requests,
           shutdown
<1>3. Types'
    BY <1>1, <1>2, LifecycleAssumption DEF Types, FinishBuild
<1>4. StageInv'
    BY <1>1, <1>2 DEF StageInv, Retained
<1>5. SlotInv'
    BY <1>1, <1>2 DEF SlotInv, InSlot, FinishBuild
<1>6. ServedInv'
    BY <1>1, <1>2 DEF ServedInv, FinishBuild
<1>7. ASSUME NEW h \in Generation
      PROVE  WaiterInv(h)'
    BY <1>1, <1>2 DEF Types, WaiterInv, Retained, Retirement, Components, FinishBuild
<1>8. ASSUME NEW h \in Generation
      PROVE  PipelineInv(h)'
    BY <1>1, <1>2, LifecycleAssumption
       DEF Types, PipelineInv, Retained, Components, FinishBuild
<1>9. ASSUME NEW h \in Generation
      PROVE  BarrierInv(h)'
    BY <1>1, <1>2 DEF Types, BarrierInv, Components, FinishBuild
<1>10. ASSUME NEW s \in Request
       PROVE  WorkInv(s)'
    BY <1>1, <1>2 DEF Types, WorkInv, Pending, Live, FinishBuild
<1>11. EndInv'
    BY <1>1, <1>2 DEF EndInv, Retained, Components, Joined, FinishBuild
<1>12. QED
    BY <1>3, <1>4, <1>5, <1>6, <1>7, <1>8, <1>9, <1>10, <1>11 DEF Lifecycle

\* The candidate is still the head.
LEMMA CheckHeadKeeps ==
    ASSUME Lifecycle, NEW g \in Generation, CheckHead(g)
    PROVE  Lifecycle'
<1>1. /\ Types /\ SlotInv /\ ServedInv /\ StageInv /\ EndInv
      /\ \A h \in Generation : WaiterInv(h) /\ PipelineInv(h) /\ BarrierInv(h)
      /\ \A s \in Request : WorkInv(s)
    BY DEF Lifecycle
<1>2. UNCHANGED <<head, failures, slot, closed, forcing, served, rev, build,
                  retiring, at, pipeline, producer, shut, cut, sealed, dirty,
                  native, marker, gen, source, exec, settle, custody, early,
                  transport, external, phase, attempts>>
    BY DEF CheckHead, authority, manager, resource, tasks, continuation, requests,
           shutdown
<1>3. Types'
    BY <1>1, <1>2 DEF Types, CheckHead
<1>4. /\ SlotInv'
      /\ ServedInv'
      /\ StageInv'
      /\ \A h \in Generation : WaiterInv(h)'
      /\ \A h \in Generation : PipelineInv(h)'
      /\ \A h \in Generation : BarrierInv(h)'
      /\ \A s \in Request : WorkInv(s)'
    BY <1>1, <1>2
       DEF SlotInv, InSlot, ServedInv, StageInv, Retained, WaiterInv, Retirement,
           Components, PipelineInv, BarrierInv, WorkInv, Pending, Live
<1>5. EndInv'
    BY <1>1, <1>2 DEF EndInv, Retained, Components, Joined, CheckHead
<1>6. QED
    BY <1>3, <1>4, <1>5 DEF Lifecycle

\* begin_retirement takes the waiter.
LEMMA BeginRetirementKeeps ==
    ASSUME Lifecycle, NEW g \in Generation, BeginRetirement(g)
    PROVE  Lifecycle'
<1>1. /\ Types /\ SlotInv /\ ServedInv /\ StageInv /\ EndInv
      /\ \A h \in Generation : WaiterInv(h) /\ PipelineInv(h) /\ BarrierInv(h)
      /\ \A s \in Request : WorkInv(s)
    BY DEF Lifecycle
<1>2. UNCHANGED <<head, failures, slot, closed, forcing, served, rev, build,
                  retiring, pipeline, producer, shut, cut, sealed, dirty, native,
                  marker, gen, source, exec, settle, custody, publisher, early,
                  transport, external, phase, attempts>>
    BY DEF BeginRetirement, Go, authority, manager, resource, tasks, continuation,
           requests, shutdown
<1>3. Types'
    BY <1>1, <1>2 DEF Types, BeginRetirement, Go
<1>4. /\ SlotInv'
      /\ ServedInv'
      /\ StageInv'
      /\ \A h \in Generation : PipelineInv(h)'
    BY <1>1, <1>2
       DEF SlotInv, InSlot, ServedInv, StageInv, Retained, PipelineInv, Components
<1>5. ASSUME NEW h \in Generation
      PROVE  WaiterInv(h)'
    BY <1>1, <1>2
       DEF Types, WaiterInv, Retained, Retirement, Components, BeginRetirement, Go
<1>6. ASSUME NEW h \in Generation
      PROVE  BarrierInv(h)'
    BY <1>1, <1>2 DEF Types, BarrierInv, Components, BeginRetirement, Go
<1>7. ASSUME NEW s \in Request
      PROVE  WorkInv(s)'
    BY <1>1, <1>2 DEF Types, WorkInv, Pending, Live, BeginRetirement, Go
<1>8. EndInv'
    BY <1>1, <1>2 DEF EndInv, Retained, Components, Joined, BeginRetirement, Go
<1>9. QED
    BY <1>3, <1>4, <1>5, <1>6, <1>7, <1>8 DEF Lifecycle

\* drain_until seals the pipeline at the fixed point.
LEMMA RetireDrainKeeps ==
    ASSUME Lifecycle, NEW g \in Generation, RetireDrain(g)
    PROVE  Lifecycle'
<1>1. /\ Types /\ SlotInv /\ ServedInv /\ StageInv /\ EndInv
      /\ \A h \in Generation : WaiterInv(h) /\ PipelineInv(h) /\ BarrierInv(h)
      /\ \A s \in Request : WorkInv(s)
    BY DEF Lifecycle
<1>2. UNCHANGED <<head, failures, slot, closed, forcing, served, rev, build,
                  retiring, producer, shut, cut, dirty, native, marker, gen, source,
                  exec, settle, custody, publisher, early, transport, external,
                  phase, attempts>>
    BY DEF RetireDrain, Go, authority, manager, resource, tasks, continuation, requests,
           shutdown
<1>3. /\ pipeline'[g] # None /\ sealed'[g] /\ pipeline'[g] \in {"clean", "unclean", "forced"}
      /\ pipeline'[g] = "clean" => ~ dirty[g]
    BY <1>1, <1>2, LifecycleAssumption DEF Types, Summary, RetireDrain
<1>4. \A s \in Request : gen[s] = g =>
          /\ s \notin source /\ exec[s] \notin Pending \cup {"payload"}
          /\ settle[s] \notin Pending
    BY <1>1, <1>2, <1>3 DEF FixedPoint, Busy, Bound, RetireDrain
<1>5. Types'
    BY <1>1, <1>2, <1>3, <1>4 DEF Types, RetireDrain, Go
<1>6. /\ SlotInv'
      /\ ServedInv'
      /\ StageInv'
    BY <1>1, <1>2 DEF SlotInv, InSlot, ServedInv, StageInv, Retained
<1>7. ASSUME NEW h \in Generation
      PROVE  WaiterInv(h)'
    BY <1>1, <1>2, <1>3, <1>4
       DEF Types, WaiterInv, Retained, Retirement, Components, RetireDrain, Go
<1>8. ASSUME NEW h \in Generation
      PROVE  PipelineInv(h)'
    BY <1>1, <1>2, <1>3, <1>4, LifecycleAssumption
       DEF Types, PipelineInv, Retained, Components, RetireDrain, Go, WaiterInv
<1>9. ASSUME NEW h \in Generation
      PROVE  BarrierInv(h)'
    BY <1>1, <1>2, <1>3, <1>4 DEF Types, BarrierInv, Components, RetireDrain, Go
<1>10. ASSUME NEW s \in Request
       PROVE  WorkInv(s)'
    BY <1>1, <1>2, <1>3, <1>4 DEF Types, WorkInv, Pending, Live, RetireDrain, Go
<1>11. EndInv'
    BY <1>1, <1>2, <1>3, <1>4 DEF EndInv, Retained, Components, Joined, RetireDrain, Go
<1>12. QED
    BY <1>5, <1>6, <1>7, <1>8, <1>9, <1>10, <1>11 DEF Lifecycle

\* The registration of a failed build is closed.
LEMMA CloseRegistrationKeeps ==
    ASSUME Lifecycle, NEW g \in Generation, CloseRegistration(g)
    PROVE  Lifecycle'
<1>1. /\ Types /\ SlotInv /\ ServedInv /\ StageInv /\ EndInv
      /\ \A h \in Generation : WaiterInv(h) /\ PipelineInv(h) /\ BarrierInv(h)
      /\ \A s \in Request : WorkInv(s)
    BY DEF Lifecycle
<1>2. UNCHANGED <<head, failures, slot, closed, forcing, served, rev, build,
                  retiring, pipeline, shut, cut, sealed, dirty, native, marker, gen,
                  source, exec, settle, custody, publisher, early, transport,
                  external, phase, attempts>>
    BY DEF CloseRegistration, Go, authority, manager, resource, tasks, continuation,
           requests, shutdown
<1>3. build[g] = "failed"
    BY <1>1, <1>2 DEF CloseRegistration, WaiterInv
<1>4. Types'
    BY <1>1, <1>2, <1>3 DEF Types, CloseRegistration, Go
<1>5. /\ SlotInv'
      /\ ServedInv'
      /\ StageInv'
      /\ \A h \in Generation : PipelineInv(h)'
    BY <1>1, <1>2
       DEF SlotInv, InSlot, ServedInv, StageInv, Retained, PipelineInv, Components
<1>6. ASSUME NEW h \in Generation
      PROVE  WaiterInv(h)'
    BY <1>1, <1>2, <1>3
       DEF Types, WaiterInv, Retained, Retirement, Components, CloseRegistration, Go
<1>7. ASSUME NEW h \in Generation
      PROVE  BarrierInv(h)'
    BY <1>1, <1>2, <1>3 DEF Types, BarrierInv, Components, CloseRegistration, Go
<1>8. ASSUME NEW s \in Request
      PROVE  WorkInv(s)'
    BY <1>1, <1>2, <1>3 DEF Types, WorkInv, Pending, Live, CloseRegistration, Go
<1>9. EndInv'
    BY <1>1, <1>2, <1>3 DEF EndInv, Retained, Components, Joined, CloseRegistration, Go
<1>10. QED
    BY <1>4, <1>5, <1>6, <1>7, <1>8, <1>9 DEF Lifecycle

\* The report's barriers are passed.
LEMMA RetireReportKeeps ==
    ASSUME Lifecycle, NEW g \in Generation, RetireReport(g)
    PROVE  Lifecycle'
<1>1. /\ Types /\ SlotInv /\ ServedInv /\ StageInv /\ EndInv
      /\ \A h \in Generation : WaiterInv(h) /\ PipelineInv(h) /\ BarrierInv(h)
      /\ \A s \in Request : WorkInv(s)
    BY DEF Lifecycle
<1>2. UNCHANGED <<head, failures, slot, closed, forcing, served, rev, build,
                  retiring, pipeline, producer, shut, cut, sealed, dirty, native,
                  marker, gen, source, exec, settle, custody, publisher, early,
                  transport, external, phase, attempts>>
    BY DEF RetireReport, Go, authority, manager, resource, tasks, continuation, requests,
           shutdown
<1>3. Types'
    BY <1>1, <1>2 DEF Types, RetireReport, Go
<1>4. /\ SlotInv'
      /\ ServedInv'
      /\ StageInv'
      /\ \A h \in Generation : PipelineInv(h)'
    BY <1>1, <1>2
       DEF SlotInv, InSlot, ServedInv, StageInv, Retained, PipelineInv, Components
<1>5. ASSUME NEW h \in Generation
      PROVE  WaiterInv(h)'
    BY <1>1, <1>2 DEF Types, WaiterInv, Retained, Retirement, Components, RetireReport, Go
<1>6. ASSUME NEW h \in Generation
      PROVE  BarrierInv(h)'
    BY <1>1, <1>2 DEF Types, BarrierInv, Components, RetireReport, Go, Reclaimable
<1>7. ASSUME NEW s \in Request
      PROVE  WorkInv(s)'
    BY <1>1, <1>2 DEF Types, WorkInv, Pending, Live, RetireReport, Go, Reclaimable, Bound
<1>8. EndInv'
    BY <1>1, <1>2 DEF EndInv, Retained, Components, Joined, RetireReport, Go
<1>9. QED
    BY <1>3, <1>4, <1>5, <1>6, <1>7, <1>8 DEF Lifecycle

\* The manager gives the generation up, or refuses to.
LEMMA RemoveKeeps ==
    ASSUME Lifecycle, NEW g \in Generation, Remove(g)
    PROVE  Lifecycle'
<1>1. /\ Types /\ SlotInv /\ ServedInv /\ StageInv /\ EndInv
      /\ \A h \in Generation : WaiterInv(h) /\ PipelineInv(h) /\ BarrierInv(h)
      /\ \A s \in Request : WorkInv(s)
    BY DEF Lifecycle
<1>2. UNCHANGED <<head, failures, closed, forcing, served, rev, build, retiring,
                  pipeline, producer, shut, cut, sealed, dirty, native, marker, gen,
                  source, exec, settle, custody, publisher, early, transport,
                  external, phase, attempts>>
    BY DEF Remove, Go, authority, manager, resource, tasks, continuation, requests,
           shutdown
<1>3. /\ at[g] = "remove" /\ at' = [at EXCEPT ![g] = "idle"]
      /\ slot' = slot \/ slot' = [slot EXCEPT ![g] = "reclaimed"]
    BY DEF Remove, Go
<1>4. /\ retiring[g] /\ producer[g] /\ served # g
      /\ slot[g] \in {"candidate", "current", "retired"}
    BY <1>1, <1>2, <1>3, LifecycleAssumption
       DEF WaiterInv, BarrierInv, ServedInv, Retained, Types
<1>5. \A h \in Generation : slot'[h] = slot[h] \/ (h = g /\ slot'[h] = "reclaimed")
    BY <1>1, <1>2, <1>3, <1>4 DEF Types
<1>6. InSlot("retired")' \subseteq InSlot("retired") /\ InSlot("retired") \subseteq Generation
    BY <1>1, <1>2, <1>3, <1>4, <1>5 DEF InSlot
<1>7. Cardinality(InSlot("retired")') <= MaxRetired
    BY <1>1, <1>2, <1>3, <1>4, <1>5, <1>6, BudgetStays DEF SlotInv
<1>8. Types'
    BY <1>1, <1>2, <1>3, <1>4, <1>5, <1>6, <1>7 DEF Types
<1>9. SlotInv'
    BY <1>1, <1>2, <1>3, <1>4, <1>5, <1>6, <1>7 DEF SlotInv, InSlot
<1>10. ServedInv'
    BY <1>1, <1>2, <1>3, <1>4, <1>5, <1>6, <1>7 DEF ServedInv, Types
<1>11. StageInv'
    BY <1>1, <1>2, <1>3, <1>4, <1>5, <1>6, <1>7 DEF StageInv, Retained
<1>12. ASSUME NEW h \in Generation
       PROVE  WaiterInv(h)'
    BY <1>1, <1>2, <1>3, <1>4, <1>5, <1>6, <1>7
       DEF Types, WaiterInv, Retained, Retirement, Components
<1>13. ASSUME NEW h \in Generation
       PROVE  PipelineInv(h)'
    BY <1>1, <1>2, <1>3, <1>4, <1>5, <1>6, <1>7, LifecycleAssumption
       DEF Types, PipelineInv, Retained, Components
<1>14. ASSUME NEW h \in Generation
       PROVE  BarrierInv(h)'
    BY <1>1, <1>2, <1>3, <1>4, <1>5, <1>6, <1>7 DEF Types, BarrierInv, Components
<1>15. ASSUME NEW s \in Request
       PROVE  WorkInv(s)'
    BY <1>1, <1>2, <1>3, <1>4, <1>5, <1>6, <1>7 DEF Types, WorkInv, Pending, Live
<1>16. EndInv'
    BY <1>1, <1>2, <1>3, <1>4, <1>5, <1>6, <1>7 DEF EndInv, Retained, Components, Joined
<1>17. QED
    BY <1>8, <1>9, <1>10, <1>11, <1>12, <1>13, <1>14, <1>15, <1>16 DEF Lifecycle

\* A retirement is dropped where it waits.
LEMMA GiveUpKeeps ==
    ASSUME Lifecycle, NEW g \in Generation, GiveUp(g)
    PROVE  Lifecycle'
<1>1. /\ Types /\ SlotInv /\ ServedInv /\ StageInv /\ EndInv
      /\ \A h \in Generation : WaiterInv(h) /\ PipelineInv(h) /\ BarrierInv(h)
      /\ \A s \in Request : WorkInv(s)
    BY DEF Lifecycle
<1>2. UNCHANGED <<head, failures, slot, closed, forcing, served, rev, build,
                  retiring, pipeline, producer, shut, cut, sealed, dirty, native,
                  marker, gen, source, exec, settle, custody, publisher, early,
                  transport, external, phase, attempts>>
    BY DEF GiveUp, Go, authority, manager, resource, tasks, continuation, requests,
           shutdown
<1>3. Types'
    BY <1>1, <1>2 DEF Types, GiveUp, Go
<1>4. /\ SlotInv'
      /\ ServedInv'
      /\ StageInv'
      /\ \A h \in Generation : PipelineInv(h)'
    BY <1>1, <1>2
       DEF SlotInv, InSlot, ServedInv, StageInv, Retained, PipelineInv, Components
<1>5. ASSUME NEW h \in Generation
      PROVE  WaiterInv(h)'
    BY <1>1, <1>2 DEF Types, WaiterInv, Retained, Retirement, Components, GiveUp, Go
<1>6. ASSUME NEW h \in Generation
      PROVE  BarrierInv(h)'
    BY <1>1, <1>2 DEF Types, BarrierInv, Components, GiveUp, Go
<1>7. ASSUME NEW s \in Request
      PROVE  WorkInv(s)'
    BY <1>1, <1>2 DEF Types, WorkInv, Pending, Live, GiveUp, Go
<1>8. EndInv'
    BY <1>1, <1>2 DEF EndInv, Retained, Components, Joined, GiveUp, Go
<1>9. QED
    BY <1>3, <1>4, <1>5, <1>6, <1>7, <1>8 DEF Lifecycle

\* drain_owned_grace: the continuation worker is joined;
LEMMA NativeJoinsKeeps ==
    ASSUME Lifecycle, NEW g \in Generation, at[g] = "native", native[g] = "running",
           native' = [native EXCEPT ![g] = "joined"],
           UNCHANGED <<authority, manager, resource, tasks, marker, requests, publisher,
                       shutdown>>
    PROVE  Lifecycle'
<1>1. /\ Types /\ SlotInv /\ ServedInv /\ StageInv /\ EndInv
      /\ \A h \in Generation : WaiterInv(h) /\ PipelineInv(h) /\ BarrierInv(h)
      /\ \A s \in Request : WorkInv(s)
    BY DEF Lifecycle
<1>2. UNCHANGED <<head, failures, slot, closed, forcing, served, rev, build,
                  retiring, at, pipeline, producer, shut, cut, sealed, dirty,
                  marker, gen, source, exec, settle, custody, publisher, early,
                  transport, external, phase, attempts>>
    BY DEF authority, manager, resource, tasks, continuation, requests, shutdown
<1>3. Types'
    BY <1>1, <1>2 DEF Types
<1>4. /\ SlotInv'
      /\ ServedInv'
      /\ StageInv'
      /\ \A h \in Generation : WaiterInv(h)'
      /\ \A s \in Request : WorkInv(s)'
    BY <1>1, <1>2
       DEF SlotInv, InSlot, ServedInv, StageInv, Retained, WaiterInv, Retirement,
           Components, WorkInv, Pending, Live
<1>5. ASSUME NEW h \in Generation
      PROVE  PipelineInv(h)'
    BY <1>1, <1>2, LifecycleAssumption DEF Types, PipelineInv, Retained, Components
<1>6. ASSUME NEW h \in Generation
      PROVE  BarrierInv(h)'
    BY <1>1, <1>2 DEF Types, BarrierInv, Components
<1>7. EndInv'
    BY <1>1, <1>2 DEF EndInv, Retained, Components, Joined
<1>8. QED
    BY <1>3, <1>4, <1>5, <1>6, <1>7 DEF Lifecycle

\* an unresolved publication is reconciled;
LEMMA NativeReconcilesKeeps ==
    ASSUME Lifecycle, NEW g \in Generation, NEW r \in marker, marker' = marker \ {r},
           UNCHANGED <<authority, manager, resource, tasks, native, requests, publisher,
                       shutdown>>
    PROVE  Lifecycle'
<1>1. /\ Types /\ SlotInv /\ ServedInv /\ StageInv /\ EndInv
      /\ \A h \in Generation : WaiterInv(h) /\ PipelineInv(h) /\ BarrierInv(h)
      /\ \A s \in Request : WorkInv(s)
    BY DEF Lifecycle
<1>2. UNCHANGED <<head, failures, slot, closed, forcing, served, rev, build,
                  retiring, at, pipeline, producer, shut, cut, sealed, dirty,
                  native, gen, source, exec, settle, custody, publisher, early,
                  transport, external, phase, attempts>>
    BY DEF authority, manager, resource, tasks, continuation, requests, shutdown
<1>3. Types'
    BY <1>1, <1>2 DEF Types
<1>4. /\ SlotInv'
      /\ ServedInv'
      /\ StageInv'
      /\ \A h \in Generation : WaiterInv(h)'
      /\ \A h \in Generation : PipelineInv(h)'
      /\ \A h \in Generation : BarrierInv(h)'
      /\ EndInv'
    BY <1>1, <1>2
       DEF SlotInv, InSlot, ServedInv, StageInv, Retained, WaiterInv, Retirement,
           Components, PipelineInv, BarrierInv, EndInv, Joined
<1>5. ASSUME NEW s \in Request
      PROVE  WorkInv(s)'
    BY <1>1, <1>2 DEF Types, WorkInv, Pending, Live
<1>6. QED
    BY <1>3, <1>4, <1>5 DEF Lifecycle

\* the producer is closed once none is left.
LEMMA NativeClosesKeeps ==
    ASSUME Lifecycle, NEW g \in Generation, at[g] = "native", native[g] = "joined",
           marker \cap Bound(g) = {},
           producer' = [producer EXCEPT ![g] = TRUE], Go(g, "custody"),
           UNCHANGED <<authority, manager, rev, build, retiring, pipeline, tasks,
                       continuation, requests,
                       publisher, shutdown>>
    PROVE  Lifecycle'
<1>1. /\ Types /\ SlotInv /\ ServedInv /\ StageInv /\ EndInv
      /\ \A h \in Generation : WaiterInv(h) /\ PipelineInv(h) /\ BarrierInv(h)
      /\ \A s \in Request : WorkInv(s)
    BY DEF Lifecycle
<1>2. UNCHANGED <<head, failures, slot, closed, forcing, served, rev, build,
                  retiring, pipeline, shut, cut, sealed, dirty, native, marker, gen,
                  source, exec, settle, custody, publisher, early, transport,
                  external, phase, attempts>>
    BY DEF Go, authority, manager, resource, tasks, continuation, requests, shutdown
<1>3. Types'
    BY <1>1, <1>2 DEF Types, Go
<1>4. /\ SlotInv'
      /\ ServedInv'
      /\ StageInv'
      /\ \A h \in Generation : PipelineInv(h)'
    BY <1>1, <1>2
       DEF SlotInv, InSlot, ServedInv, StageInv, Retained, PipelineInv, Components
<1>5. ASSUME NEW h \in Generation
      PROVE  WaiterInv(h)'
    BY <1>1, <1>2 DEF Types, WaiterInv, Retained, Retirement, Components, Go
<1>6. ASSUME NEW h \in Generation
      PROVE  BarrierInv(h)'
    BY <1>1, <1>2 DEF Types, BarrierInv, Components, Go, WaiterInv
<1>7. ASSUME NEW s \in Request
      PROVE  WorkInv(s)'
    BY <1>1, <1>2 DEF Types, WorkInv, Pending, Live, Go, Bound
<1>8. EndInv'
    BY <1>1, <1>2 DEF EndInv, Retained, Components, Joined, Go
<1>9. QED
    BY <1>3, <1>4, <1>5, <1>6, <1>7, <1>8 DEF Lifecycle

\* drain_owned_grace, one of its three steps.
LEMMA RetireNativeKeeps ==
    ASSUME Lifecycle, NEW g \in Generation, RetireNative(g)
    PROVE  Lifecycle'
<1>1. at[g] = "native"
    BY DEF RetireNative
<1>2. CASE /\ native[g] = "running"
           /\ native' = [native EXCEPT ![g] = "joined"]
           /\ UNCHANGED <<marker, producer, at>>
    BY <1>1, <1>2, NativeJoinsKeeps DEF RetireNative, resource
<1>3. CASE /\ native[g] = "joined"
           /\ \E r \in marker \cap Bound(g) : marker' = marker \ {r}
           /\ UNCHANGED <<native, producer, at>>
    BY <1>1, <1>3, NativeReconcilesKeeps DEF RetireNative, resource
<1>4. CASE /\ native[g] = "joined"
           /\ marker \cap Bound(g) = {}
           /\ producer' = [producer EXCEPT ![g] = TRUE]
           /\ Go(g, "custody")
           /\ UNCHANGED <<native, marker>>
    BY <1>1, <1>4, NativeClosesKeeps DEF RetireNative, continuation
<1>5. QED
    BY <1>2, <1>3, <1>4 DEF RetireNative

\* join_forced takes the waiter.
LEMMA JoinForcedKeeps ==
    ASSUME Lifecycle, NEW g \in Generation, JoinForced(g)
    PROVE  Lifecycle'
<1>1. /\ Types /\ SlotInv /\ ServedInv /\ StageInv /\ EndInv
      /\ \A h \in Generation : WaiterInv(h) /\ PipelineInv(h) /\ BarrierInv(h)
      /\ \A s \in Request : WorkInv(s)
    BY DEF Lifecycle
<1>2. UNCHANGED <<head, failures, slot, closed, forcing, served, rev, build,
                  retiring, pipeline, producer, shut, cut, sealed, dirty, native,
                  marker, gen, source, exec, settle, custody, publisher, early,
                  transport, external, phase, attempts>>
    BY DEF JoinForced, Go, authority, manager, resource, tasks, continuation, requests,
           shutdown
<1>3. Types'
    BY <1>1, <1>2 DEF Types, JoinForced, Go
<1>4. /\ SlotInv'
      /\ ServedInv'
      /\ StageInv'
      /\ \A h \in Generation : PipelineInv(h)'
    BY <1>1, <1>2
       DEF SlotInv, InSlot, ServedInv, StageInv, Retained, PipelineInv, Components
<1>5. ASSUME NEW h \in Generation
      PROVE  WaiterInv(h)'
    BY <1>1, <1>2
       DEF Types, WaiterInv, Retained, Retirement, Components, JoinForced, Go, StageInv
<1>6. ASSUME NEW h \in Generation
      PROVE  BarrierInv(h)'
    BY <1>1, <1>2 DEF Types, BarrierInv, Components, JoinForced, Go
<1>7. ASSUME NEW s \in Request
      PROVE  WorkInv(s)'
    BY <1>1, <1>2 DEF Types, WorkInv, Pending, Live, JoinForced, Go
<1>8. EndInv'
    BY <1>1, <1>2 DEF EndInv, Retained, Components, Joined, JoinForced, Go
<1>9. QED
    BY <1>3, <1>4, <1>5, <1>6, <1>7, <1>8 DEF Lifecycle

\* The aborted continuation worker has ended.
LEMMA ForcedNativeKeeps ==
    ASSUME Lifecycle, NEW g \in Generation, ForcedNative(g)
    PROVE  Lifecycle'
<1>1. /\ Types /\ SlotInv /\ ServedInv /\ StageInv /\ EndInv
      /\ \A h \in Generation : WaiterInv(h) /\ PipelineInv(h) /\ BarrierInv(h)
      /\ \A s \in Request : WorkInv(s)
    BY DEF Lifecycle
<1>2. UNCHANGED <<head, failures, slot, closed, forcing, served, rev, build,
                  retiring, at, pipeline, producer, shut, cut, sealed, dirty,
                  marker, gen, source, exec, settle, custody, publisher, early,
                  transport, external, phase, attempts>>
    BY DEF ForcedNative, authority, manager, resource, tasks, continuation, requests,
           shutdown
<1>3. Types'
    BY <1>1, <1>2 DEF Types, ForcedNative
<1>4. /\ SlotInv'
      /\ ServedInv'
      /\ StageInv'
      /\ \A h \in Generation : WaiterInv(h)'
      /\ \A s \in Request : WorkInv(s)'
    BY <1>1, <1>2
       DEF SlotInv, InSlot, ServedInv, StageInv, Retained, WaiterInv, Retirement,
           Components, WorkInv, Pending, Live
<1>5. ASSUME NEW h \in Generation
      PROVE  PipelineInv(h)'
    BY <1>1, <1>2, LifecycleAssumption
       DEF Types, PipelineInv, Retained, Components, ForcedNative
<1>6. ASSUME NEW h \in Generation
      PROVE  BarrierInv(h)'
    BY <1>1, <1>2 DEF Types, BarrierInv, Components, ForcedNative
<1>7. EndInv'
    BY <1>1, <1>2 DEF EndInv, Retained, Components, Joined, ForcedNative
<1>8. QED
    BY <1>3, <1>4, <1>5, <1>6, <1>7 DEF Lifecycle

\* The forced pipeline has joined.
LEMMA ForcedDrainKeeps ==
    ASSUME Lifecycle, NEW g \in Generation, ForcedDrain(g)
    PROVE  Lifecycle'
<1>1. /\ Types /\ SlotInv /\ ServedInv /\ StageInv /\ EndInv
      /\ \A h \in Generation : WaiterInv(h) /\ PipelineInv(h) /\ BarrierInv(h)
      /\ \A s \in Request : WorkInv(s)
    BY DEF Lifecycle
<1>2. UNCHANGED <<head, failures, slot, closed, forcing, served, rev, build,
                  retiring, producer, shut, cut, dirty, native, marker, gen, source,
                  exec, settle, custody, publisher, early, transport, external,
                  phase, attempts>>
    BY DEF ForcedDrain, Go, authority, manager, resource, tasks, continuation, requests,
           shutdown
<1>3. /\ pipeline'[g] # None /\ sealed'[g] /\ pipeline'[g] \in {"clean", "unclean", "forced"}
      /\ pipeline'[g] = "clean" => ~ dirty[g]
    BY <1>1, <1>2, LifecycleAssumption DEF Types, Summary, ForcedDrain
<1>4. \A s \in Request : gen[s] = g =>
          /\ s \notin source /\ exec[s] \notin Pending \cup {"payload"}
          /\ settle[s] \notin Pending
    BY <1>1, <1>2, <1>3 DEF FixedPoint, Busy, Bound, ForcedDrain
<1>5. Types'
    BY <1>1, <1>2, <1>3, <1>4 DEF Types, ForcedDrain, Go
<1>6. /\ SlotInv'
      /\ ServedInv'
      /\ StageInv'
    BY <1>1, <1>2 DEF SlotInv, InSlot, ServedInv, StageInv, Retained
<1>7. ASSUME NEW h \in Generation
      PROVE  WaiterInv(h)'
    BY <1>1, <1>2, <1>3, <1>4
       DEF Types, WaiterInv, Retained, Retirement, Components, ForcedDrain, Go
<1>8. ASSUME NEW h \in Generation
      PROVE  PipelineInv(h)'
    BY <1>1, <1>2, <1>3, <1>4, LifecycleAssumption
       DEF Types, PipelineInv, Retained, Components, ForcedDrain, Go, WaiterInv
<1>9. ASSUME NEW h \in Generation
      PROVE  BarrierInv(h)'
    BY <1>1, <1>2, <1>3, <1>4 DEF Types, BarrierInv, Components, ForcedDrain, Go
<1>10. ASSUME NEW s \in Request
       PROVE  WorkInv(s)'
    BY <1>1, <1>2, <1>3, <1>4 DEF Types, WorkInv, Pending, Live, ForcedDrain, Go
<1>11. EndInv'
    BY <1>1, <1>2, <1>3, <1>4 DEF EndInv, Retained, Components, Joined, ForcedDrain, Go
<1>12. QED
    BY <1>5, <1>6, <1>7, <1>8, <1>9, <1>10, <1>11 DEF Lifecycle

\* What forcing the generations gs does to the pipelines, the continuation
\* workers and the tasks.
Forced(gs) ==
    /\ \A h \in Generation : shut'[h] <=> shut[h] \/ h \in gs
    /\ \A h \in Generation :
          native'[h] = IF h \in gs /\ native[h] # "joined" THEN "forced" ELSE native[h]
    /\ \A h \in Generation :
          /\ cut[h] => cut'[h]
          /\ cut'[h] => cut[h] \/ h \in gs
    /\ \A s \in Request :
          /\ exec'[s] = exec[s] \/ (exec[s] = "running" /\ exec'[s] = "aborted")
          /\ settle'[s] = settle[s] \/ (settle[s] = "running" /\ settle'[s] = "aborted")
    /\ \A s \in Request : gen[s] \in Generation /\ cut'[gen[s]] /\ ~ cut[gen[s]] =>
          exec'[s] # "running" /\ settle'[s] # "running"

ForcedTypes ==
    /\ shut' \in [Generation -> BOOLEAN]
    /\ cut' \in [Generation -> BOOLEAN]
    /\ native' \in [Generation -> {"running", "forced", "joined"}]
    /\ exec' \in [Request -> TaskState]
    /\ settle' \in [Request -> TaskState]

\* Forcing, with or without the tasks.
LEMMA ForceEffect ==
    ASSUME Types, NEW gs \in SUBSET Generation, NEW joined \in BOOLEAN,
           ForceComponents(gs, joined)
    PROVE  Forced(gs) /\ ForcedTypes
<1> DEFINE now == {g \in (IF joined THEN gs ELSE {}) : Forcible(g) /\ ~ cut[g]}
<1>1. /\ shut' = [g \in Generation |-> shut[g] \/ g \in gs]
      /\ native' = [g \in Generation |->
                       IF g \in gs /\ native[g] # "joined" THEN "forced" ELSE native[g]]
      /\ cut' = [g \in Generation |-> cut[g] \/ g \in now]
    BY DEF ForceComponents, ForceNative, ForceTasks
<1>2. exec' = [r \in Request |-> IF gen[r] \in now /\ exec[r] = "running" THEN "aborted"
                                 ELSE exec[r]]
    BY DEF ForceComponents, ForceTasks
<1>3. settle' = [r \in Request |-> IF gen[r] \in now /\ settle[r] = "running" THEN "aborted"
                                   ELSE settle[r]]
    BY DEF ForceComponents, ForceTasks
<1>4. now \subseteq gs
    OBVIOUS
<1> HIDE DEF now
<1>5. exec' \in [Request -> TaskState] /\ settle' \in [Request -> TaskState]
    BY <1>2, <1>3 DEF Types, TaskState, Pending, Live
<1>6. shut' \in [Generation -> BOOLEAN] /\ cut' \in [Generation -> BOOLEAN]
    BY <1>1 DEF Types
<1>7. native' \in [Generation -> {"running", "forced", "joined"}]
    BY <1>1 DEF Types
<1>8. \A s \in Request : gen[s] \in Generation /\ cut'[gen[s]] /\ ~ cut[gen[s]] =>
          exec'[s] # "running" /\ settle'[s] # "running"
    BY <1>1, <1>2, <1>3
<1>9. QED
    BY <1>1, <1>2, <1>3, <1>4, <1>5, <1>6, <1>7, <1>8 DEF Forced, ForcedTypes

\* poll_build keeps the result when nothing is forced, or nothing was built;
LEMMA JoinQuietlyKeeps ==
    ASSUME Lifecycle, NEW g \in Generation, NEW new \in {"ready", "snapshotless", "failed"},
           build[g] \in {"built", "unbound", "broken"}, build' = [build EXCEPT ![g] = new],
           at[g] \in {"publish", "build", "forced"},
           at' = at \/ at' = [at EXCEPT ![g] = "idle"],
           publisher' = publisher \/ (publisher = "waiting" /\ publisher' = "checking"),
           forcing => new = "failed", UNCHANGED <<shut, cut, native, exec, settle>>,
           UNCHANGED <<authority, manager, rev, retiring, pipeline, producer, sealed, dirty,
                       marker,
                       gen, source, custody, shutdown>>
    PROVE  Lifecycle'
<1>1. /\ Types /\ SlotInv /\ ServedInv /\ StageInv /\ EndInv
      /\ \A h \in Generation : WaiterInv(h) /\ PipelineInv(h) /\ BarrierInv(h)
      /\ \A s \in Request : WorkInv(s)
    BY DEF Lifecycle
<1>2. UNCHANGED <<head, failures, slot, closed, forcing, served, rev, retiring,
                  pipeline, producer, shut, cut, sealed, dirty, native, marker, gen,
                  source, exec, settle, custody, early, transport, external, phase,
                  attempts>>
    BY DEF authority, manager, resource, tasks, continuation, requests, shutdown
<1>3. /\ g \in Retained /\ ~ producer[g] /\ phase # "over"
      /\ \A s \in Request : gen[s] # None => gen[s] # g
      /\ served # None => served # g
    BY <1>1, <1>2 DEF WaiterInv, BarrierInv, Components, WorkInv, ServedInv, EndInv
<1>4. \A h \in Generation :
          /\ build'[h] = IF h = g THEN new ELSE build[h]
          /\ at'[h] = at[h] \/ (h = g /\ at'[h] = "idle")
    BY <1>1, <1>2, <1>3 DEF Types
<1>5. g \in Retained' /\ slot[g] # "unmade"
    BY <1>1, <1>2, <1>3, <1>4 DEF Retained
<1>6. Types'
    BY <1>1, <1>2, <1>3, <1>4, <1>5 DEF Types
<1>7. StageInv'
    BY <1>1, <1>2 DEF StageInv, Retained
<1>8. SlotInv'
    BY <1>1, <1>2, <1>3, <1>4, <1>5 DEF SlotInv, InSlot
<1>9. ServedInv'
    BY <1>1, <1>2, <1>3, <1>4, <1>5 DEF ServedInv
<1>10. ASSUME NEW h \in Generation
       PROVE  WaiterInv(h)'
    BY <1>1, <1>2, <1>3, <1>4, <1>5 DEF Types, WaiterInv, Retained, Retirement, Components
<1>11. ASSUME NEW h \in Generation
       PROVE  PipelineInv(h)'
    BY <1>1, <1>2, <1>3, <1>4, <1>5, LifecycleAssumption
       DEF Types, PipelineInv, Retained, Components
<1>12. ASSUME NEW h \in Generation
       PROVE  BarrierInv(h)'
    BY <1>1, <1>2, <1>3, <1>4, <1>5 DEF Types, BarrierInv, Components
<1>13. ASSUME NEW s \in Request
       PROVE  WorkInv(s)'
    BY <1>1, <1>2, <1>3, <1>4, <1>5 DEF Types, WorkInv, Pending, Live
<1>14. EndInv'
    BY <1>1, <1>2, <1>3, <1>4, <1>5 DEF EndInv, Retained, Components, Joined
<1>15. QED
    BY <1>6, <1>7, <1>8, <1>9, <1>10, <1>11, <1>12, <1>13, <1>14 DEF Lifecycle

\* under a force, what was built is forced at once.
LEMMA JoinUnderForceKeeps ==
    ASSUME Lifecycle, NEW g \in Generation, NEW new \in {"ready", "snapshotless", "failed"},
           build[g] \in {"built", "unbound", "broken"}, build' = [build EXCEPT ![g] = new],
           at[g] \in {"publish", "build", "forced"},
           at' = at \/ at' = [at EXCEPT ![g] = "idle"],
           publisher' = publisher \/ (publisher = "waiting" /\ publisher' = "checking"),
           forcing, ForceComponents({g}, external),
           UNCHANGED <<authority, manager, rev, retiring, pipeline, producer, sealed, dirty,
                       marker,
                       gen, source, custody, shutdown>>
    PROVE  Lifecycle'
<1>1. /\ Types /\ SlotInv /\ ServedInv /\ StageInv /\ EndInv
      /\ \A h \in Generation : WaiterInv(h) /\ PipelineInv(h) /\ BarrierInv(h)
      /\ \A s \in Request : WorkInv(s)
    BY DEF Lifecycle
<1>2. UNCHANGED <<head, failures, slot, closed, forcing, served, rev, retiring,
                  pipeline, producer, sealed, dirty, marker, gen, source, custody,
                  early, transport, external, phase, attempts>>
    BY DEF authority, manager, resource, tasks, continuation, requests, shutdown
<1>3. Forced({g}) /\ ForcedTypes
    BY <1>1, <1>2, ForceEffect DEF Types, shutdown
<1>4. /\ g \in Retained /\ ~ producer[g] /\ phase # "over"
      /\ \A s \in Request : gen[s] # None => gen[s] # g
      /\ served # None => served # g
    BY <1>1, <1>2, <1>3 DEF WaiterInv, BarrierInv, Components, WorkInv, ServedInv, EndInv
<1>5. \A h \in Generation :
          /\ build'[h] = IF h = g THEN new ELSE build[h]
          /\ at'[h] = at[h] \/ (h = g /\ at'[h] = "idle")
    BY <1>1, <1>2, <1>3, <1>4 DEF Types
<1>6. g \in Retained' /\ slot[g] # "unmade" /\ retiring[g]
    BY <1>1, <1>2, <1>3, <1>4, <1>5 DEF Retained, StageInv
<1>7. Types'
    BY <1>1, <1>2, <1>3, <1>4, <1>5, <1>6 DEF Types, ForcedTypes
<1>8. StageInv'
    BY <1>1, <1>2 DEF StageInv, Retained
<1>9. SlotInv'
    BY <1>1, <1>2, <1>3, <1>4, <1>5, <1>6 DEF SlotInv, InSlot
<1>10. ServedInv'
    BY <1>1, <1>2, <1>3, <1>4, <1>5, <1>6 DEF ServedInv, Forced, Types
<1>11. ASSUME NEW h \in Generation
       PROVE  WaiterInv(h)'
    BY <1>1, <1>2, <1>3, <1>4, <1>5, <1>6
       DEF Types, WaiterInv, Retained, Retirement, Components, Forced
<1>12. ASSUME NEW h \in Generation
       PROVE  PipelineInv(h)'
    BY <1>1, <1>2, <1>3, <1>4, <1>5, <1>6, LifecycleAssumption
       DEF Types, PipelineInv, Retained, Components, Forced
<1>13. ASSUME NEW h \in Generation
       PROVE  BarrierInv(h)'
    BY <1>1, <1>2, <1>3, <1>4, <1>5, <1>6 DEF Types, BarrierInv, Components, Forced
<1>14. ASSUME NEW s \in Request
       PROVE  WorkInv(s)'
    BY <1>1, <1>2, <1>3, <1>4, <1>5, <1>6 DEF Types, WorkInv, Pending, Live, Forced
<1>15. EndInv'
    BY <1>1, <1>2, <1>3, <1>4, <1>5, <1>6 DEF EndInv, Retained, Components, Joined, Forced
<1>16. QED
    BY <1>7, <1>8, <1>9, <1>10, <1>11, <1>12, <1>13, <1>14, <1>15 DEF Lifecycle

\* poll_build, by whoever holds the waiter.
LEMMA JoinBuildKeeps ==
    ASSUME Lifecycle, NEW g \in Generation, JoinBuild(g),
           at[g] \in {"publish", "build", "forced"},
           at' = at \/ at' = [at EXCEPT ![g] = "idle"],
           publisher' = publisher \/ (publisher = "waiting" /\ publisher' = "checking"),
           UNCHANGED <<authority, manager, rev, retiring, pipeline, producer, gen, source,
                       custody, shutdown>>
    PROVE  Lifecycle'
<1> DEFINE new == CASE build[g] = "built" -> "ready"
                    [] build[g] = "unbound" -> "snapshotless"
                    [] OTHER -> "failed"
<1>1. /\ build[g] \in {"built", "unbound", "broken"}
      /\ build' = [build EXCEPT ![g] = new]
      /\ UNCHANGED <<sealed, dirty, marker>>
    BY DEF JoinBuild
<1>2. \/ forcing /\ ForceComponents({g}, external)
      \/ (forcing => new = "failed") /\ UNCHANGED <<shut, cut, native, exec, settle>>
    BY DEF JoinBuild
<1>3. new \in {"ready", "snapshotless", "failed"}
    BY <1>1
<1> HIDE DEF new
<1>4. CASE forcing /\ ForceComponents({g}, external)
    BY <1>1, <1>3, <1>4, JoinUnderForceKeeps
<1>5. CASE (forcing => new = "failed") /\ UNCHANGED <<shut, cut, native, exec, settle>>
    BY <1>1, <1>3, <1>5, JoinQuietlyKeeps
<1>6. QED
    BY <1>2, <1>4, <1>5

\* wait_candidate joins the build for the publication worker.
LEMMA WaitCandidateKeeps ==
    ASSUME Lifecycle, NEW g \in Generation, WaitCandidate(g)
    PROVE  Lifecycle'
    BY JoinBuildKeeps DEF WaitCandidate

\* A retirement closes the sources of a joined build before the drain,
LEMMA RetireJoinedKeeps ==
    ASSUME Lifecycle, NEW g \in Generation, at[g] = "build", Components(g), Go(g, "drain"),
           shut' = [shut EXCEPT ![g] = TRUE],
           UNCHANGED <<authority, manager, rev, build, retiring, pipeline, producer, cut,
                       sealed, dirty,
                       continuation, requests, publisher, shutdown>>
    PROVE  Lifecycle'
<1>1. /\ Types /\ SlotInv /\ ServedInv /\ StageInv /\ EndInv
      /\ \A h \in Generation : WaiterInv(h) /\ PipelineInv(h) /\ BarrierInv(h)
      /\ \A s \in Request : WorkInv(s)
    BY DEF Lifecycle
<1>2. UNCHANGED <<head, failures, slot, closed, forcing, served, rev, build,
                  retiring, pipeline, producer, cut, sealed, dirty, native, marker,
                  gen, source, exec, settle, custody, publisher, early, transport,
                  external, phase, attempts>>
    BY DEF Go, authority, manager, resource, tasks, continuation, requests, shutdown
<1>3. g \in Retained /\ retiring[g] /\ phase # "over"
    BY <1>1, <1>2 DEF WaiterInv, Retirement, EndInv
<1>4. Types'
    BY <1>1, <1>2, <1>3 DEF Types, Go
<1>5. /\ SlotInv'
      /\ StageInv'
    BY <1>1, <1>2 DEF SlotInv, InSlot, StageInv, Retained
<1>6. ServedInv'
    BY <1>1, <1>2, <1>3 DEF ServedInv, Go
<1>7. ASSUME NEW h \in Generation
      PROVE  WaiterInv(h)'
    BY <1>1, <1>2, <1>3 DEF Types, WaiterInv, Retained, Retirement, Components, Go
<1>8. ASSUME NEW h \in Generation
      PROVE  PipelineInv(h)'
    BY <1>1, <1>2, <1>3, LifecycleAssumption
       DEF Types, PipelineInv, Retained, Components, Go
<1>9. ASSUME NEW h \in Generation
      PROVE  BarrierInv(h)'
    BY <1>1, <1>2, <1>3 DEF Types, BarrierInv, Components, Go
<1>10. ASSUME NEW s \in Request
       PROVE  WorkInv(s)'
    BY <1>1, <1>2, <1>3 DEF Types, WorkInv, Pending, Live, Go
<1>11. EndInv'
    BY <1>1, <1>2, <1>3 DEF EndInv, Retained, Components, Joined, Go
<1>12. QED
    BY <1>4, <1>5, <1>6, <1>7, <1>8, <1>9, <1>10, <1>11 DEF Lifecycle

\* or goes on to close the registration of a failed one.
LEMMA RetireUnbuiltKeeps ==
    ASSUME Lifecycle, NEW g \in Generation, at[g] = "build", build[g] = "failed",
           Go(g, "close"),
           UNCHANGED shut,
           UNCHANGED <<authority, manager, rev, build, retiring, pipeline, producer, cut,
                       sealed, dirty,
                       continuation, requests, publisher, shutdown>>
    PROVE  Lifecycle'
<1>1. /\ Types /\ SlotInv /\ ServedInv /\ StageInv /\ EndInv
      /\ \A h \in Generation : WaiterInv(h) /\ PipelineInv(h) /\ BarrierInv(h)
      /\ \A s \in Request : WorkInv(s)
    BY DEF Lifecycle
<1>2. UNCHANGED <<head, failures, slot, closed, forcing, served, rev, build,
                  retiring, pipeline, producer, shut, cut, sealed, dirty, native,
                  marker, gen, source, exec, settle, custody, publisher, early,
                  transport, external, phase, attempts>>
    BY DEF Go, authority, manager, resource, tasks, continuation, requests, shutdown
<1>3. g \in Retained /\ retiring[g] /\ phase # "over"
    BY <1>1, <1>2 DEF WaiterInv, Retirement, EndInv
<1>4. Types'
    BY <1>1, <1>2, <1>3 DEF Types, Go
<1>5. /\ SlotInv'
      /\ ServedInv'
      /\ StageInv'
      /\ \A h \in Generation : PipelineInv(h)'
    BY <1>1, <1>2
       DEF SlotInv, InSlot, ServedInv, StageInv, Retained, PipelineInv, Components
<1>6. ASSUME NEW h \in Generation
      PROVE  WaiterInv(h)'
    BY <1>1, <1>2, <1>3 DEF Types, WaiterInv, Retained, Retirement, Components, Go
<1>7. ASSUME NEW h \in Generation
      PROVE  BarrierInv(h)'
    BY <1>1, <1>2, <1>3 DEF Types, BarrierInv, Components, Go
<1>8. ASSUME NEW s \in Request
      PROVE  WorkInv(s)'
    BY <1>1, <1>2, <1>3 DEF Types, WorkInv, Pending, Live, Go
<1>9. EndInv'
    BY <1>1, <1>2, <1>3 DEF EndInv, Retained, Components, Joined, Go
<1>10. QED
    BY <1>4, <1>5, <1>6, <1>7, <1>8, <1>9 DEF Lifecycle

\* A retirement joins the build.
LEMMA RetireBuildKeeps ==
    ASSUME Lifecycle, NEW g \in Generation, RetireBuild(g)
    PROVE  Lifecycle'
<1>1. /\ at[g] = "build"
      /\ UNCHANGED <<authority, manager, rev, retiring, pipeline, producer, gen, source, custody,
                     publisher, shutdown>>
    BY DEF RetireBuild
<1>2. CASE JoinBuild(g) /\ UNCHANGED at
    BY <1>1, <1>2, JoinBuildKeeps
<1>3. CASE /\ Joined(g)
           /\ IF Components(g)
              THEN Go(g, "drain") /\ shut' = [shut EXCEPT ![g] = TRUE]
              ELSE Go(g, "close") /\ UNCHANGED shut
           /\ UNCHANGED <<build, cut, sealed, dirty, continuation, exec, settle>>
    <2>1. UNCHANGED <<authority, manager, rev, build, retiring, pipeline, producer, cut, sealed,
                      dirty, continuation, requests, publisher, shutdown>>
        BY <1>1, <1>3 DEF requests
    <2>2. CASE Components(g)
        BY <1>1, <1>3, <2>1, <2>2, RetireJoinedKeeps
    <2>3. CASE ~ Components(g)
        BY <1>1, <1>3, <2>1, <2>3, RetireUnbuiltKeeps DEF Joined
    <2>4. QED
        BY <2>2, <2>3
<1>4. QED
    BY <1>2, <1>3 DEF RetireBuild

\* join_forced forces a joined build,
LEMMA ForcedJoinedKeeps ==
    ASSUME Lifecycle, NEW g \in Generation, at[g] = "forced", Components(g), Go(g, "join"),
           ForceComponents({g}, external),
           UNCHANGED <<authority, manager, rev, build, retiring, pipeline, producer, sealed,
                       dirty, marker,
                       gen, source, custody, publisher, shutdown>>
    PROVE  Lifecycle'
<1>1. /\ Types /\ SlotInv /\ ServedInv /\ StageInv /\ EndInv
      /\ \A h \in Generation : WaiterInv(h) /\ PipelineInv(h) /\ BarrierInv(h)
      /\ \A s \in Request : WorkInv(s)
    BY DEF Lifecycle
<1>2. UNCHANGED <<head, failures, slot, closed, forcing, served, rev, build,
                  retiring, pipeline, producer, sealed, dirty, marker, gen, source,
                  custody, publisher, early, transport, external, phase, attempts>>
    BY DEF Go, authority, manager, resource, tasks, continuation, requests, shutdown
<1>3. /\ g \in Retained /\ forcing /\ phase # "over" /\ shut[g] /\ retiring[g]
      /\ native[g] \in {"forced", "joined"}
    BY <1>1, <1>2 DEF WaiterInv, EndInv, PipelineInv
<1>4. Forced({g}) /\ ForcedTypes
    BY <1>1, <1>2, <1>3, ForceEffect DEF Types, shutdown
<1>5. Types'
    BY <1>1, <1>2, <1>3, <1>4 DEF Types, Go, ForcedTypes
<1>6. /\ SlotInv'
      /\ StageInv'
    BY <1>1, <1>2 DEF SlotInv, InSlot, StageInv, Retained
<1>7. ServedInv'
    BY <1>1, <1>2, <1>3, <1>4 DEF ServedInv, Go, Forced, Types
<1>8. ASSUME NEW h \in Generation
      PROVE  WaiterInv(h)'
    BY <1>1, <1>2, <1>3, <1>4
       DEF Types, WaiterInv, Retained, Retirement, Components, Go, Forced
<1>9. ASSUME NEW h \in Generation
      PROVE  PipelineInv(h)'
    BY <1>1, <1>2, <1>3, <1>4, LifecycleAssumption
       DEF Types, PipelineInv, Retained, Components, Go, Forced
<1>10. ASSUME NEW h \in Generation
       PROVE  BarrierInv(h)'
    BY <1>1, <1>2, <1>3, <1>4 DEF Types, BarrierInv, Components, Go, Forced
<1>11. ASSUME NEW s \in Request
       PROVE  WorkInv(s)'
    BY <1>1, <1>2, <1>3, <1>4 DEF Types, WorkInv, Pending, Live, Go, Forced
<1>12. EndInv'
    BY <1>1, <1>2, <1>3, <1>4 DEF EndInv, Retained, Components, Joined, Go, Forced
<1>13. QED
    BY <1>5, <1>6, <1>7, <1>8, <1>9, <1>10, <1>11, <1>12 DEF Lifecycle

\* or has nothing to force.
LEMMA ForcedUnbuiltKeeps ==
    ASSUME Lifecycle, NEW g \in Generation, at[g] = "forced", Go(g, "idle"),
           UNCHANGED <<shut, cut, native, exec, settle>>,
           UNCHANGED <<authority, manager, rev, build, retiring, pipeline, producer, sealed,
                       dirty, marker,
                       gen, source, custody, publisher, shutdown>>
    PROVE  Lifecycle'
<1>1. /\ Types /\ SlotInv /\ ServedInv /\ StageInv /\ EndInv
      /\ \A h \in Generation : WaiterInv(h) /\ PipelineInv(h) /\ BarrierInv(h)
      /\ \A s \in Request : WorkInv(s)
    BY DEF Lifecycle
<1>2. UNCHANGED <<head, failures, slot, closed, forcing, served, rev, build,
                  retiring, pipeline, producer, shut, cut, sealed, dirty, native,
                  marker, gen, source, exec, settle, custody, publisher, early,
                  transport, external, phase, attempts>>
    BY DEF Go, authority, manager, resource, tasks, continuation, requests, shutdown
<1>3. Types'
    BY <1>1, <1>2 DEF Types, Go
<1>4. /\ SlotInv'
      /\ ServedInv'
      /\ StageInv'
      /\ \A h \in Generation : PipelineInv(h)'
    BY <1>1, <1>2
       DEF SlotInv, InSlot, ServedInv, StageInv, Retained, PipelineInv, Components
<1>5. ASSUME NEW h \in Generation
      PROVE  WaiterInv(h)'
    BY <1>1, <1>2 DEF Types, WaiterInv, Retained, Retirement, Components, Go
<1>6. ASSUME NEW h \in Generation
      PROVE  BarrierInv(h)'
    BY <1>1, <1>2 DEF Types, BarrierInv, Components, Go
<1>7. ASSUME NEW s \in Request
      PROVE  WorkInv(s)'
    BY <1>1, <1>2 DEF Types, WorkInv, Pending, Live, Go
<1>8. EndInv'
    BY <1>1, <1>2 DEF EndInv, Retained, Components, Joined, Go
<1>9. QED
    BY <1>3, <1>4, <1>5, <1>6, <1>7, <1>8 DEF Lifecycle

\* join_forced joins the build.
LEMMA ForcedBuildKeeps ==
    ASSUME Lifecycle, NEW g \in Generation, ForcedBuild(g)
    PROVE  Lifecycle'
<1>1. /\ at[g] = "forced"
      /\ UNCHANGED <<authority, manager, rev, retiring, pipeline, producer, gen, source, custody,
                     publisher, shutdown>>
    BY DEF ForcedBuild
<1>2. CASE JoinBuild(g) /\ UNCHANGED at
    BY <1>1, <1>2, JoinBuildKeeps
<1>3. CASE /\ Joined(g)
           /\ Go(g, IF Components(g) THEN "join" ELSE "idle")
           /\ IF Components(g) THEN ForceComponents({g}, external)
              ELSE UNCHANGED <<shut, cut, native, exec, settle>>
           /\ UNCHANGED <<build, sealed, dirty, marker>>
    <2>1. CASE Components(g)
        BY <1>1, <1>3, <2>1, ForcedJoinedKeeps
    <2>2. CASE ~ Components(g)
        BY <1>1, <1>3, <2>2, ForcedUnbuiltKeeps
    <2>3. QED
        BY <2>1, <2>2
<1>4. QED
    BY <1>2, <1>3 DEF ForcedBuild

\* discard_candidate: the candidate is retiring and takes no request.
LEMMA DiscardKeeps ==
    ASSUME Lifecycle, NEW g \in Generation, NEW next \in {"idle", "stopped"},
           slot[g] = "candidate", publisher # "stopped", Discard(g, next),
           head' = head, failures' \in 0..MaxFailures
    PROVE  Lifecycle'
<1>1. /\ Types /\ SlotInv /\ ServedInv /\ StageInv /\ EndInv
      /\ \A h \in Generation : WaiterInv(h) /\ PipelineInv(h) /\ BarrierInv(h)
      /\ \A s \in Request : WorkInv(s)
    BY DEF Lifecycle
<1>2. UNCHANGED <<head, slot, closed, forcing, served, rev, build, pipeline,
                  producer, cut, sealed, dirty, native, marker, gen, source, exec,
                  settle, custody, early, transport, external, phase, attempts>>
    BY DEF Discard, authority, manager, resource, tasks, continuation, requests, shutdown
<1>3. /\ publisher' = next
      /\ failures' \in 0..MaxFailures
    BY DEF Discard
<1>4. /\ retiring' = [h \in Generation |-> retiring[h] \/ h = g]
      /\ shut' = [h \in Generation |-> shut[h] \/ (h = g /\ Components(h))]
    BY <1>1, <1>2, <1>3 DEF Discard, Discarded, Withdrawn
<1>5. at' = [at EXCEPT ![g] = IF at[g] = "publish" THEN "idle" ELSE at[g]]
    BY <1>1, <1>2, <1>3, <1>4 DEF Discard
<1>6. /\ retiring' \in [Generation -> BOOLEAN] /\ shut' \in [Generation -> BOOLEAN]
      /\ at' \in [Generation -> {"idle", "publish", "build", "drain", "native",
                                 "close", "custody", "remove", "forced", "join"}]
    BY <1>1, <1>2, <1>3, <1>4, <1>5 DEF Types
<1>7. \A h \in Generation :
          /\ retiring'[h] <=> retiring[h] \/ h = g
          /\ shut'[h] <=> shut[h] \/ (h = g /\ Components(h))
          /\ at'[h] = at[h] \/ (at[h] = "publish" /\ at'[h] = "idle")
    BY <1>1, <1>2, <1>3, <1>4, <1>5, <1>6 DEF Types
<1>8. served # None => served # g
    BY <1>1, <1>2, <1>3, <1>4, <1>5, <1>6, <1>7 DEF ServedInv
<1>9. Types'
    BY <1>1, <1>2, <1>6, <1>3 DEF Types
<1>10. SlotInv'
    BY <1>1, <1>2 DEF SlotInv, InSlot
<1>11. ServedInv'
    BY <1>1, <1>2, <1>3, <1>4, <1>5, <1>6, <1>7, <1>8 DEF ServedInv, Types
<1>12. StageInv'
    BY <1>1, <1>2, <1>3, <1>4, <1>5, <1>6, <1>7, <1>8 DEF StageInv, Retained
<1>13. ASSUME NEW h \in Generation
       PROVE  WaiterInv(h)'
    BY <1>1, <1>2, <1>3, <1>4, <1>5, <1>6, <1>7, <1>8
       DEF Types, WaiterInv, Retained, Retirement, Components
<1>14. ASSUME NEW h \in Generation
       PROVE  PipelineInv(h)'
    BY <1>1, <1>2, <1>3, <1>4, <1>5, <1>6, <1>7, <1>8, LifecycleAssumption
       DEF Types, PipelineInv, Retained, Components
<1>15. ASSUME NEW h \in Generation
       PROVE  BarrierInv(h)'
    BY <1>1, <1>2, <1>3, <1>4, <1>5, <1>6, <1>7, <1>8 DEF Types, BarrierInv, Components
<1>16. ASSUME NEW s \in Request
       PROVE  WorkInv(s)'
    BY <1>1, <1>2, <1>3, <1>4, <1>5, <1>6, <1>7, <1>8 DEF Types, WorkInv, Pending, Live
<1>17. EndInv'
    BY <1>1, <1>2, <1>3, <1>4, <1>5, <1>6, <1>7, <1>8
       DEF EndInv, Retained, Components, Joined
<1>18. QED
    BY <1>9, <1>10, <1>11, <1>12, <1>13, <1>14, <1>15, <1>16, <1>17 DEF Lifecycle

\* The pass ends: its candidate is not what the head asks for.
LEMMA OutdatedKeeps ==
    ASSUME Lifecycle, NEW g \in Generation, Outdated(g)
    PROVE  Lifecycle'
    BY DiscardKeeps DEF Outdated, authority, Lifecycle, Types

\* The pass ends with an error or at its deadline.
LEMMA PassFailsKeeps ==
    ASSUME Lifecycle, NEW g \in Generation, PassFails(g)
    PROVE  Lifecycle'
<1>1. failures' \in 0..MaxFailures
    BY LifecycleAssumption DEF PassFails, Lifecycle, Types
<1>2. QED
    BY <1>1, DiscardKeeps DEF PassFails

\* publish_candidate refuses the candidate.
LEMMA PublishRefusedKeeps ==
    ASSUME Lifecycle, NEW g \in Generation, PublishRefused(g)
    PROVE  Lifecycle'
    BY DiscardKeeps DEF PublishRefused, authority, Lifecycle, Types

\* The publication worker is told to stop between two passes.
LEMMA StopIdleKeeps ==
    ASSUME Lifecycle, publisher = "idle", publisher' = "stopped",
           UNCHANGED <<authority, manager, resource, tasks, continuation, requests, shutdown>>
    PROVE  Lifecycle'
<1>1. /\ Types /\ SlotInv /\ ServedInv /\ StageInv /\ EndInv
      /\ \A h \in Generation : WaiterInv(h) /\ PipelineInv(h) /\ BarrierInv(h)
      /\ \A s \in Request : WorkInv(s)
    BY DEF Lifecycle
<1>2. UNCHANGED <<head, failures, slot, closed, forcing, served, rev, build,
                  retiring, at, pipeline, producer, shut, cut, sealed, dirty,
                  native, marker, gen, source, exec, settle, custody, early,
                  transport, external, phase, attempts>>
    BY DEF authority, manager, resource, tasks, continuation, requests, shutdown
<1>3. Types'
    BY <1>1, <1>2 DEF Types
<1>4. /\ SlotInv'
      /\ ServedInv'
      /\ StageInv'
      /\ \A h \in Generation : WaiterInv(h)'
      /\ \A h \in Generation : PipelineInv(h)'
      /\ \A h \in Generation : BarrierInv(h)'
      /\ \A s \in Request : WorkInv(s)'
    BY <1>1, <1>2
       DEF SlotInv, InSlot, ServedInv, StageInv, Retained, WaiterInv, Retirement,
           Components, PipelineInv, BarrierInv, WorkInv, Pending, Live
<1>5. EndInv'
    BY <1>1, <1>2 DEF EndInv, Retained, Components, Joined
<1>6. QED
    BY <1>3, <1>4, <1>5 DEF Lifecycle

\* The publication worker ends.
LEMMA StopPublisherKeeps ==
    ASSUME Lifecycle, StopPublisher
    PROVE  Lifecycle'
<1>1. UNCHANGED authority /\ failures \in 0..MaxFailures
    BY DEF StopPublisher, Lifecycle, Types
<1>2. CASE /\ publisher = "idle"
           /\ publisher' = "stopped"
           /\ UNCHANGED <<manager, resource, tasks, continuation, requests, shutdown>>
    BY <1>1, <1>2, StopIdleKeeps
<1>3. CASE /\ publisher \in {"waiting", "checking"}
           /\ \E g \in InSlot("candidate") : Discard(g, "stopped")
    BY <1>1, <1>3, DiscardKeeps DEF InSlot, authority
<1>4. QED
    BY <1>2, <1>3 DEF StopPublisher

\* The budget that publish_candidate checks has room for the generation that
\* it retires.
LEMMA CurrentFits ==
    ASSUME SlotInv, InSlot("current") = {} \/ Cardinality(InSlot("retired")) < MaxRetired
    PROVE  Cardinality(InSlot("retired") \cup InSlot("current")) <= MaxRetired
<1>1. CASE InSlot("current") = {}
    <2>1. InSlot("retired") \cup InSlot("current") = InSlot("retired")
        BY <1>1
    <2>2. QED
        BY <2>1 DEF SlotInv
<1>2. CASE InSlot("current") # {}
    <2>1. PICK c \in Generation : slot[c] = "current"
        BY <1>2 DEF InSlot
    <2>2. InSlot("current") = {c} /\ c \notin InSlot("retired")
        BY <2>1 DEF InSlot, SlotInv
    <2>3. InSlot("retired") \in SUBSET Generation
        BY DEF InSlot
    <2>4. IsFiniteSet(InSlot("retired")) /\ Cardinality(InSlot("retired")) \in Nat
        BY <2>3, SlotsAreFinite
    <2>5. Cardinality(InSlot("retired") \cup {c}) = Cardinality(InSlot("retired")) + 1
        BY <2>2, <2>4, FS_AddElement
    <2>6. Cardinality(InSlot("retired")) < MaxRetired
        BY <1>2
    <2>7. Cardinality(InSlot("retired")) + 1 <= MaxRetired
        BY <2>4, <2>6, LifecycleAssumption
    <2>8. QED
        BY <2>2, <2>5, <2>7
<1>3. QED
    BY <1>1, <1>2

\* The force is broadcast: what is retained is closed, its workers cancelled.
LEMMA ForceShutdownKeeps ==
    ASSUME Lifecycle, ForceShutdown
    PROVE  Lifecycle'
<1>1. /\ Types /\ SlotInv /\ ServedInv /\ StageInv /\ EndInv
      /\ \A h \in Generation : WaiterInv(h) /\ PipelineInv(h) /\ BarrierInv(h)
      /\ \A s \in Request : WorkInv(s)
    BY DEF Lifecycle
<1>2. UNCHANGED <<head, failures, slot, closed, served, rev, build, retiring,
                  pipeline, producer, sealed, dirty, marker, gen, source, custody,
                  publisher, early, external, attempts>>
    BY DEF ForceShutdown, authority, manager, resource, tasks, continuation, requests,
           shutdown
<1>3. /\ phase \in {"draining", "retiring", "late"} /\ phase' = "forced" /\ forcing' = TRUE
      /\ transport' \in {"forced", "joined"} /\ (transport' = "joined" => transport = "joined")
    BY DEF ForceShutdown
<1>4. /\ ForceComponents({h \in Retained : Components(h)}, FALSE)
      /\ {h \in Retained : Components(h)} \subseteq Generation
    BY <1>1, <1>2, <1>3 DEF ForceShutdown, Retained
<1>5. Forced({h \in Retained : Components(h)}) /\ ForcedTypes
    BY <1>1, <1>2, <1>3, <1>4, ForceEffect
<1>6. at' = Cancelled \/ at' = at
    BY <1>1, <1>2, <1>3, <1>4, <1>5 DEF ForceShutdown
<1>7. at' \in [Generation -> {"idle", "publish", "build", "drain", "native",
                              "close", "custody", "remove", "forced", "join"}]
    BY <1>1, <1>2, <1>3, <1>4, <1>5, <1>6 DEF Types, Cancelled
<1>8. \A h \in Generation : at'[h] = at[h] \/ (at[h] # "idle" /\ at'[h] = "idle")
    BY <1>1, <1>2, <1>3, <1>4, <1>5, <1>6, <1>7 DEF Cancelled, Retirement
<1>9. closed /\ served = None /\ \A h \in Retained : retiring[h]
    BY <1>1, <1>2, <1>3, <1>4, <1>5, <1>6, <1>7, <1>8 DEF StageInv, ServedInv
<1>10. Types'
    BY <1>1, <1>2, <1>5, <1>7, <1>3 DEF Types, ForcedTypes
<1>11. SlotInv'
    BY <1>1, <1>2 DEF SlotInv, InSlot
<1>12. ServedInv'
    BY <1>1, <1>2, <1>3, <1>4, <1>5, <1>6, <1>7, <1>8, <1>9 DEF ServedInv, Forced, Types
<1>13. StageInv'
    BY <1>1, <1>2, <1>3, <1>4, <1>5, <1>6, <1>7, <1>8, <1>9 DEF StageInv, Retained
<1>14. ASSUME NEW h \in Generation
       PROVE  WaiterInv(h)'
    BY <1>1, <1>2, <1>3, <1>4, <1>5, <1>6, <1>7, <1>8, <1>9
       DEF Types, WaiterInv, Retained, Retirement, Components, Forced
<1>15. ASSUME NEW h \in Generation
       PROVE  PipelineInv(h)'
    BY <1>1, <1>2, <1>3, <1>4, <1>5, <1>6, <1>7, <1>8, <1>9, LifecycleAssumption
       DEF Types, PipelineInv, Retained, Components, Forced
<1>16. ASSUME NEW h \in Generation
       PROVE  BarrierInv(h)'
    BY <1>1, <1>2, <1>3, <1>4, <1>5, <1>6, <1>7, <1>8, <1>9
       DEF Types, BarrierInv, Components, Forced
<1>17. ASSUME NEW s \in Request
       PROVE  WorkInv(s)'
    BY <1>1, <1>2, <1>3, <1>4, <1>5, <1>6, <1>7, <1>8, <1>9
       DEF Types, WorkInv, Pending, Live, Forced
<1>18. EndInv'
    BY <1>1, <1>2, <1>3, <1>4, <1>5, <1>6, <1>7, <1>8, <1>9
       DEF EndInv, Retained, Components, Joined, Forced
<1>19. QED
    BY <1>10, <1>11, <1>12, <1>13, <1>14, <1>15, <1>16, <1>17, <1>18 DEF Lifecycle

\* force_pipelines aborts the tasks of what is retained.
LEMMA ForcePipelinesKeeps ==
    ASSUME Lifecycle, ForcePipelines
    PROVE  Lifecycle'
<1>1. /\ Types /\ SlotInv /\ ServedInv /\ StageInv /\ EndInv
      /\ \A h \in Generation : WaiterInv(h) /\ PipelineInv(h) /\ BarrierInv(h)
      /\ \A s \in Request : WorkInv(s)
    BY DEF Lifecycle
<1>2. UNCHANGED <<head, failures, slot, closed, forcing, served, rev, build,
                  retiring, at, pipeline, producer, sealed, dirty, marker, gen,
                  source, custody, publisher, early, transport, phase, attempts>>
    BY DEF ForcePipelines, authority, manager, resource, tasks, continuation, requests,
           shutdown
<1>3. /\ phase = "forced"
      /\ external' = TRUE
    BY DEF ForcePipelines
<1>4. /\ ForceComponents({h \in Retained : Components(h)}, TRUE)
      /\ {h \in Retained : Components(h)} \subseteq Generation
    BY <1>1, <1>2, <1>3 DEF ForcePipelines, Retained
<1>5. Forced({h \in Retained : Components(h)}) /\ ForcedTypes
    BY <1>1, <1>2, <1>3, <1>4, ForceEffect
<1>6. closed /\ served = None /\ \A h \in Retained : retiring[h]
    BY <1>1, <1>2, <1>3, <1>4, <1>5 DEF StageInv, ServedInv
<1>7. Types'
    BY <1>1, <1>2, <1>5, <1>3 DEF Types, ForcedTypes
<1>8. /\ SlotInv'
      /\ StageInv'
    BY <1>1, <1>2 DEF SlotInv, InSlot, StageInv, Retained
<1>9. ServedInv'
    BY <1>1, <1>2, <1>3, <1>4, <1>5, <1>6 DEF ServedInv, Forced, Types
<1>10. ASSUME NEW h \in Generation
       PROVE  WaiterInv(h)'
    BY <1>1, <1>2, <1>3, <1>4, <1>5, <1>6
       DEF Types, WaiterInv, Retained, Retirement, Components, Forced
<1>11. ASSUME NEW h \in Generation
       PROVE  PipelineInv(h)'
    BY <1>1, <1>2, <1>3, <1>4, <1>5, <1>6, LifecycleAssumption
       DEF Types, PipelineInv, Retained, Components, Forced
<1>12. ASSUME NEW h \in Generation
       PROVE  BarrierInv(h)'
    BY <1>1, <1>2, <1>3, <1>4, <1>5, <1>6 DEF Types, BarrierInv, Components, Forced
<1>13. ASSUME NEW s \in Request
       PROVE  WorkInv(s)'
    BY <1>1, <1>2, <1>3, <1>4, <1>5, <1>6 DEF Types, WorkInv, Pending, Live, Forced
<1>14. EndInv'
    BY <1>1, <1>2, <1>3, <1>4, <1>5, <1>6 DEF EndInv, Retained, Components, Joined, Forced
<1>15. QED
    BY <1>7, <1>8, <1>9, <1>10, <1>11, <1>12, <1>13, <1>14 DEF Lifecycle

\* begin withdraws the gate and every retained generation.
LEMMA BeginKeeps ==
    ASSUME Lifecycle, Begin
    PROVE  Lifecycle'
<1>1. /\ Types /\ SlotInv /\ ServedInv /\ StageInv /\ EndInv
      /\ \A h \in Generation : WaiterInv(h) /\ PipelineInv(h) /\ BarrierInv(h)
      /\ \A s \in Request : WorkInv(s)
    BY DEF Lifecycle
<1>2. UNCHANGED <<head, failures, slot, forcing, rev, build, at, pipeline, producer,
                  cut, sealed, dirty, native, marker, gen, source, exec, settle,
                  custody, publisher, early, external, attempts>>
    BY DEF Begin, authority, manager, resource, tasks, continuation, requests, shutdown
<1>3. /\ phase = "up" /\ phase' = "draining" /\ closed' = TRUE
      /\ served' = None /\ transport' = "stopping"
    BY DEF Begin
<1>4. /\ retiring' = [h \in Generation |-> retiring[h] \/ h \in Retained]
      /\ shut' = [h \in Generation |-> shut[h] \/ (h \in Retained /\ Components(h))]
    BY <1>1, <1>2, <1>3 DEF Begin, Withdrawn
<1>5. /\ retiring' \in [Generation -> BOOLEAN] /\ shut' \in [Generation -> BOOLEAN]
    BY <1>1, <1>2, <1>3, <1>4 DEF Types
<1>6. \A h \in Generation :
          /\ retiring'[h] <=> retiring[h] \/ h \in Retained
          /\ shut'[h] <=> shut[h] \/ (h \in Retained /\ Components(h))
    BY <1>1, <1>2, <1>3, <1>4, <1>5 DEF Types
<1>7. Types'
    BY <1>1, <1>2, <1>5, <1>3 DEF Types
<1>8. /\ SlotInv'
      /\ \A h \in Generation : BarrierInv(h)'
      /\ \A s \in Request : WorkInv(s)'
    BY <1>1, <1>2 DEF SlotInv, InSlot, BarrierInv, Components, WorkInv, Pending, Live
<1>9. ServedInv'
    BY <1>1, <1>2, <1>3, <1>4, <1>5, <1>6 DEF ServedInv
<1>10. StageInv'
    BY <1>1, <1>2, <1>3, <1>4, <1>5, <1>6 DEF StageInv, Retained
<1>11. ASSUME NEW h \in Generation
       PROVE  WaiterInv(h)'
    BY <1>1, <1>2, <1>3, <1>4, <1>5, <1>6
       DEF Types, WaiterInv, Retained, Retirement, Components
<1>12. ASSUME NEW h \in Generation
       PROVE  PipelineInv(h)'
    BY <1>1, <1>2, <1>3, <1>4, <1>5, <1>6, LifecycleAssumption
       DEF Types, PipelineInv, Retained, Components
<1>13. EndInv'
    BY <1>1, <1>2, <1>3, <1>4, <1>5, <1>6 DEF EndInv, Retained, Components, Joined
<1>14. QED
    BY <1>7, <1>8, <1>9, <1>10, <1>11, <1>12, <1>13 DEF Lifecycle

\* publish_candidate swaps the gate and the slots in one step.
LEMMA PublishCandidateKeeps ==
    ASSUME Lifecycle, NEW g \in Generation, PublishCandidate(g)
    PROVE  Lifecycle'
<1>1. /\ Types /\ SlotInv /\ ServedInv /\ StageInv /\ EndInv
      /\ \A h \in Generation : WaiterInv(h) /\ PipelineInv(h) /\ BarrierInv(h)
      /\ \A s \in Request : WorkInv(s)
    BY DEF Lifecycle
<1>2. UNCHANGED <<head, failures, closed, forcing, rev, build, at, pipeline,
                  producer, cut, sealed, dirty, native, marker, gen, source, exec,
                  settle, custody, early, transport, external, phase, attempts>>
    BY DEF PublishCandidate, MayPublish, authority, manager, resource, tasks,
           continuation, requests, shutdown
<1>3. /\ slot[g] = "candidate" /\ ~ closed /\ ~ retiring[g] /\ build[g] = "ready"
      /\ served' = g /\ publisher' = "idle"
    BY DEF PublishCandidate, MayPublish
<1>4. /\ retiring' = [h \in Generation |-> retiring[h] \/ slot[h] = "current"]
      /\ shut' = [h \in Generation |-> shut[h] \/ (slot[h] = "current" /\ Components(h))]
    BY <1>1, <1>2, <1>3 DEF PublishCandidate, Withdrawn, InSlot
<1>5. /\ retiring' \in [Generation -> BOOLEAN] /\ shut' \in [Generation -> BOOLEAN]
      /\ slot' \in [Generation -> {"unmade", "candidate", "current", "retired", "reclaimed"}]
    BY <1>1, <1>2, <1>3, <1>4 DEF Types, PublishCandidate
<1>6. \A h \in Generation :
          /\ retiring'[h] <=> retiring[h] \/ slot[h] = "current"
          /\ shut'[h] <=> shut[h] \/ (slot[h] = "current" /\ Components(h))
          /\ slot'[h] = IF h = g THEN "current"
                        ELSE IF slot[h] = "current" THEN "retired" ELSE slot[h]
    BY <1>1, <1>2, <1>3, <1>4, <1>5 DEF Types, PublishCandidate
<1>7. ~ shut[g] /\ phase = "up"
    BY <1>1, <1>2, <1>3, <1>4, <1>5, <1>6 DEF PipelineInv, StageInv
<1>8. InSlot("retired")' = InSlot("retired") \cup InSlot("current")
    BY <1>1, <1>2, <1>3, <1>4, <1>5, <1>6, <1>7 DEF InSlot
<1>9. Cardinality(InSlot("retired")') <= MaxRetired
    BY <1>1, <1>2, <1>3, <1>4, <1>5, <1>6, <1>7, <1>8, CurrentFits
       DEF SlotInv, PublishCandidate, MayPublish
<1>10. Retained' = Retained
    BY <1>1, <1>2, <1>3, <1>4, <1>5, <1>6, <1>7, <1>8, <1>9 DEF Retained
<1>11. Types'
    BY <1>1, <1>2, <1>5, <1>3 DEF Types
<1>12. SlotInv'
    BY <1>1, <1>2, <1>3, <1>4, <1>5, <1>6, <1>7, <1>8, <1>9, <1>10 DEF SlotInv, InSlot
<1>13. ServedInv'
    BY <1>1, <1>2, <1>3, <1>4, <1>5, <1>6, <1>7, <1>8, <1>9, <1>10 DEF ServedInv, Types
<1>14. StageInv'
    BY <1>1, <1>2, <1>3, <1>4, <1>5, <1>6, <1>7, <1>8, <1>9, <1>10 DEF StageInv, Retained
<1>15. ASSUME NEW h \in Generation
       PROVE  WaiterInv(h)'
    BY <1>1, <1>2, <1>3, <1>4, <1>5, <1>6, <1>7, <1>8, <1>9, <1>10
       DEF Types, WaiterInv, Retained, Retirement, Components
<1>16. ASSUME NEW h \in Generation
       PROVE  PipelineInv(h)'
    BY <1>1, <1>2, <1>3, <1>4, <1>5, <1>6, <1>7, <1>8, <1>9, <1>10, LifecycleAssumption
       DEF Types, PipelineInv, Retained, Components
<1>17. ASSUME NEW h \in Generation
       PROVE  BarrierInv(h)'
    BY <1>1, <1>2, <1>3, <1>4, <1>5, <1>6, <1>7, <1>8, <1>9, <1>10
       DEF Types, BarrierInv, Components
<1>18. ASSUME NEW s \in Request
       PROVE  WorkInv(s)'
    BY <1>1, <1>2, <1>3, <1>4, <1>5, <1>6, <1>7, <1>8, <1>9, <1>10
       DEF Types, WorkInv, Pending, Live
<1>19. EndInv'
    BY <1>1, <1>2, <1>3, <1>4, <1>5, <1>6, <1>7, <1>8, <1>9, <1>10
       DEF EndInv, Retained, Components, Joined
<1>20. QED
    BY <1>11, <1>12, <1>13, <1>14, <1>15, <1>16, <1>17, <1>18, <1>19 DEF Lifecycle

\* A step that changes nothing.
LEMMA StutterKeeps ==
    ASSUME Lifecycle, UNCHANGED vars
    PROVE  Lifecycle'
<1>1. /\ UNCHANGED <<authority, manager, resource>>
      /\ UNCHANGED <<tasks, continuation, requests, publisher, shutdown>>
    BY DEF vars
<1>2. /\ UNCHANGED <<head, failures, slot, closed, forcing, served>>
      /\ UNCHANGED <<rev, build, retiring, at, pipeline, producer>>
      /\ UNCHANGED <<shut, cut, sealed, dirty, native, marker>>
    BY <1>1 DEF authority, manager, resource, tasks, continuation
<1>3. /\ UNCHANGED <<gen, source, exec, settle, custody>>
      /\ UNCHANGED <<publisher, early, transport, external, phase, attempts>>
    BY <1>1 DEF requests, shutdown
<1>4. Types' /\ SlotInv' /\ ServedInv' /\ StageInv' /\ EndInv'
    BY <1>2, <1>3 DEF Lifecycle, Types, SlotInv, ServedInv, StageInv, EndInv, InSlot, Retained,
                      Joined, Components
<1>5. \A g \in Generation : WaiterInv(g)' /\ PipelineInv(g)' /\ BarrierInv(g)'
    BY <1>2, <1>3 DEF Lifecycle, WaiterInv, PipelineInv, BarrierInv, Retained, Components
<1>6. \A r \in Request : WorkInv(r)'
    BY <1>2, <1>3 DEF Lifecycle, WorkInv
<1>7. QED
    BY <1>4, <1>5, <1>6 DEF Lifecycle

\* The invariant holds at the start: no generation is made and no request bound.
LEMMA LifecycleStarts ==
    ASSUME Init
    PROVE  Lifecycle
<1>1. Types
    <2>1. head \in 1..MaxRevision /\ failures \in 0..MaxFailures
        BY LifecycleAssumption DEF Init
    <2>2. rev \in [Generation -> 0..MaxRevision]
        BY LifecycleAssumption DEF Init
    <2>3. /\ slot \in [Generation -> {"unmade", "candidate", "current", "retired", "reclaimed"}]
          /\ build \in [Generation -> {"none", "running", "built", "unbound", "broken",
                                       "ready", "snapshotless", "failed"}]
          /\ at \in [Generation -> {"idle", "publish", "build", "drain", "native",
                                    "close", "custody", "remove", "forced", "join"}]
          /\ pipeline \in [Generation -> {None, "clean", "unclean", "forced"}]
          /\ native \in [Generation -> {"running", "forced", "joined"}]
        BY DEF Init
    <2>4. /\ retiring \in [Generation -> BOOLEAN] /\ producer \in [Generation -> BOOLEAN]
          /\ shut \in [Generation -> BOOLEAN] /\ cut \in [Generation -> BOOLEAN]
          /\ sealed \in [Generation -> BOOLEAN] /\ dirty \in [Generation -> BOOLEAN]
        BY DEF Init
    <2>5. /\ gen \in [Request -> Generation \cup {None}]
          /\ exec \in [Request -> TaskState] /\ settle \in [Request -> TaskState]
        BY DEF Init, TaskState
    <2>6. QED
        BY <2>1, <2>2, <2>3, <2>4, <2>5 DEF Init, Types
<1>2. SlotInv
    <2>1. InSlot("retired") = {}
        BY DEF Init, InSlot
    <2>2. Cardinality(InSlot("retired")) <= MaxRetired
        BY <2>1, FS_EmptySet, LifecycleAssumption
    <2>3. QED
        BY <2>2 DEF Init, SlotInv
<1>3. Retained = {}
    BY DEF Init, Retained
<1>4. ServedInv /\ StageInv /\ EndInv
    BY <1>3 DEF Init, ServedInv, StageInv, EndInv
<1>5. \A g \in Generation : WaiterInv(g) /\ PipelineInv(g) /\ BarrierInv(g)
    BY <1>3 DEF Init, WaiterInv, PipelineInv, BarrierInv, Retirement
<1>6. \A r \in Request : WorkInv(r)
    BY DEF Init, WorkInv
<1>7. QED
    BY <1>1, <1>2, <1>4, <1>5, <1>6 DEF Lifecycle

\* Every step keeps the invariant.
LEMMA LifecycleStep ==
    ASSUME Lifecycle, [Next]_vars
    PROVE  Lifecycle'
<1>1. CASE Advance \/ StopPublisher \/ PassOrphaned
    BY <1>1, AdvanceKeeps, StopPublisherKeeps, PassOrphanedKeeps
<1>2. CASE Begin \/ StopEarly \/ TransportJoins \/ JoinEarly
    BY <1>2, BeginKeeps, StopEarlyKeeps, TransportJoinsKeeps, JoinEarlyKeeps
<1>3. CASE GraceEnds \/ LatePass \/ ForceShutdown \/ ForcePipelines \/ ForceEnds \/ Ended
    BY <1>3, GraceEndsKeeps, LatePassKeeps, ForceShutdownKeeps, ForcePipelinesKeeps, ForceEndsKeeps,
       StutterKeeps DEF Ended
<1>4. ASSUME NEW r \in Request,
             \/ Acquire(r) \/ SpawnExecution(r) \/ Publish(r)
             \/ EndExecution(r) \/ PanicExecution(r) \/ DestroyExecution(r)
             \/ EndSettlement(r) \/ DestroySettlement(r) \/ Release(r)
             \/ ReconcileCustody(r) \/ ReconcileMarker(r)
             \/ Reap(r) \/ DropPayload(r)
      PROVE  Lifecycle'
    BY <1>4, AcquireKeeps, SpawnExecutionKeeps, PublishKeeps, EndExecutionKeeps,
       PanicExecutionKeeps, DestroyExecutionKeeps, EndSettlementKeeps, DestroySettlementKeeps,
       ReleaseKeeps, ReconcileCustodyKeeps, ReconcileMarkerKeeps, ReapKeeps, DropPayloadKeeps
<1>5. ASSUME NEW g \in Generation,
             \/ StartCandidate(g) \/ FinishBuild(g) \/ WaitCandidate(g)
             \/ Outdated(g) \/ PassFails(g) \/ CheckHead(g)
             \/ PublishCandidate(g) \/ PublishRefused(g)
      PROVE  Lifecycle'
    BY <1>5, StartCandidateKeeps, FinishBuildKeeps, WaitCandidateKeeps, OutdatedKeeps,
       PassFailsKeeps, CheckHeadKeeps, PublishCandidateKeeps, PublishRefusedKeeps
<1>6. ASSUME NEW g \in Generation,
             \/ BeginRetirement(g) \/ RetireBuild(g) \/ RetireDrain(g)
             \/ RetireNative(g) \/ CloseRegistration(g)
             \/ RetireReport(g) \/ Remove(g) \/ GiveUp(g)
             \/ JoinForced(g) \/ ForcedBuild(g) \/ ForcedNative(g) \/ ForcedDrain(g)
      PROVE  Lifecycle'
    BY <1>6, BeginRetirementKeeps, RetireBuildKeeps, RetireDrainKeeps, RetireNativeKeeps,
       CloseRegistrationKeeps, RetireReportKeeps, RemoveKeeps, GiveUpKeeps, JoinForcedKeeps,
       ForcedBuildKeeps, ForcedNativeKeeps, ForcedDrainKeeps
<1>7. CASE UNCHANGED vars
    BY <1>7, StutterKeeps
<1>8. QED
    BY <1>1, <1>2, <1>3, <1>4, <1>5, <1>6, <1>7 DEF Next

-----------------------------------------------------------------------------
\* What the manager, the retirements and the shutdown promise.

\* The inductive invariant: where each generation is kept, what the holder of its
\* waiter has passed, and what its requests still own (generations.rs, resource.rs,
\* owned_tasks.rs and lifecycle.rs together), in every reachable state.
THEOREM LifecycleHolds == Spec => []Lifecycle
<1>1. Init => Lifecycle
    BY LifecycleStarts
<1>2. Lifecycle /\ [Next]_vars => Lifecycle'
    BY LifecycleStep
<1>3. QED
    BY <1>1, <1>2, PTL DEF Spec

\* A slot that holds at most one generation.
LEMMA OneAtMost ==
    ASSUME SlotInv, NEW s \in {"candidate", "current"}
    PROVE  Cardinality(InSlot(s)) <= 1
<1>1. CASE InSlot(s) = {}
    BY <1>1, FS_EmptySet
<1>2. CASE InSlot(s) # {}
    <2>1. PICK c \in Generation : slot[c] = s
        BY <1>2 DEF InSlot
    <2>2. InSlot(s) = {c}
        BY <2>1 DEF InSlot, SlotInv
    <2>3. QED
        BY <2>2, FS_Singleton
<1>3. QED
    BY <1>1, <1>2

\* The state is well typed; there is never more than one candidate and one current
\* generation, and start_candidate and publish_candidate (generations.rs) together
\* keep the retired ones within max_retired.
THEOREM TypeCorrect == Spec => []TypeOK
<1>1. Lifecycle => TypeOK
    <2> SUFFICES ASSUME Lifecycle PROVE TypeOK
        OBVIOUS
    <2>1. Types /\ SlotInv
        BY DEF Lifecycle
    <2>2. Cardinality(InSlot("current")) <= 1 /\ Cardinality(InSlot("candidate")) <= 1
        BY <2>1, OneAtMost
    <2>3. QED
        BY <2>1, <2>2 DEF Types, SlotInv, TypeOK
<1>2. QED
    BY <1>1, LifecycleHolds, PTL

\* The gate only shows the current generation, which takes requests and is not being
\* retired; after the withdrawal it shows none (http.rs, install and withdraw).
THEOREM ServedIsCurrentHolds == Spec => []ServedIsCurrent
<1>1. Lifecycle => ServedIsCurrent
    BY DEF Lifecycle, ServedInv, ServedIsCurrent
<1>2. QED
    BY <1>1, LifecycleHolds, PTL

\* A generation is given up (generations.rs, retire) only when its build has joined,
\* no request bound to it has anything left in the process, and its continuation
\* worker and producer are closed.
THEOREM ReclaimedIsIdleHolds == Spec => []ReclaimedIsIdle
<1>1. Lifecycle => ReclaimedIsIdle
    <2> SUFFICES ASSUME Lifecycle, NEW g \in InSlot("reclaimed")
                 PROVE  /\ Joined(g) /\ served # g /\ producer[g]
                        /\ Components(g) => native[g] = "joined"
                        /\ \A r \in Bound(g) :
                              /\ r \notin source \cup custody \cup marker
                              /\ {exec[r], settle[r]} \cap (Pending \cup {"payload"}) = {}
        BY DEF ReclaimedIsIdle
    <2>1. g \in Generation /\ slot[g] = "reclaimed"
        BY DEF InSlot
    <2>2. BarrierInv(g) /\ ServedInv /\ Types /\ \A r \in Request : WorkInv(r)
        BY <2>1 DEF Lifecycle
    <2>3. /\ producer[g] /\ Joined(g)
          /\ Components(g) => native[g] = "joined" /\ sealed[g]
        BY <2>1, <2>2 DEF BarrierInv, Joined, Components
    <2>4. served # g
        BY <2>1, <2>2, LifecycleAssumption DEF ServedInv
    <2>5. ASSUME NEW r \in Bound(g)
          PROVE  /\ r \notin source \cup custody \cup marker
                 /\ exec[r] \notin Pending \cup {"payload"}
                 /\ settle[r] \notin Pending \cup {"payload"}
        <3>1. r \in Request /\ gen[r] = g /\ gen[r] # None
            BY <2>1, LifecycleAssumption DEF Bound
        <3>2. Components(g)
            BY <2>2, <3>1 DEF WorkInv, Components
        <3>3. QED
            BY <2>1, <2>2, <2>3, <3>1, <3>2 DEF WorkInv
    <2>6. QED
        BY <2>3, <2>4, <2>5
<1>2. QED
    BY <1>1, LifecycleHolds, PTL

\* Nothing is registered with a pipeline after its drain has ended (owned_tasks.rs,
\* poll_joined): its summary is complete.
THEOREM SealedIsCompleteHolds == Spec => []SealedIsComplete
<1>1. Lifecycle => SealedIsComplete
    <2> SUFFICES ASSUME Lifecycle, NEW g \in Generation, sealed[g]
                 PROVE  FixedPoint(g)
        BY DEF SealedIsComplete
    <2>1. ASSUME NEW r \in Bound(g)
          PROVE  /\ r \notin source /\ exec[r] \notin Pending /\ settle[r] \notin Pending
                 /\ exec[r] # "payload"
        <3>1. r \in Request /\ gen[r] = g /\ gen[r] # None /\ WorkInv(r)
            BY LifecycleAssumption DEF Bound, Lifecycle
        <3>2. QED
            BY <3>1 DEF WorkInv
    <2>2. QED
        BY <2>1 DEF FixedPoint, Busy
<1>2. QED
    BY <1>1, LifecycleHolds, PTL

\* Once a pipeline is forced (owned_tasks.rs, force and spawn) none of its work is
\* polled again; a build that returns after the force is forced as well.
THEOREM ForceIsStickyHolds == Spec => []ForceIsSticky
<1>1. Lifecycle => ForceIsSticky
    <2> SUFFICES ASSUME Lifecycle PROVE ForceIsSticky
        OBVIOUS
    <2>1. \A r \in Request :
             gen[r] # None /\ cut[gen[r]] => exec[r] # "running" /\ settle[r] # "running"
        BY DEF Lifecycle, WorkInv
    <2>2. forcing => \A g \in Retained :
             Components(g) => shut[g] /\ native[g] \in {"forced", "joined"}
        BY DEF Lifecycle, PipelineInv, Retained
    <2>3. QED
        BY <2>1, <2>2 DEF ForceIsSticky
<1>2. QED
    BY <1>1, LifecycleHolds, PTL

\* What the shutdown reports is true (lifecycle.rs, report).  A quiescent report: no
\* worker, source, task, build or continuation worker of any generation is left.  A
\* clean one: nothing is lost either.
THEOREM ReportIsTrueHolds == Spec => []ReportIsTrue
<1>1. ASSUME Lifecycle, phase = "over"
      PROVE  /\ publisher = "stopped" /\ ~ early /\ transport = "joined"
             /\ source = {}
             /\ \A g \in Generation : slot[g] # "unmade" =>
                   Joined(g) /\ (Components(g) => native[g] = "joined" /\ sealed[g])
    <2>1. EndInv /\ Types /\ \A g \in Generation : BarrierInv(g)
        BY <1>1 DEF Lifecycle
    <2>2. ASSUME NEW g \in Generation, slot[g] # "unmade"
          PROVE  Joined(g) /\ (Components(g) => native[g] = "joined" /\ sealed[g])
        <3>1. g \in Retained \/ slot[g] = "reclaimed"
            BY <2>1, <2>2 DEF Types, Retained
        <3>2. CASE g \in Retained
            BY <1>1, <2>1, <3>2 DEF EndInv
        <3>3. CASE slot[g] = "reclaimed"
            BY <2>1, <3>3 DEF BarrierInv, Joined, Components
        <3>4. QED
            BY <3>1, <3>2, <3>3
    <2>3. QED
        BY <1>1, <2>1, <2>2 DEF EndInv
<1>2. ASSUME Lifecycle, phase = "over", NEW r \in Request
      PROVE  /\ exec[r] \notin Pending \cup {"payload"}
             /\ settle[r] \notin Pending \cup {"payload"}
    <2>1. WorkInv(r) /\ SlotInv /\ Types
        BY <1>2 DEF Lifecycle
    <2>2. CASE gen[r] = None
        BY <2>1, <2>2 DEF WorkInv, Pending, Live
    <2>3. CASE gen[r] # None
        <3>1. gen[r] \in Generation /\ build[gen[r]] = "ready" /\ slot[gen[r]] # "unmade"
            BY <2>1, <2>3 DEF WorkInv, SlotInv, Types
        <3>2. sealed[gen[r]]
            BY <1>1, <1>2, <3>1 DEF Components
        <3>3. QED
            BY <2>1, <2>3, <3>2 DEF WorkInv
    <2>4. QED
        BY <2>2, <2>3
<1>3. ASSUME Lifecycle, Clean
      PROVE  /\ custody = {} /\ marker = {} /\ Retained = {}
             /\ \A r \in Request :
                   gen[r] \in attempts => {exec[r], settle[r]} \subseteq {"none", "joined"}
    <2>1. /\ phase = "over" /\ ~ forcing
          /\ \A g \in attempts : build[g] = "ready" /\ pipeline[g] = "clean"
        BY <1>3 DEF Clean
    <2>2. EndInv /\ Types /\ SlotInv
        BY <1>3 DEF Lifecycle
    <2>3. Retained = {}
        BY <2>1, <2>2 DEF EndInv
    <2>4. ASSUME NEW r \in Request
          PROVE  r \notin custody /\ r \notin marker
        <3>1. WorkInv(r)
            BY <1>3 DEF Lifecycle
        <3>2. CASE gen[r] = None
            BY <3>1, <3>2 DEF WorkInv
        <3>3. CASE gen[r] # None
            <4>1. gen[r] \in Generation /\ build[gen[r]] = "ready" /\ slot[gen[r]] # "unmade"
                BY <2>2, <3>1, <3>3 DEF WorkInv, SlotInv, Types
            <4>2. slot[gen[r]] = "reclaimed"
                BY <2>2, <2>3, <4>1 DEF Types, Retained
            <4>3. producer[gen[r]]
                BY <1>3, <4>1, <4>2 DEF Lifecycle, BarrierInv
            <4>4. QED
                BY <3>1, <3>3, <4>2, <4>3 DEF WorkInv
        <3>4. QED
            BY <3>2, <3>3
    <2>5. ASSUME NEW r \in Request, gen[r] \in attempts
          PROVE  exec[r] \in {"none", "joined"} /\ settle[r] \in {"none", "joined"}
        <3>1. gen[r] \in Generation /\ gen[r] # None /\ pipeline[gen[r]] = "clean"
            BY <2>1, <2>2, <2>5, LifecycleAssumption DEF Types
        <3>2. ~ dirty[gen[r]]
            BY <1>3, <3>1 DEF Lifecycle, PipelineInv
        <3>3. exec[r] \notin {"gone", "payload"} /\ settle[r] # "gone"
            BY <1>3, <3>1, <3>2 DEF Lifecycle, WorkInv
        <3>4. exec[r] \in TaskState /\ settle[r] \in TaskState
            BY <2>2 DEF Types
        <3>5. QED
            BY <1>2, <1>3, <2>1, <3>3, <3>4 DEF TaskState
    <2>6. QED
        BY <2>2, <2>3, <2>4, <2>5 DEF Types
<1>4. Lifecycle => ReportIsTrue
    <2> SUFFICES ASSUME Lifecycle PROVE ReportIsTrue
        OBVIOUS
    <2>1. phase = "over" =>
             /\ publisher = "stopped" /\ ~ early /\ transport = "joined"
             /\ source = {}
             /\ \A r \in Request : {exec[r], settle[r]} \cap (Pending \cup {"payload"}) = {}
             /\ \A g \in Generation : slot[g] # "unmade" =>
                   Joined(g) /\ (Components(g) => native[g] = "joined")
        BY <1>1, <1>2
    <2>2. QED
        BY <1>3, <2>1 DEF ReportIsTrue
<1>5. QED
    BY <1>4, LifecycleHolds, PTL
=============================================================================
