--------------------------- MODULE RequestCustody ---------------------------
(***************************************************************************)
(* One process's custody of its requests: ownership.rs, dispatched.rs and  *)
(* finish_delivery of admitted.rs.                                         *)
(*                                                                         *)
(* A request holds a reference to its registry entry.  Its futures may be  *)
(* dropped at any await; once the registry holds the last reference, a     *)
(* visitor (the custody worker, or the drain of a generation) settles the  *)
(* request's durable execution and gives the slot back.                    *)
(*                                                                         *)
(* The database commits a transaction whose reply is never seen, possibly  *)
(* after the future that sent it is gone: such a transaction is in flight. *)
(* It keeps its row locks, so every locking operation waits for it, while  *)
(* a plain read returns the row from before it.                            *)
(*                                                                         *)
(* An outcome is named by its stable code; a failure that the provider     *)
(* reported is "failed".  Definitions named Wrong... are deliberately      *)
(* wrong variants of the definition that follows them and are not used.    *)
(***************************************************************************)
EXTENDS Naturals, Sequences, FiniteSets

CONSTANTS
    Request,
    Generation,
    GenerationOf,  \* the generation that serves each request
    None,
    Limit,         \* local_max_in_flight, the registry's slots
    MaxAttempts,   \* MAX_ATTEMPTS of one execution
    Episodic,      \* the requests whose execution is bound to an episode
    Calling        \* bound: the requests that come to call a provider

ASSUME CustodyAssumption ==
    /\ GenerationOf \in [Request -> Generation]
    /\ Limit \in Nat \ {0}
    /\ MaxAttempts \in Nat
    /\ Calling \subseteq Request /\ Episodic \subseteq Request
    /\ None \notin {"succeeded", "failed"} \cup Generation

VARIABLES
    \* The process.
    ref,             \* who holds the entry: the request too, or the registry alone
    phase,           \* Custody.phase
    pipelineFailed,  \* Custody.pipeline_failed
    tracker,         \* Custody.dispatch
    future,          \* the live provider Attempt of the request
    job,             \* the reconciliation or delivery under way for the entry
    owned,           \* Entries.owned: the generation of each owned entry, or None
    queue,           \* Entries.queued
    generations,     \* Entries.generations
    slots,           \* permits left in the semaphore
    \* The database.
    exec,            \* the execution row of the request
    flight,          \* the row that an unacknowledged transaction will store
    leased,          \* the lease of the process's instance has not expired
    full,            \* the requests whose episode's backlog other executions fill
    \* History.
    sent,            \* the attempts for which the provider was called
    seen,            \* the terminal that each attempt observed
    delivered        \* the requests whose success was made visible

process == <<ref, phase, pipelineFailed, tracker, future, job>>
registry == <<owned, queue, generations, slots>>
history == <<sent, seen, delivered>>
vars == <<process, registry, exec, flight, leased, full, history>>

-----------------------------------------------------------------------------
Observed == {"succeeded", "failed"}
Outcome == Observed \cup {"pipeline_failed", "request_ended_before_dispatch",
                          "owner_lost_before_dispatch"}
AttemptState == Observed \cup {"prepared", "dispatched", "not_dispatched",
                               "unknown", "resolved"}

Execution ==
    [state    : Outcome \cup {"absent", "open", "unknown", "resolved"},
     attempts : UNION {[1..n -> AttemptState] : n \in 0..MaxAttempts}]

Tracker == [occupied : BOOLEAN, dropped : BOOLEAN,
            id : 0..MaxAttempts, evidence : Observed \cup {None}]

Free == [occupied |-> FALSE, dropped |-> FALSE, id |-> 0, evidence |-> None]

\* "captured": the terminal was handed to a transaction that failed.
Future == [at : {"none", "prepared", "sent", "captured"}, terminal : Observed \cup {None}]

NoFuture == [at |-> "none", terminal |-> None]

\* todo and outcome are what a plain read returned.
Job == [at       : {"idle", "start", "track", "interrupt", "read", "finish", "done"},
        todo     : AttemptState \cup {None},
        outcome  : Outcome \cup {None},
        success  : BOOLEAN]

Idle == [at |-> "idle", todo |-> None, outcome |-> None, success |-> FALSE]

TypeOK ==
    /\ ref \in [Request -> {"new", "held", "dropped"}]
    /\ phase \in [Request -> {"NotStarted", "UnknownAck", "Accepted", "NotAccepted"}]
    /\ pipelineFailed \in [Request -> BOOLEAN]
    /\ tracker \in [Request -> Tracker]
    /\ future \in [Request -> Future]
    /\ job \in [Request -> Job]
    /\ owned \in [Request -> Generation \cup {None}]
    /\ queue \in Seq(Request)
    /\ generations \in [Generation -> Nat]
    /\ slots \in 0..Limit
    /\ exec \in [Request -> Execution]
    /\ flight \in [Request -> Execution \cup {None}]
    /\ leased \in BOOLEAN
    /\ full \subseteq Episodic
    /\ sent \in [Request -> SUBSET (1..MaxAttempts)]
    /\ seen \in [Request -> [1..MaxAttempts -> Observed \cup {None}]]
    /\ delivered \in SUBSET Request

Init ==
    /\ ref = [r \in Request |-> "new"]
    /\ phase = [r \in Request |-> "NotStarted"]
    /\ pipelineFailed = [r \in Request |-> FALSE]
    /\ tracker = [r \in Request |-> Free]
    /\ future = [r \in Request |-> NoFuture]
    /\ job = [r \in Request |-> Idle]
    /\ owned = [r \in Request |-> None]
    /\ queue = <<>>
    /\ generations = [g \in Generation |-> 0]
    /\ slots = Limit
    /\ exec = [r \in Request |-> [state |-> "absent", attempts |-> <<>>]]
    /\ flight = [r \in Request |-> None]
    /\ leased = TRUE
    /\ full = {}
    /\ sent = [r \in Request |-> {}]
    /\ seen = [r \in Request |-> [i \in 1..MaxAttempts |-> None]]
    /\ delivered = {}

-----------------------------------------------------------------------------
\* The engine's transactions on one execution row.

Accepted == [state |-> "open", attempts |-> <<>>]

\* prepare_observed_attempt: no earlier attempt may be unresolved.
MayPrepare(e) ==
    /\ e.state = "open"
    /\ Len(e.attempts) < MaxAttempts
    /\ \A i \in DOMAIN e.attempts : e.attempts[i] \in Observed \cup {"not_dispatched"}

Prepared(e) == [e EXCEPT !.attempts = Append(@, "prepared")]

MayDispatch(e, i) == e.state = "open" /\ e.attempts[i] = "prepared"

Dispatched(e, i) == [e EXCEPT !.attempts[i] = "dispatched"]

\* install_projection_fence: a full backlog refuses an execution that is not
\* in it.  One with observed evidence is, until it is settled and projected.
Fenceable(r) ==
    \/ r \notin full
    \/ \E i \in DOMAIN exec[r].attempts : exec[r].attempts[i] \in Observed

\* record_observed_terminal: repeating the same terminal changes nothing.
MayRecord(r, i, terminal) ==
    LET e == exec[r]
    IN  \/ e.attempts[i] = terminal
        \/ /\ e.attempts[i] \in {"dispatched", "unknown"}
           /\ e.state \in {"open", "unknown"}
           /\ Fenceable(r)

Recorded(e, i, terminal) ==
    IF e.attempts[i] = terminal THEN e
    ELSE [state |-> "open", attempts |-> [e.attempts EXCEPT ![i] = terminal]]

\* Wrong: an attempt that was dispatched since the read is abandoned as well.
WrongMayAbandon(e, i) == e.attempts[i] \in {"prepared", "dispatched", "not_dispatched"}

\* abandon_prepared: only a prepared attempt is known to be unsent.
MayAbandon(e, i) == e.attempts[i] \in {"prepared", "not_dispatched"}

Abandoned(e, i) == [e EXCEPT !.attempts[i] = "not_dispatched"]

\* mark_unknown: a terminal recorded since the read is left alone.
MayMark(e, i) == e.attempts[i] \in Observed \cup {"dispatched", "unknown"}

Marked(e, i) ==
    IF e.attempts[i] = "dispatched"
    THEN [state |-> "unknown", attempts |-> [e.attempts EXCEPT ![i] = "unknown"]]
    ELSE e

\* The latest terminal that an attempt observed, or None.
LastObserved(e) ==
    LET ended == {i \in DOMAIN e.attempts : e.attempts[i] \in Observed}
    IN  IF ended = {} THEN None
        ELSE e.attempts[CHOOSE i \in ended : \A j \in ended : j <= i]

\* finalize_locked: only a known outcome of every attempt ends an execution.
MayFinalize(r, outcome) ==
    LET e == exec[r]
    IN  \/ e.state = outcome
        \/ /\ e.state = "open"
           /\ \A i \in DOMAIN e.attempts :
                 e.attempts[i] \in Observed \cup {"prepared", "not_dispatched"}
           /\ outcome = "succeeded" => LastObserved(e) = "succeeded"
           /\ Fenceable(r)

Finalized(e, outcome) ==
    [state    |-> outcome,
     attempts |-> [i \in DOMAIN e.attempts |->
                      IF e.attempts[i] = "prepared" THEN "not_dispatched" ELSE e.attempts[i]]]

\* Wrong: an attempt that was sent does not count until it has a terminal.
WrongRecoveredRow(e) ==
    Finalized(e, IF LastObserved(e) = None THEN "owner_lost_before_dispatch"
                 ELSE LastObserved(e))

\* reconcile_one of another instance, once the owner's lease has expired.
RecoveredRow(e) ==
    IF \E i \in DOMAIN e.attempts : e.attempts[i] = "dispatched"
    THEN [state    |-> "unknown",
          attempts |-> [i \in DOMAIN e.attempts |->
                           IF e.attempts[i] = "dispatched" THEN "unknown" ELSE e.attempts[i]]]
    ELSE Finalized(e, IF LastObserved(e) = None THEN "owner_lost_before_dispatch"
                      ELSE LastObserved(e))

\* resolve_in: an operator asserts the outcome of the one unknown attempt.
ResolvedRow(e) ==
    [state    |-> "resolved",
     attempts |-> [i \in DOMAIN e.attempts |->
                      IF e.attempts[i] = "unknown" THEN "resolved" ELSE e.attempts[i]]]

\* A transaction on the row of r takes its locks once no other one holds them;
\* then it stores the row and is acknowledged, or nobody learns what became
\* of it.
Commit(r, row) ==
    /\ flight[r] = None
    /\ exec' = [exec EXCEPT ![r] = row]
    /\ UNCHANGED flight

Lose(r, row) ==
    /\ flight[r] = None
    /\ flight' = [flight EXCEPT ![r] = row]
    /\ UNCHANGED exec

-----------------------------------------------------------------------------
\* The request: reservation, admission, provider attempts.

Held(r) == ref[r] = "held" /\ job[r].at = "idle"

\* reserve_for: take a slot or be rejected, never wait.
Reserve(r) ==
    /\ ref[r] = "new"
    /\ slots > 0
    /\ slots' = slots - 1
    /\ ref' = [ref EXCEPT ![r] = "held"]
    /\ owned' = [owned EXCEPT ![r] = GenerationOf[r]]
    /\ queue' = Append(queue, r)
    /\ generations' = [generations EXCEPT ![GenerationOf[r]] = @ + 1]
    /\ UNCHANGED <<phase, pipelineFailed, tracker, future, job, exec, flight, leased, full,
                   history>>

Admitting(r) == Held(r) /\ phase[r] = "NotStarted"

AdmitAccepted(r) ==
    /\ Admitting(r)
    /\ leased
    /\ Commit(r, Accepted)
    /\ phase' = [phase EXCEPT ![r] = "Accepted"]
    /\ UNCHANGED <<ref, pipelineFailed, tracker, future, job, registry, leased, full, history>>

\* A typed rejection, or the execution of an earlier request with the same key.
AdmitRefused(r) ==
    /\ Admitting(r)
    /\ phase' = [phase EXCEPT ![r] = "NotAccepted"]
    /\ ref' = [ref EXCEPT ![r] = "dropped"]
    /\ UNCHANGED <<pipelineFailed, tracker, future, job, registry, exec, flight, leased, full,
                   history>>

\* What a storage error or a cancelled admission leaves behind.
UncertainPhase == "UnknownAck"

AdmitUncertain(r) ==
    /\ Admitting(r)
    /\ phase' = [phase EXCEPT ![r] = UncertainPhase]
    /\ ref' = [ref EXCEPT ![r] = "dropped"]
    /\ \/ leased /\ Lose(r, Accepted)
       \/ UNCHANGED <<exec, flight>>
    /\ UNCHANGED <<pipelineFailed, tracker, future, job, registry, leased, full, history>>

\* Wrong: a terminal that was observed but not stored is forgotten.
WrongDroppedTracker(r) == [tracker[r] EXCEPT !.dropped = TRUE]

\* Drop for Attempt: the tracker keeps what the attempt observed.
DroppedTracker(r) == [tracker[r] EXCEPT !.dropped = TRUE, !.evidence = future[r].terminal]

\* begin refuses a second attempt while the tracker is occupied.
MayBegin(r) ==
    /\ r \in Calling
    /\ Held(r)
    /\ phase[r] = "Accepted"
    /\ future[r].at = "none"
    /\ ~ tracker[r].occupied

Begin(r) ==
    /\ MayBegin(r)
    /\ leased
    /\ MayPrepare(exec[r])
    /\ Commit(r, Prepared(exec[r]))
    /\ tracker' = [tracker EXCEPT ![r] =
                      [Free EXCEPT !.occupied = TRUE, !.id = Len(exec[r].attempts) + 1]]
    /\ future' = [future EXCEPT ![r].at = "prepared"]
    /\ UNCHANGED <<ref, phase, pipelineFailed, job, registry, leased, full, history>>

\* Preparation fails, or its reply is lost, and the attempt is dropped.
BeginFails(r) ==
    /\ MayBegin(r)
    /\ \/ leased /\ MayPrepare(exec[r]) /\ Lose(r, Prepared(exec[r]))
       \/ UNCHANGED <<exec, flight>>
    /\ tracker' = [tracker EXCEPT ![r] = [Free EXCEPT !.occupied = TRUE, !.dropped = TRUE]]
    /\ UNCHANGED <<ref, phase, pipelineFailed, future, job, registry, leased, full, history>>

\* Only an acknowledged dispatch intent sends anything.
Dispatch(r) ==
    /\ Held(r)
    /\ future[r].at = "prepared"
    /\ leased
    /\ MayDispatch(exec[r], tracker[r].id)
    /\ Commit(r, Dispatched(exec[r], tracker[r].id))
    /\ future' = [future EXCEPT ![r].at = "sent"]
    /\ sent' = [sent EXCEPT ![r] = @ \cup {tracker[r].id}]
    /\ UNCHANGED <<ref, phase, pipelineFailed, tracker, job, registry, leased, full, seen,
                   delivered>>

DispatchFails(r) ==
    /\ Held(r)
    /\ future[r].at = "prepared"
    /\ \/ /\ leased
          /\ MayDispatch(exec[r], tracker[r].id)
          /\ Lose(r, Dispatched(exec[r], tracker[r].id))
       \/ UNCHANGED <<exec, flight>>
    /\ tracker' = [tracker EXCEPT ![r] = DroppedTracker(r)]
    /\ future' = [future EXCEPT ![r] = NoFuture]
    /\ UNCHANGED <<ref, phase, pipelineFailed, job, registry, leased, full, history>>

\* observe: the provider's terminal, which a later event of the stream may
\* replace.
Observe(r, terminal) ==
    /\ Held(r)
    /\ future[r].at = "sent"
    /\ future[r].terminal # terminal
    /\ future' = [future EXCEPT ![r].terminal = terminal]
    /\ seen' = [seen EXCEPT ![r][tracker[r].id] = terminal]
    /\ UNCHANGED <<ref, phase, pipelineFailed, tracker, job, registry, exec, flight, leased,
                   full, sent, delivered>>

Persisting(r) == Held(r) /\ future[r].at = "sent" /\ future[r].terminal # None

\* persist: the tracker is cleared once the terminal is known to be stored.
Persist(r) ==
    /\ Persisting(r)
    /\ MayRecord(r, tracker[r].id, future[r].terminal)
    /\ Commit(r, Recorded(exec[r], tracker[r].id, future[r].terminal))
    /\ tracker' = [tracker EXCEPT ![r] = Free]
    /\ future' = [future EXCEPT ![r] = NoFuture]
    /\ UNCHANGED <<ref, phase, pipelineFailed, job, registry, leased, full, history>>

PersistFails(r) ==
    /\ Persisting(r)
    /\ \/ /\ MayRecord(r, tracker[r].id, future[r].terminal)
          /\ Lose(r, Recorded(exec[r], tracker[r].id, future[r].terminal))
       \/ UNCHANGED <<exec, flight>>
    /\ tracker' = [tracker EXCEPT ![r].evidence = future[r].terminal]
    /\ future' = [future EXCEPT ![r].at = "captured"]
    /\ UNCHANGED <<ref, phase, pipelineFailed, job, registry, leased, full, history>>

\* The provider future ends without storing a terminal.
EndAttempt(r) ==
    /\ Held(r)
    /\ future[r].at # "none"
    /\ tracker' = [tracker EXCEPT ![r] = DroppedTracker(r)]
    /\ future' = [future EXCEPT ![r] = NoFuture]
    /\ UNCHANGED <<ref, phase, pipelineFailed, job, registry, exec, flight, leased, full,
                   history>>

\* record_pipeline_outcome(false).
PipelineFails(r) ==
    /\ Held(r)
    /\ phase[r] = "Accepted"
    /\ pipelineFailed' = [pipelineFailed EXCEPT ![r] = TRUE]
    /\ UNCHANGED <<ref, phase, tracker, future, job, registry, exec, flight, leased, full,
                   history>>

\* Every future of the request is dropped, wherever it is.
Drop(r) ==
    /\ ref[r] = "held"
    /\ ref' = [ref EXCEPT ![r] = "dropped"]
    /\ tracker' = IF future[r].at = "none" THEN tracker
                  ELSE [tracker EXCEPT ![r] = DroppedTracker(r)]
    /\ future' = [future EXCEPT ![r] = NoFuture]
    /\ job' = [job EXCEPT ![r] = Idle]
    /\ UNCHANGED <<phase, pipelineFailed, registry, exec, flight, leased, full, history>>

-----------------------------------------------------------------------------
\* Jobs: the request reconciles its dropped attempt before it gives up
\* fallback, or finishes its delivery; a visitor does both for an entry that
\* no request holds.

Enter(r, at) == job' = [job EXCEPT ![r].at = at]

\* reconcile_dispatch, called by classify_failure.
ReconcileDispatch(r) ==
    /\ Held(r)
    /\ tracker[r].occupied /\ tracker[r].dropped
    /\ Enter(r, "track")
    /\ UNCHANGED <<ref, phase, pipelineFailed, tracker, future, registry, exec, flight, leased,
                   full, history>>

\* finish_delivery: an occupied tracker ends it at once.
FinishDelivery(r, success) ==
    /\ Held(r)
    /\ phase[r] = "Accepted"
    /\ future[r].at = "none"
    /\ pipelineFailed' = [pipelineFailed EXCEPT ![r] = @ \/ ~ success]
    /\ job' = [job EXCEPT ![r] = [Idle EXCEPT
                  !.at = IF tracker[r].occupied THEN "done" ELSE "read",
                  !.success = success]]
    /\ UNCHANGED <<ref, phase, tracker, future, registry, exec, flight, leased, full, history>>

\* The registry's reference is the only one.
Quiescent(r) == ref[r] = "dropped"

\* Wrong: a live entry stays in front.
WrongRotated == queue

\* A live entry goes to the back.
Rotated == Append(Tail(queue), Head(queue))

\* reconcile_one: the oldest entry is visited if no request holds it.
Visit ==
    /\ queue # <<>>
    /\ IF Quiescent(Head(queue))
       THEN queue' = Tail(queue) /\ Enter(Head(queue), "start")
       ELSE queue' = Rotated /\ UNCHANGED job
    /\ UNCHANGED <<ref, phase, pipelineFailed, tracker, future, owned, generations, slots,
                   exec, flight, leased, full, history>>

\* Candidate::retire, and the permit dropped with the entry.
Retire(r) ==
    /\ job' = [job EXCEPT ![r] = Idle]
    /\ owned' = [owned EXCEPT ![r] = None]
    /\ generations' = [generations EXCEPT ![owned[r]] = @ - 1]
    /\ slots' = slots + 1
    /\ UNCHANGED queue

\* Wrong: a failed visit forgets to put the entry back.
WrongRequeue(r) == UNCHANGED queue

\* Drop for Candidate.
Requeue(r) == queue' = Append(queue, r)

\* A job ends in an error; the entry keeps its evidence and its slot.
GiveUp(r) ==
    IF ref[r] = "held"
    THEN /\ job' = [job EXCEPT ![r] = [Idle EXCEPT
                       !.at = IF job[r].at \in {"track", "interrupt"} THEN "idle" ELSE "done"]]
         /\ UNCHANGED registry
    ELSE /\ job' = [job EXCEPT ![r] = Idle]
         /\ Requeue(r)
         /\ UNCHANGED <<owned, generations, slots>>

\* An error of the database, a lock that is not granted in time, a refused
\* transition, or the visitor's own cancellation.
JobFails(r) ==
    /\ job[r].at \notin {"idle", "done"}
    /\ GiveUp(r)
    /\ UNCHANGED <<ref, phase, pipelineFailed, tracker, future, exec, flight, leased, full,
                   history>>

\* Wrong: the probe does not wait for an admission in flight.
WrongProbed(r) == TRUE

\* quiescent_execution: the exclusive instance lock waits for an admission in
\* flight, so what it reads is final.
Probed(r) == flight[r] = None

\* Custody::reconcile, up to the tracker.
Start(r) ==
    /\ job[r].at = "start"
    /\ \/ /\ phase[r] \in {"NotStarted", "NotAccepted"}
          /\ Retire(r)
          /\ UNCHANGED phase
       \/ /\ phase[r] = "UnknownAck"
          /\ Probed(r)
          /\ IF exec[r].state = "absent"
             THEN Retire(r) /\ UNCHANGED phase
             ELSE /\ phase' = [phase EXCEPT ![r] = "Accepted"]
                  /\ Enter(r, "track")
                  /\ UNCHANGED registry
       \/ /\ phase[r] = "Accepted"
          /\ Enter(r, "track")
          /\ UNCHANGED <<phase, registry>>
    /\ UNCHANGED <<ref, pipelineFailed, tracker, future, exec, flight, leased, full, history>>

\* The attempts of the row that are still open: at most one.
Unsettled(e) == {i \in DOMAIN e.attempts : e.attempts[i] \in {"prepared", "dispatched"}}

\* What follows the tracker's reconciliation.
Tracked(r) == IF ref[r] = "held" THEN "idle" ELSE "read"

HasEvidence(r) == tracker[r].id # 0 /\ tracker[r].evidence # None

\* Tracker::reconcile: a dropped attempt either left evidence, which is
\* recorded, or is looked up in the row.
Track(r) ==
    /\ job[r].at = "track"
    /\ IF tracker[r].occupied /\ tracker[r].dropped
       THEN IF HasEvidence(r)
            THEN /\ MayRecord(r, tracker[r].id, tracker[r].evidence)
                 /\ Commit(r, Recorded(exec[r], tracker[r].id, tracker[r].evidence))
                 /\ Enter(r, Tracked(r))
            ELSE /\ job' = IF Unsettled(exec[r]) = {}
                           THEN [job EXCEPT ![r].at = Tracked(r)]
                           ELSE [job EXCEPT ![r].at = "interrupt",
                                            ![r].todo = exec[r].attempts[Len(exec[r].attempts)]]
                 /\ UNCHANGED <<exec, flight>>
       ELSE /\ ~ tracker[r].occupied
            /\ Enter(r, Tracked(r))
            /\ UNCHANGED <<exec, flight>>
    /\ UNCHANGED <<ref, phase, pipelineFailed, tracker, future, registry, leased, full, history>>

\* The reply of a job's transaction is lost, and the job ends.
TrackLost(r) ==
    /\ job[r].at = "track"
    /\ tracker[r].occupied /\ tracker[r].dropped /\ HasEvidence(r)
    /\ MayRecord(r, tracker[r].id, tracker[r].evidence)
    /\ Lose(r, Recorded(exec[r], tracker[r].id, tracker[r].evidence))
    /\ GiveUp(r)
    /\ UNCHANGED <<ref, phase, pipelineFailed, tracker, future, leased, full, history>>

\* interrupt_attempts, for the attempt that its read showed unsettled: the row
\* is examined again under its lock.
MayInterrupt(r) ==
    LET i == Len(exec[r].attempts)
    IN  \/ job[r].todo = "prepared" /\ MayAbandon(exec[r], i)
        \/ job[r].todo = "dispatched" /\ MayMark(exec[r], i)

Interrupted(r) ==
    LET i == Len(exec[r].attempts)
    IN  IF job[r].todo = "prepared" THEN Abandoned(exec[r], i) ELSE Marked(exec[r], i)

Interrupt(r) ==
    /\ job[r].at = "interrupt"
    /\ MayInterrupt(r)
    /\ Commit(r, Interrupted(r))
    /\ job' = [job EXCEPT ![r].at = Tracked(r), ![r].todo = None]
    /\ UNCHANGED <<ref, phase, pipelineFailed, tracker, future, registry, leased, full, history>>

InterruptLost(r) ==
    /\ job[r].at = "interrupt"
    /\ MayInterrupt(r)
    /\ Lose(r, Interrupted(r))
    /\ GiveUp(r)
    /\ UNCHANGED <<ref, phase, pipelineFailed, tracker, future, leased, full, history>>

\* Wrong: a pipeline that failed is forgotten.
WrongTerminalOutcome(r) ==
    IF LastObserved(exec[r]) = None THEN "request_ended_before_dispatch"
    ELSE LastObserved(exec[r])

\* terminal_outcome: a failure that the provider reported is kept; a failed
\* pipeline never ends in success.
TerminalOutcome(r) ==
    CASE LastObserved(exec[r]) = "failed" -> "failed"
      [] LastObserved(exec[r]) # "failed" /\ pipelineFailed[r] -> "pipeline_failed"
      [] LastObserved(exec[r]) = "succeeded" /\ ~ pipelineFailed[r] -> "succeeded"
      [] OTHER -> "request_ended_before_dispatch"

\* The states that an entry retires on.
Settled(e) == e.state \notin {"absent", "open"}

\* owned_execution: a plain read decides what to store.
Read(r) ==
    /\ job[r].at = "read"
    /\ IF ref[r] = "dropped" /\ Settled(exec[r])
       THEN Retire(r)
       ELSE /\ job' = IF job[r].success /\ TerminalOutcome(r) # "succeeded"
                      THEN [job EXCEPT ![r].at = "done"]
                      ELSE [job EXCEPT ![r].at = "finish", ![r].outcome = TerminalOutcome(r)]
            /\ UNCHANGED registry
    /\ UNCHANGED <<ref, phase, pipelineFailed, tracker, future, exec, flight, leased, full,
                   history>>

\* finish_with_inputs; a delivery that claimed success makes it visible now.
Finish(r) ==
    /\ job[r].at = "finish"
    /\ MayFinalize(r, job[r].outcome)
    /\ Commit(r, Finalized(exec[r], job[r].outcome))
    /\ IF ref[r] = "held"
       THEN /\ Enter(r, "done")
            /\ delivered' = IF job[r].success THEN delivered \cup {r} ELSE delivered
            /\ UNCHANGED registry
       ELSE Retire(r) /\ UNCHANGED delivered
    /\ UNCHANGED <<ref, phase, pipelineFailed, tracker, future, leased, full, sent, seen>>

FinishLost(r) ==
    /\ job[r].at = "finish"
    /\ MayFinalize(r, job[r].outcome)
    /\ Lose(r, Finalized(exec[r], job[r].outcome))
    /\ GiveUp(r)
    /\ UNCHANGED <<ref, phase, pipelineFailed, tracker, future, leased, full, history>>

-----------------------------------------------------------------------------
\* The database, the other instances and the operator.

LateCommit(r) ==
    /\ flight[r] # None
    /\ exec' = [exec EXCEPT ![r] = flight[r]]
    /\ flight' = [flight EXCEPT ![r] = None]
    /\ UNCHANGED <<process, registry, leased, full, history>>

LateRollback(r) ==
    /\ flight[r] # None
    /\ flight' = [flight EXCEPT ![r] = None]
    /\ UNCHANGED <<process, registry, exec, leased, full, history>>

\* An expired lease cannot be renewed.
Expire ==
    /\ leased
    /\ leased' = FALSE
    /\ UNCHANGED <<process, registry, exec, flight, full, history>>

\* Other executions of the episode fill its backlog, and are projected.
Fill(r) ==
    /\ r \in Episodic \ full
    /\ exec[r].state \in {"open", "unknown"}
    /\ full' = full \cup {r}
    /\ UNCHANGED <<process, registry, exec, flight, leased, history>>

Project(r) ==
    /\ r \in full
    /\ full' = full \ {r}
    /\ UNCHANGED <<process, registry, exec, flight, leased, history>>

Recover(r) ==
    /\ ~ leased
    /\ exec[r].state = "open"
    /\ Fenceable(r) \/ \E i \in DOMAIN exec[r].attempts : exec[r].attempts[i] = "dispatched"
    /\ Commit(r, RecoveredRow(exec[r]))
    /\ UNCHANGED <<process, registry, leased, full, history>>

Resolve(r) ==
    /\ exec[r].state = "unknown"
    /\ Fenceable(r)
    /\ Commit(r, ResolvedRow(exec[r]))
    /\ UNCHANGED <<process, registry, leased, full, history>>

-----------------------------------------------------------------------------
\* The steps of the job that settles an entry.
JobSucceeds(r) == Start(r) \/ Track(r) \/ Interrupt(r) \/ Read(r) \/ Finish(r)

Next ==
    \/ Visit
    \/ Expire
    \/ \E r \in Request :
          \/ Reserve(r) \/ AdmitAccepted(r) \/ AdmitRefused(r) \/ AdmitUncertain(r)
          \/ Begin(r) \/ BeginFails(r)
          \/ Dispatch(r) \/ DispatchFails(r)
          \/ \E terminal \in Observed : Observe(r, terminal)
          \/ Persist(r) \/ PersistFails(r)
          \/ EndAttempt(r) \/ PipelineFails(r) \/ Drop(r)
          \/ ReconcileDispatch(r)
          \/ \E success \in BOOLEAN : FinishDelivery(r, success)
          \/ JobSucceeds(r) \/ JobFails(r)
          \/ TrackLost(r) \/ InterruptLost(r) \/ FinishLost(r)
          \/ LateCommit(r) \/ LateRollback(r)
          \/ Recover(r) \/ Resolve(r)
          \/ Fill(r) \/ Project(r)

Spec == Init /\ [][Next]_vars

-----------------------------------------------------------------------------
\* Properties.

\* The entry of r was given back.
Retired(r) == ref[r] # "new" /\ owned[r] = None

\* A slot is only given back (ownership.rs, reconcile) when the request can
\* have no further effect: its execution is not left open, and no transaction
\* in flight, an admission least of all, can still change its row.
RetiredIsSettled ==
    \A r \in Request : Retired(r) =>
        /\ exec[r].state # "open"
        /\ flight[r] \in {None, exec[r]}

\* A terminal that the provider reported before the client went away
\* (dispatched.rs, Drop for Attempt) is in the row when the entry retires.
EvidenceKept ==
    \A r \in Request : Retired(r) =>
        \A i \in 1..MaxAttempts :
            seen[r][i] # None => exec[r].attempts[i] = seen[r][i]

\* Work that was sent is never recorded as unsent (attempts.rs,
\* interrupt_attempts), neither for the attempt nor for the execution.
SentIsNeverUnsent ==
    \A r \in Request : sent[r] # {} =>
        /\ \A i \in sent[r] : exec[r].attempts[i] # "not_dispatched"
        /\ exec[r].state \notin {"request_ended_before_dispatch", "owner_lost_before_dispatch"}

\* A dispatch intent, acknowledged or not, is never withdrawn: not by a visitor
\* that read the row before the intent was committed (attempts.rs,
\* interrupt_attempts and abandon_prepared).
IntentStands ==
    [][\A r \in Request : \A i \in DOMAIN exec[r].attempts :
          exec[r].attempts[i] \in {"dispatched", "unknown"} =>
              exec'[r].attempts[i] \in Observed \cup {"dispatched", "unknown", "resolved"}]_vars

\* Success is shown to the client (admitted.rs, finish_delivery) only for an
\* execution that is durably a success, whoever wrote it, of a pipeline that
\* did not fail.
DeliveredIsDurable ==
    \A r \in delivered : exec[r].state = "succeeded" /\ ~ pipelineFailed[r]

Entries == {r \in Request : owned[r] # None}

\* Every entry holds one slot and is in the queue once, or with one visitor
\* (ownership.rs, reserve_for, Candidate); each generation counts its own.
EntryAccounting ==
    /\ slots + Cardinality(Entries) = Limit
    /\ \A g \in Generation : generations[g] = Cardinality({r \in Request : owned[r] = g})
    /\ \A r \in Request :
          Cardinality({k \in DOMAIN queue : queue[k] = r}) =
              IF owned[r] = None \/ (ref[r] = "dropped" /\ job[r].at # "idle") THEN 0 ELSE 1

\* Its stored evidence meets an execution that an operator resolved meanwhile,
\* which record_observed_terminal refuses on every visit.
Contradicted(r) == HasEvidence(r) /\ exec[r].state = "resolved"

\* Under a database that keeps answering, every request that ended gives its
\* slot back (ownership.rs, reconcile_one), however long another request
\* stays alive ahead of it in the queue, with two exceptions: an operator's
\* resolution contradicts the evidence that the entry still holds, or the
\* backlog of its episode never comes to stay below its limit
\* (finalization.rs, install_projection_fence).
DroppedRetires ==
    \A r \in Request :
        <>[](r \notin full) => (ref[r] = "dropped" ~> (owned[r] = None \/ Contradicted(r)))

\* A step of a job goes wrong although the database could have done it.
Outage(r) ==
    \/ JobFails(r) /\ ENABLED JobSucceeds(r)
    \/ TrackLost(r) \/ InterruptLost(r) \/ FinishLost(r)

\* The worker visits the queue for ever (custody_loop), every operation of the
\* store ends in its timeout at the latest, and the database is back for good
\* at some time.
FairSpec ==
    /\ Spec
    /\ WF_vars(Visit)
    /\ \A r \in Request :
          /\ WF_vars(JobSucceeds(r) \/ JobFails(r))
          /\ WF_vars(LateCommit(r) \/ LateRollback(r))
    /\ <>[][\A r \in Request : ~ Outage(r)]_vars
=============================================================================
