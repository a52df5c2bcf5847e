-------------------------- MODULE TerminalDelivery --------------------------
(***************************************************************************)
(* Delivery of the shared gateway's terminal events: the outbox rows of    *)
(* engine/outbox.rs, the projection receipts of engine/projection, and the *)
(* delivery workers of runtime/workers/outbox.rs, one per replica.         *)
(*                                                                         *)
(* Every database action is one committed transaction.  A worker whose     *)
(* reply is lost, whose future is cancelled by shutdown or whose process   *)
(* dies simply takes no further step with its claim.                       *)
(*                                                                         *)
(* Time is relative and counted in transaction timeouts: a row holds the   *)
(* ticks left of its lease and until it is due.  The random token of a     *)
(* claim is the worker that made it, because a worker has one claim at a   *)
(* time and forgets its token before it claims again.                      *)
(*                                                                         *)
(* Definitions named Wrong... are deliberately wrong variants of the       *)
(* definition that follows them and are not used.                          *)
(***************************************************************************)
EXTENDS Naturals

CONSTANTS
    Worker,       \* the delivery worker of each replica
    Fragile,      \* the workers that may die or be paused beyond their timeouts
    Event,        \* terminal events
    None,
    Interval,     \* worker_interval_ms in transaction timeouts
    MaxFailures   \* bound: database failures and lost replies

ASSUME DeliveryAssumption ==
    /\ Fragile \subseteq Worker
    /\ None \notin Worker \cup Event
    /\ Interval \in Nat
    /\ MaxFailures \in Nat

VARIABLES
    outbox,    \* Kind::Outbox rows
    receipts,  \* Kind::ProjectionReceipt rows: their status
    metered,   \* history: metering rows applied for an event
    admitted,  \* history: evaluation admissions for an event
    worker,    \* the local state of each worker
    live,      \* the workers whose instance lease is unexpired
    failures   \* failures so far

vars == <<outbox, receipts, metered, admitted, worker, live, failures>>

-----------------------------------------------------------------------------
(* Budget::new, in transaction timeouts *)

ClaimBudget       == 3
DeliveryBudget    == 2
TransactionBudget == 1

\* Wrong: the lease covers the delivery but not the acknowledgement.
WrongLeaseBudget == 5

LeaseBudget == 8

RetryDelay == IF Interval > LeaseBudget THEN Interval ELSE LeaseBudget

-----------------------------------------------------------------------------
Row ==
    [published : BOOLEAN, holder : Worker \cup {None}, left : 0..LeaseBudget,
     wait : 0..RetryDelay, acknowledged : BOOLEAN]

Phase == {"idle", "project", "complete", "acknowledge", "retry", "stopped"}

WorkerRow ==
    [phase : Phase, event : Event \cup {None}, timer : Nat, held : BOOLEAN]

TypeOK ==
    /\ outbox \in [Event -> Row]
    /\ receipts \in [Event -> {"none", "projected", "delivered"}]
    /\ metered \in [Event -> Nat]
    /\ admitted \in [Event -> Nat]
    /\ worker \in [Worker -> WorkerRow]
    /\ live \subseteq Worker
    /\ failures \in 0..MaxFailures

NoRow == [published |-> FALSE, holder |-> None, left |-> 0, wait |-> 0, acknowledged |-> FALSE]
Idle  == [phase |-> "idle", event |-> None, timer |-> 0, held |-> FALSE]

Init ==
    /\ outbox = [ev \in Event |-> NoRow]
    /\ receipts = [ev \in Event |-> "none"]
    /\ metered = [ev \in Event |-> 0]
    /\ admitted = [ev \in Event |-> 0]
    /\ worker = [w \in Worker |-> Idle]
    /\ live = Worker
    /\ failures = 0

-----------------------------------------------------------------------------
(* Environment *)

\* Settlement publishes the event, due at once.
Publish(ev) ==
    /\ ~ outbox[ev].published
    /\ outbox' = [outbox EXCEPT ![ev].published = TRUE]
    /\ UNCHANGED <<receipts, metered, admitted, worker, live, failures>>

Working(w) == worker[w].phase \notin {"idle", "stopped"}

Less(n) == IF n = 0 THEN 0 ELSE n - 1

\* A transaction timeout passes.  The timeouts of `complete` end the phase of a
\* worker that is not held up.
Tick ==
    /\ \A w \in Worker : Working(w) /\ ~ worker[w].held => worker[w].timer > 0
    /\ outbox' = [ev \in Event |->
         [outbox[ev] EXCEPT !.left = Less(outbox[ev].left), !.wait = Less(outbox[ev].wait)]]
    /\ worker' = [w \in Worker |-> [worker[w] EXCEPT !.timer = Less(worker[w].timer)]]
    /\ UNCHANGED <<receipts, metered, admitted, live, failures>>

\* The instance lease of a replica expires; an expired lease is never renewed.
LoseLease(w) ==
    /\ w \in Fragile \cap live
    /\ live' = live \ {w}
    /\ UNCHANGED <<outbox, receipts, metered, admitted, worker, failures>>

Fail ==
    /\ failures < MaxFailures
    /\ failures' = failures + 1

\* The process is paused, and its timeouts with it, until it drops its claim.
HoldUp(w) ==
    /\ w \in Fragile
    /\ Working(w) /\ ~ worker[w].held
    /\ worker' = [worker EXCEPT ![w].held = TRUE]
    /\ Fail
    /\ UNCHANGED <<outbox, receipts, metered, admitted, live>>

\* Shutdown or death of the process, at any await.
Stop(w) ==
    /\ w \in Fragile
    /\ worker' = [worker EXCEPT ![w] = [Idle EXCEPT !.phase = "stopped"]]
    /\ UNCHANGED <<outbox, receipts, metered, admitted, live, failures>>

-----------------------------------------------------------------------------
(* Transactions of the delivery worker *)

Enter(w, phase, budget) ==
    worker' = [worker EXCEPT ![w].phase = phase, ![w].timer = budget]

Rest(w) == worker' = [worker EXCEPT ![w] = Idle]

\* The row is due, without a live lease and not acknowledged.
Claimable(ev) ==
    /\ outbox[ev].published
    /\ ~ outbox[ev].acknowledged
    /\ outbox[ev].wait = 0
    /\ outbox[ev].left = 0

\* claim_outbox: take the lease; the row is due again when it ends.  The reply
\* to the committed claim may be lost.
Claim(w, ev) ==
    /\ worker[w].phase = "idle"
    /\ Claimable(ev)
    /\ w \in live
    /\ outbox' = [outbox EXCEPT ![ev].holder = w, ![ev].left = LeaseBudget,
                                ![ev].wait = LeaseBudget]
    /\ \/ /\ worker' = [worker EXCEPT ![w] =
               [phase |-> "project", event |-> ev,
                timer |-> ClaimBudget + DeliveryBudget, held |-> FALSE]]
          /\ UNCHANGED failures
       \/ Fail /\ UNCHANGED worker
    /\ UNCHANGED <<receipts, metered, admitted, live>>

\* Wrong: the metering row is applied without looking for the receipt.
WrongProjectIn(ev) ==
    /\ receipts' = IF receipts[ev] = "none" THEN [receipts EXCEPT ![ev] = "projected"]
                                            ELSE receipts
    /\ metered' = [metered EXCEPT ![ev] = metered[ev] + 1]

\* project_in: without a receipt apply the metering row and create it;
\* otherwise only compare.
ProjectIn(ev) ==
    IF receipts[ev] = "none"
    THEN /\ receipts' = [receipts EXCEPT ![ev] = "projected"]
         /\ metered' = [metered EXCEPT ![ev] = metered[ev] + 1]
    ELSE UNCHANGED <<receipts, metered>>

\* catch_up_in: a guard of the same episode projects the event first.
CatchUp(ev) ==
    /\ outbox[ev].published
    /\ receipts[ev] = "none"
    /\ ProjectIn(ev)
    /\ UNCHANGED <<outbox, admitted, worker, live, failures>>

\* deliver, first transaction.
Project(w) ==
    /\ worker[w].phase = "project"
    /\ ProjectIn(worker[w].event)
    /\ Enter(w, "complete", worker[w].timer)
    /\ UNCHANGED <<outbox, admitted, live, failures>>

\* Wrong: a failed delivery is acknowledged all the same.
WrongAfterFailure == "acknowledge"

\* `complete`: a delivery that failed or timed out is scheduled again.
AfterFailure == "retry"

\* complete_projection: admit the evaluation once.  Its reply may be lost.
Complete(w) ==
    LET ev == worker[w].event IN
    /\ worker[w].phase = "complete"
    /\ receipts[ev] # "none"
    /\ IF receipts[ev] = "delivered"
       THEN UNCHANGED <<receipts, admitted>>
       ELSE /\ receipts' = [receipts EXCEPT ![ev] = "delivered"]
            /\ admitted' = [admitted EXCEPT ![ev] = admitted[ev] + 1]
    /\ \/ Enter(w, "acknowledge", TransactionBudget) /\ UNCHANGED failures
       \/ Enter(w, AfterFailure, TransactionBudget) /\ Fail
    /\ UNCHANGED <<outbox, metered, live>>

\* Either transaction of deliver fails, or their common timeout fires.
DeliveryFails(w) ==
    /\ worker[w].phase \in {"project", "complete"}
    /\ Fail
    /\ Enter(w, AfterFailure, TransactionBudget)
    /\ UNCHANGED <<outbox, receipts, metered, admitted, live>>

\* The claim's token is the lease's, and the lease is unexpired.
Holds(w, ev) == outbox[ev].holder = w /\ outbox[ev].left > 0

\* acknowledge_outbox.  The lease stays on the acknowledged row.
Acknowledge(w) ==
    LET ev == worker[w].event IN
    /\ worker[w].phase = "acknowledge"
    /\ Holds(w, ev)
    /\ outbox' = [outbox EXCEPT ![ev].acknowledged = TRUE, ![ev].wait = 0]
    /\ Rest(w)
    /\ UNCHANGED <<receipts, metered, admitted, live, failures>>

\* The acknowledgement is rejected or fails: the claim is dropped as it is.
AcknowledgeFails(w) ==
    /\ worker[w].phase = "acknowledge"
    /\ \/ ~ Holds(w, worker[w].event) /\ UNCHANGED failures
       \/ Fail
    /\ Rest(w)
    /\ UNCHANGED <<outbox, receipts, metered, admitted, live>>

\* Only the lease's own claim is rescheduled, and never once acknowledged.
MayRetry(w, ev) == Holds(w, ev) /\ ~ outbox[ev].acknowledged

\* retry_outbox: give the lease back and wait.
Retry(w) ==
    LET ev == worker[w].event IN
    /\ worker[w].phase = "retry"
    /\ MayRetry(w, ev)
    /\ outbox' = [outbox EXCEPT ![ev] =
         [published |-> TRUE, holder |-> None, left |-> 0, wait |-> RetryDelay,
          acknowledged |-> FALSE]]
    /\ Rest(w)
    /\ UNCHANGED <<receipts, metered, admitted, live, failures>>

\* The rescheduling is rejected or fails.
RetryFails(w) ==
    /\ worker[w].phase = "retry"
    /\ Rest(w)
    /\ UNCHANGED <<outbox, receipts, metered, admitted, live, failures>>

-----------------------------------------------------------------------------
Progress(w) ==
    \/ Project(w) \/ Complete(w) \/ Acknowledge(w) \/ AcknowledgeFails(w)
    \/ Retry(w) \/ RetryFails(w)

Next ==
    \/ Tick
    \/ \E ev \in Event : Publish(ev) \/ CatchUp(ev)
    \/ \E w \in Worker :
         \/ LoseLease(w)
         \/ HoldUp(w)
         \/ Stop(w)
         \/ \E ev \in Event : Claim(w, ev)
         \/ Progress(w)
         \/ DeliveryFails(w)

Spec == Init /\ [][Next]_vars

\* Time passes, a worker that is not held up gets on with its claim, and one
\* that is not fragile keeps claiming.  The scan for due rows is ordered by due
\* time, so that no due row is passed over for good.
Fairness ==
    /\ WF_vars(Tick)
    /\ \A w \in Worker : WF_vars(~ worker[w].held /\ Progress(w))
    /\ \A w \in Worker \ Fragile : \A ev \in Event : WF_vars(Claim(w, ev))

FairSpec == Spec /\ Fairness

-----------------------------------------------------------------------------
(* Properties *)

\* Two workers that deliver one event, because a lease ended or a reply was
\* lost, meter it once and admit its evaluation once.
EffectsOnce ==
    \A ev \in Event :
       /\ metered[ev] = IF receipts[ev] = "none" THEN 0 ELSE 1
       /\ admitted[ev] = IF receipts[ev] = "delivered" THEN 1 ELSE 0

\* Budget::new's lease covers a whole delivery: a worker that is not held up
\* beyond its timeouts still holds the lease whenever it uses it, so that
\* nobody else delivers the event at the same time.
LeaseCoversDelivery ==
    \A w \in Worker : Working(w) /\ ~ worker[w].held => Holds(w, worker[w].event)

\* How far an event has come, read from its outbox row and its receipt.
StageOf(ev) ==
    IF outbox[ev].acknowledged THEN "acknowledged"
    ELSE IF receipts[ev] # "none" THEN receipts[ev]
    ELSE IF outbox[ev].published THEN "published"
    ELSE "absent"

Abstract == INSTANCE EventDelivery WITH stage <- [ev \in Event |-> StageOf(ev)]

\* Delivery keeps the promise of EventDelivery: an acknowledged event has both
\* its projection and its evaluation, and no worker with a lapsed claim takes a
\* stage back.
DeliversInOrder == Abstract!Spec

\* Every published event is acknowledged in the end, after any finite number of
\* failures, lost replies and dead replicas.
DeliversEventually ==
    \A ev \in Event : outbox[ev].published ~> outbox[ev].acknowledged
=============================================================================
