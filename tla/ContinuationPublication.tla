---------------------- MODULE ContinuationPublication ----------------------
(* Publication of one shared continuation: the row that maps a public        *)
(* response id to the provider's one.                                        *)
(*                                                                           *)
(* A publication is one delivery attempt that completed a native response.  *)
(* Its process reserves a marker, binds a provisional row, moves the row to *)
(* delivering, lets the client acknowledge, moves it to active and releases *)
(* the terminal; whatever fails on the way must take the row back.  The row *)
(* lives in a database shared by all the processes: transactions whose      *)
(* answer is lost commit or abort later, publication leases lapse,          *)
(* processes crash and other processes recover what they left.              *)
(*                                                                           *)
(* All publications here are of the same continuation identity: rows of     *)
(* different identities never meet.  A lease is either live or lapsed; its  *)
(* renewal checks ownership and keeps it live, so it changes nothing here.  *)
(*                                                                           *)
(* Definitions named Wrong... are deliberately wrong variants of the         *)
(* definition that follows; the specification does not use them.             *)
EXTENDS Naturals, FiniteSets

CONSTANTS
    Pub,          \* publications (delivery attempts) of the identity
    Producer,     \* processes, each with its producer record
    ProducerOf,   \* [Pub -> Producer]
    MayStop,      \* the processes that may retire
    MayCrash,     \* the processes that may crash
    MayFail,      \* the publications whose task or transactions may fail
    MayExpire,    \* the publications whose retention may end
    None

State == {"provisional", "delivering", "active", "cleanup", "expired"}
Forward == {"provisional", "delivering", "active"}

(* Reasons are ordered: Retiring < Uncertain < RollbackRequired. *)
Open == 0
Retiring == 1
Uncertain == 2
RollbackRequired == 3

Row == [state : State, pub : Pub, live : BOOLEAN]
Flight == [row : Row \cup {None}, by : Producer]
Op == {"bind", "verify", "renew", "move", "claim", "finish"}
Authority == {"none", "cancelled", "abandoned", "closed"}
Held == [by : {"task", "worker"}, pub : Pub, op : Op, authority : Authority]
Marker == [disposition : {"reserved", "owned", "existing"},
           of : Pub, reason : Open..RollbackRequired, watched : BOOLEAN]

ASSUME PubAssumption ==
    /\ ProducerOf \in [Pub -> Producer]
    /\ MayStop \subseteq Producer /\ MayCrash \subseteq Producer
    /\ MayFail \subseteq Pub /\ MayExpire \subseteq Pub
    /\ None \notin Pub \cup Row \cup Flight \cup Held \cup Marker

VARIABLES
    row,          \* the row of the identity, or None
    flight,       \* a transaction that was sent and not answered, or None
    closed,       \* the producers whose durable record is closed
    closure,      \* the processes that hold a confirmed closure
    alive,        \* the processes that run
    accepting,    \* the registries that accept bindings
    worker,       \* the reconciliation worker of each process
    held,         \* who holds the identity lock of a process, and its operation
    marker,       \* the pending entry of a publication, or None
    task,         \* how far the tracked settlement task of a publication is
    client,       \* how far the delivery future of a publication is
    ended,        \* the publications whose row reached its retention
    born          \* the publications whose row was inserted

store == <<row, flight, ended, born>>
records == <<closed, closure, alive, accepting>>
process == <<records, worker>>
vars == <<store, process, held, marker, task, client>>

(* Type correctness. *)
TypeOK ==
    /\ row \in Row \cup {None}
    /\ flight \in Flight \cup {None}
    /\ closed \subseteq Producer /\ closure \subseteq Producer
    /\ alive \subseteq Producer /\ accepting \subseteq Producer
    /\ worker \in [Producer -> {"unstarted", "running", "ended"}]
    /\ held \in [Producer -> Held \cup {None}]
    /\ marker \in [Pub -> Marker \cup {None}]
    /\ task \in [Pub -> {"new", "bind", "prepared", "dropped", "opening", "ack",
                         "activating", "commit", "undo", "last", "over"}]
    /\ client \in [Pub -> {"none", "pending", "failing", "acked", "released",
                           "done", "gone"}]
    /\ ended \subseteq Pub /\ born \subseteq Pub

Init ==
    /\ row = None /\ flight = None
    /\ closed = {} /\ closure = {}
    /\ alive = Producer /\ accepting = Producer
    /\ worker = [P \in Producer |-> "unstarted"]
    /\ held = [P \in Producer |-> None]
    /\ marker = [p \in Pub |-> None]
    /\ task = [p \in Pub |-> "new"]
    /\ client = [p \in Pub |-> "none"]
    /\ ended = {} /\ born = {}

----------------------------------------------------------------------------
(* The database. *)

IntentOwns(p) == row # None /\ row.pub = p
Kept(p) == p \notin ended
Live(p) == IntentOwns(p) /\ row.live /\ Kept(p)

(* A transaction on the identity waits for the one that holds its lock. *)
Unlocked == flight = None

(* A producer's bind transactions need its record open. *)
BeginBind(P) == Unlocked /\ P \notin closed

InState(s) == [row EXCEPT !.state = s]
NewRow(p) == [state |-> "provisional", pub |-> p, live |-> TRUE]

(* A lost transaction commits.  Its lease is the one the row still has. *)
FlightCommits ==
    /\ flight # None
    /\ row' = IF flight.row # None /\ row # None
                THEN [flight.row EXCEPT !.live = row.live] ELSE flight.row
    /\ born' = IF flight.row = None THEN born ELSE born \cup {flight.row.pub}
    /\ flight' = None
    /\ UNCHANGED <<process, held, marker, task, client, ended>>

(* A lost transaction aborts. *)
FlightAborts ==
    /\ flight # None
    /\ flight' = None
    /\ UNCHANGED <<process, row, held, marker, task, client, ended, born>>

----------------------------------------------------------------------------
(* Helpers on the pending entries. *)

(* The retained terminal observation.  Its writer lives in the delivery      *)
(* future: a failure is frozen when rendering fails or the future is         *)
(* dropped, the success in the poll that commits.                            *)
Witness(p) ==
    CASE client[p] = "done" -> "success"
      [] client[p] \in {"failing", "gone"} -> "failed"
      [] OTHER -> "pending"

(* A reason only ever gets stronger; a marker that is gone stays gone. *)
Stronger(m, reason) ==
    IF m = None THEN None
    ELSE [m EXCEPT !.reason = IF @ < reason THEN reason ELSE @]

(* The rollback of a publication up to its wait for the identity lock: the  *)
(* cancellation is recorded before the wait.  "undo" is an attempt that the *)
(* caller of the finalizer repeats, "last" one that nobody repeats.         *)
Rollback(p, m, stage) ==
    IF m = None \/ (m.watched /\ Witness(p) = "success")
      THEN /\ marker' = [marker EXCEPT ![p] = m]
           /\ task' = [task EXCEPT ![p] = "over"]
      ELSE /\ marker' = [marker EXCEPT ![p] = Stronger(m, RollbackRequired)]
           /\ task' = [task EXCEPT ![p] = stage]

(* The stage a failed step leads to. *)
UndoStage(p) == IF task[p] \in {"ack", "activating", "commit"} THEN "undo" ELSE "last"

(* An attempt at a rollback is over. *)
AfterAttempt(p, by, resolved) ==
    IF by = "worker" THEN task
    ELSE [task EXCEPT ![p] = IF @ = "undo" /\ ~resolved THEN "last" ELSE "over"]

Release(P) == held' = [held EXCEPT ![P] = None]

(* The worker is not started with the process but by its first bind that may *)
(* have left a row, and never again; not once the process drains.            *)
StartReconciler(P) ==
    worker' = [worker EXCEPT ![P] =
                  IF @ = "unstarted" /\ P \in accepting THEN "running" ELSE @]

(* The processes that scan for what others left. *)
Scanning == {P \in Producer : worker[P] = "running"}

----------------------------------------------------------------------------
(* Preparation: the marker, then the provisional row. *)

\* Wrong: the row counts as owned before its bind is confirmed.
WrongReserve(p) ==
    LET P == ProducerOf[p] IN
    /\ task[p] = "new"
    /\ P \in alive \cap accepting
    /\ held[P] = None
    /\ marker' = [marker EXCEPT ![p] =
           [disposition |-> "owned", of |-> p, reason |-> Open, watched |-> FALSE]]
    /\ held' = [held EXCEPT ![P] =
           [by |-> "task", pub |-> p, op |-> "bind", authority |-> "none"]]
    /\ task' = [task EXCEPT ![p] = "bind"]
    /\ UNCHANGED <<store, process, client>>

Reserve(p) ==
    LET P == ProducerOf[p] IN
    /\ task[p] = "new"
    /\ P \in alive \cap accepting
    /\ held[P] = None
    /\ marker' = [marker EXCEPT ![p] =
           [disposition |-> "reserved", of |-> p, reason |-> Open, watched |-> FALSE]]
    /\ held' = [held EXCEPT ![P] =
           [by |-> "task", pub |-> p, op |-> "bind", authority |-> "none"]]
    /\ task' = [task EXCEPT ![p] = "bind"]
    /\ UNCHANGED <<store, process, client>>

(* The registry is retiring, or full with other identities. *)
ReserveRefused(p) ==
    /\ task[p] = "new"
    /\ ProducerOf[p] \in alive
    /\ task' = [task EXCEPT ![p] = "over"]
    /\ UNCHANGED <<store, process, held, marker, client>>

Holds(P, op) == held[P] # None /\ held[P].op = op

(* The row is inserted, or an active one of another attempt already maps the *)
(* same response.                                                            *)
Bound(P) ==
    LET p == held[P].pub IN
    /\ Holds(P, "bind") /\ BeginBind(P)
    /\ \/ /\ row = None
          /\ row' = NewRow(p)
          /\ born' = born \cup {p}
          /\ marker' = [marker EXCEPT ![p].disposition = "owned"]
       \/ /\ row # None /\ row.state = "active" /\ Kept(row.pub)
          /\ marker' = [marker EXCEPT ![p].disposition = "existing", ![p].of = row.pub]
          /\ UNCHANGED <<row, born>>
    /\ task' = [task EXCEPT ![p] = "prepared"]
    /\ Release(P)
    /\ StartReconciler(P)
    /\ UNCHANGED <<records, flight, client, ended>>

(* Another attempt is being published, or the payload is too large for any   *)
(* transaction to be sent: the marker goes with the error.                   *)
BindRejected(P) ==
    LET p == held[P].pub IN
    /\ Holds(P, "bind")
    /\ marker' = [marker EXCEPT ![p] = None]
    /\ task' = [task EXCEPT ![p] = "over"]
    /\ Release(P)
    /\ UNCHANGED <<store, process, client>>

(* The pipeline drops a prepared response before its delivery begins: a new  *)
(* task takes the publication back.                                          *)
Dropped(p) ==
    /\ task[p] = "prepared"
    /\ task' = [task EXCEPT ![p] = "dropped"]
    /\ UNCHANGED <<store, process, held, marker, client>>

UndoDropped(p) ==
    /\ task[p] = "dropped"
    /\ Rollback(p, marker[p], "last")
    /\ UNCHANGED <<store, process, held, client>>

----------------------------------------------------------------------------
(* Delivery: two forward moves of the row around the client's answer. *)

BeginDelivery(p) ==
    /\ task[p] = "prepared"
    /\ client' = [client EXCEPT ![p] = "pending"]
    /\ marker' = [marker EXCEPT ![p] = IF @ = None THEN @ ELSE [@ EXCEPT !.watched = TRUE]]
    /\ task' = [task EXCEPT ![p] = "opening"]
    /\ UNCHANGED <<store, process, held>>

Forwardable(p) == marker[p] # None /\ marker[p].reason = Open

(* The forward path takes the identity lock. *)
ShareForward(p) ==
    LET P == ProducerOf[p] IN
    /\ task[p] \in {"opening", "activating"}
    /\ held[P] = None
    /\ \/ /\ Forwardable(p)
          /\ held' = [held EXCEPT ![P] =
                 [by |-> "task", pub |-> p, authority |-> "none",
                  op |-> IF marker[p].disposition = "existing" THEN "verify" ELSE "renew"]]
          /\ UNCHANGED <<marker, task>>
       \/ /\ ~Forwardable(p)
          /\ Rollback(p, Stronger(marker[p], Uncertain), UndoStage(p))
          /\ UNCHANGED held
    /\ UNCHANGED <<store, process, client>>

(* The row is live and this publication's; a task goes on to move it unless  *)
(* the marker began to retire meanwhile.                                     *)
Renewed(P) ==
    LET p == held[P].pub IN
    /\ Holds(P, "renew") /\ BeginBind(P)
    /\ Live(p) /\ row.state \in Forward
    /\ \/ /\ held[P].by = "worker"
          /\ Release(P)
       \/ /\ held[P].by = "task" /\ marker[p].reason = Open
          /\ held' = [held EXCEPT ![P].op = "move"]
    /\ UNCHANGED <<store, process, marker, task, client>>

MoveFrom(p) ==
    IF task[p] = "opening" THEN {"provisional", "delivering"} ELSE {"delivering", "active"}
MoveTo(p) == IF task[p] = "opening" THEN "delivering" ELSE "active"

(* What follows a forward move: readiness is announced, or the activation is *)
(* completed towards a client that may have gone.                            *)
AfterForward(p) ==
    IF task[p] = "opening"
      THEN /\ task' = [task EXCEPT ![p] = "ack"]
           /\ UNCHANGED <<marker, client>>
      ELSE IF client[p] = "acked"
      THEN /\ task' = [task EXCEPT ![p] = "commit"]
           /\ client' = [client EXCEPT ![p] = "released"]
           /\ UNCHANGED marker
      ELSE /\ Rollback(p, marker[p], "undo")
           /\ UNCHANGED client

Moved(P) ==
    LET p == held[P].pub IN
    /\ Holds(P, "move") /\ BeginBind(P)
    /\ Live(p) /\ row.state \in MoveFrom(p)
    /\ row' = InState(MoveTo(p))
    /\ AfterForward(p)
    /\ Release(P)
    /\ UNCHANGED <<process, flight, ended, born>>

(* A publication that found an active row of another attempt moves nothing;  *)
(* it checks that exactly that row is still active.                          *)
Verified(P) ==
    LET p == held[P].pub IN
    /\ Holds(P, "verify") /\ Unlocked
    /\ IntentOwns(marker[p].of) /\ row.state = "active" /\ Kept(marker[p].of)
    /\ AfterForward(p)
    /\ Release(P)
    /\ UNCHANGED <<store, process>>

(* The delivery future. *)
Acknowledge(p) ==
    /\ client[p] = "pending" /\ task[p] = "ack"
    /\ client' = [client EXCEPT ![p] = "acked"]
    /\ UNCHANGED <<store, process, held, marker, task>>

(* A rendering failure freezes the negative outcome before anything else. *)
RenderFails(p) ==
    /\ client[p] = "pending"
    /\ client' = [client EXCEPT ![p] = "failing"]
    /\ UNCHANGED <<store, process, held, marker, task>>

(* The delivery future is dropped or ends with an error; its writer records  *)
(* the failure unless an outcome is recorded already.                        *)
Disconnect(p) ==
    /\ client[p] \in {"pending", "failing", "acked", "released"}
    /\ client' = [client EXCEPT ![p] = "gone"]
    /\ UNCHANGED <<store, process, held, marker, task>>

\* Wrong: the terminal does not wait for the completed activation.
WrongCommit(p) ==
    /\ client[p] \in {"acked", "released"} /\ task[p] # "over"
    /\ client' = [client EXCEPT ![p] = "done"]
    /\ UNCHANGED <<store, process, held, marker, task>>

(* The terminal is returned to the caller in the poll that commits it, which *)
(* needs the task to be still there to receive the commit.                   *)
Commit(p) ==
    /\ client[p] = "released" /\ task[p] = "commit"
    /\ client' = [client EXCEPT ![p] = "done"]
    /\ UNCHANGED <<store, process, held, marker, task>>

(* The task learns what became of the delivery. *)
DeliveryKnown(p) ==
    /\ \/ /\ task[p] = "ack" /\ client[p] = "acked"
          /\ task' = [task EXCEPT ![p] = "activating"]
          /\ UNCHANGED marker
       \/ /\ task[p] = "commit" /\ client[p] = "done"
          /\ task' = [task EXCEPT ![p] = "over"]
          /\ marker' = [marker EXCEPT ![p] = None]
       \/ /\ task[p] \in {"ack", "commit"} /\ client[p] \in {"failing", "gone"}
          /\ Rollback(p, marker[p], "undo")
    /\ UNCHANGED <<store, process, held, client>>

----------------------------------------------------------------------------
(* Reconciliation of a marker, by its own rollback or by the worker. *)

(* The authority a cleanup is claimed with. *)
CleanupAuthority(p, reason) ==
    IF marker[p].disposition = "reserved" THEN "closed"
    ELSE IF reason = RollbackRequired THEN "cancelled"
    ELSE IF ProducerOf[p] \in closure THEN "closed" ELSE "abandoned"

(* A reservation whose bind is uncertain can be looked into only after the   *)
(* producer is closed for good.                                              *)
NeedsClosure(p) ==
    marker[p].disposition = "reserved" /\ ProducerOf[p] \notin closure

Observed(p) == IF marker[p].watched THEN Witness(p) ELSE "pending"

\* Wrong: a draining process leaves its markers to the worker it has joined.
WrongVisits(P) == P \in Scanning

(* The markers of a process are visited by its worker and, once that has     *)
(* joined and the producer is closed, by the drain itself.                   *)
Visits(P) == P \in Scanning \cup closure

(* The evidence that is at hand decides, or an operation on the row begins. *)
Reconcile(p, by) ==
    LET P == ProducerOf[p]
        m == IF Observed(p) = "failed" THEN Stronger(marker[p], RollbackRequired)
             ELSE marker[p]
        settled == \/ Observed(p) = "success" /\ m.reason # RollbackRequired
                   \/ Observed(p) # "success" /\ m.disposition = "existing"
                                              /\ m.reason # Open
        kept == \/ Observed(p) = "success" /\ m.reason = RollbackRequired
                \/ Observed(p) # "success" /\ m.disposition = "existing"
                                           /\ m.reason = Open
                \/ Observed(p) # "success" /\ NeedsClosure(p)
    IN
    /\ marker[p] # None
    /\ P \in alive /\ held[P] = None
    /\ IF by = "task" THEN task[p] \in {"undo", "last"} ELSE Visits(P)
    /\ \/ /\ settled
          /\ marker' = [marker EXCEPT ![p] = None]
          /\ task' = AfterAttempt(p, by, TRUE)
          /\ UNCHANGED held
       \/ /\ ~settled /\ kept
          /\ marker' = [marker EXCEPT ![p] = m]
          /\ task' = AfterAttempt(p, by, FALSE)
          /\ UNCHANGED held
       \/ /\ ~settled /\ ~kept
          /\ marker' = [marker EXCEPT ![p] = m]
          /\ held' = [held EXCEPT ![P] =
                 [by |-> by, pub |-> p,
                  op |-> IF m.reason = Open THEN "renew" ELSE "claim",
                  authority |-> IF m.reason = Open THEN "none"
                                ELSE CleanupAuthority(p, m.reason)]]
          /\ UNCHANGED task
    /\ UNCHANGED <<store, process, client>>

(* A rollback finds that the worker has cleared its marker. *)
NothingToUndo(p) ==
    /\ task[p] \in {"undo", "last"}
    /\ marker[p] = None /\ held[ProducerOf[p]] = None
    /\ task' = [task EXCEPT ![p] = "over"]
    /\ UNCHANGED <<store, process, held, marker, client>>

(* An active row is taken back only on evidence that it was not delivered; a *)
(* row before its publication also when its producer is closed or its lease  *)
(* lapsed.                                                                   *)
Eligible(authority) ==
    IF row.state = "active" THEN authority = "cancelled"
    ELSE row.state \in {"provisional", "delivering"}
         /\ (authority \in {"cancelled", "closed"} \/ ~row.live)

(* A snapshot taken before the identity lock was granted misses a row that   *)
(* the holder of the lock inserts.  The closed-producer transaction reads    *)
(* each statement afresh.                                                    *)
StaleAbsence(P) == held[P].authority # "closed" /\ row = None

(* The marker is resolved, or stays for a later attempt. *)
EndReconcile(P, resolved) ==
    LET p == held[P].pub IN
    /\ marker' = IF resolved THEN [marker EXCEPT ![p] = None] ELSE marker
    /\ task' = AfterAttempt(p, held[P].by, resolved)
    /\ Release(P)

Claimed(P) ==
    LET p == held[P].pub
        mine == IntentOwns(p)
        gone == mine => row.state = "expired" \/ ~Kept(p)
        mayFinish == row.state = "cleanup" \/ Eligible(held[P].authority)
    IN
    /\ Holds(P, "claim")
    /\ ~Unlocked => StaleAbsence(P)
    /\ \/ /\ gone
          /\ row' = IF mine THEN InState("expired") ELSE row
          /\ EndReconcile(P, TRUE)
       \/ /\ ~gone /\ mayFinish
          /\ row' = InState("cleanup")
          /\ held' = [held EXCEPT ![P].op = "finish"]
          /\ UNCHANGED <<marker, task>>
       \/ /\ ~gone /\ ~mayFinish
          /\ EndReconcile(P, FALSE)
          /\ UNCHANGED row
    /\ UNCHANGED <<process, flight, client, ended, born>>

Finished(P) ==
    LET p == held[P].pub
        removes == IntentOwns(p) /\ row.state = "cleanup"
    IN
    /\ Holds(P, "finish")
    /\ ~Unlocked => StaleAbsence(P)
    /\ row' = IF removes THEN None ELSE row
    /\ EndReconcile(P, removes \/ row = None)
    /\ UNCHANGED <<process, flight, client, ended, born>>

----------------------------------------------------------------------------
(* Transactions that fail. *)

(* The error path of the operation in hand. *)
OperationFails(P) ==
    LET p == held[P].pub
        op == held[P].op
        m == IF op \in {"bind", "renew", "move"} THEN Stronger(marker[p], Uncertain)
             ELSE marker[p]
    IN
    /\ IF op \in {"claim", "finish"}
         THEN /\ task' = AfterAttempt(p, held[P].by, FALSE)
              /\ UNCHANGED marker
       ELSE IF held[P].by = "worker"
         THEN /\ marker' = [marker EXCEPT ![p] = m]
              /\ UNCHANGED task
       ELSE Rollback(p, m, UndoStage(p))
    /\ IF op = "bind" THEN StartReconciler(P) ELSE UNCHANGED worker
    /\ Release(P)

(* The row an operation writes when it is granted. *)
Writes(P) ==
    LET p == held[P].pub IN
    CASE held[P].op = "bind" -> IF row = None THEN {NewRow(p)} ELSE {}
      [] held[P].op = "move" -> IF Live(p) /\ row.state \in MoveFrom(p)
                                  THEN {InState(MoveTo(p))} ELSE {}
      [] held[P].op = "claim" -> IF IntentOwns(p) /\ Kept(p) /\ Eligible(held[P].authority)
                                   THEN {InState("cleanup")} ELSE {}
      [] held[P].op = "finish" -> IF IntentOwns(p) /\ row.state = "cleanup"
                                    THEN {None} ELSE {}
      [] OTHER -> {}

(* The transaction was sent and its answer is lost. *)
Sent(P) ==
    \/ UNCHANGED flight
    \/ /\ Unlocked
       /\ held[P].op \in {"bind", "move"} => P \notin closed
       /\ \E r \in Writes(P) : flight' = [row |-> r, by |-> P]

Lost(P) ==
    /\ held[P] # None /\ held[P].pub \in MayFail
    /\ Sent(P)
    /\ OperationFails(P)
    /\ UNCHANGED <<records, row, client, ended, born>>

(* What makes a transaction succeed. *)
Granted(P) ==
    LET p == held[P].pub IN
    CASE held[P].op = "bind" ->
            P \notin closed /\ (row = None \/ (row.state \in Forward /\ Kept(row.pub)))
      [] held[P].op = "verify" ->
            IntentOwns(marker[p].of) /\ row.state = "active" /\ Kept(marker[p].of)
      [] held[P].op = "renew" ->
            /\ P \notin closed /\ Live(p) /\ row.state \in Forward
            /\ held[P].by = "task" => marker[p].reason = Open
      [] held[P].op = "move" ->
            P \notin closed /\ Live(p) /\ row.state \in MoveFrom(p)
      [] OTHER -> TRUE

(* The row is not as the operation needs it. *)
Refused(P) ==
    /\ held[P] # None
    /\ Unlocked
    /\ ~Granted(P)
    /\ OperationFails(P)
    /\ UNCHANGED <<store, records, client>>

----------------------------------------------------------------------------
(* Time, retention and the recovery of what others left. *)

Lapse ==
    /\ row # None /\ row.live
    /\ row' = [row EXCEPT !.live = FALSE]
    /\ UNCHANGED <<process, flight, held, marker, task, client, ended, born>>

Expire ==
    /\ row # None /\ Kept(row.pub) /\ row.pub \in MayExpire
    /\ ended' = ended \cup {row.pub}
    /\ UNCHANGED <<process, row, flight, held, marker, task, client, born>>

(* Any resolution scrubs a row past its retention, as the workers do, which  *)
(* purge it later.                                                           *)
Maintain ==
    /\ Unlocked
    /\ row # None /\ ~Kept(row.pub)
    /\ \/ alive # {} /\ row' = InState("expired")
       \/ Scanning # {} /\ row' = None
    /\ UNCHANGED <<process, flight, held, marker, task, client, ended, born>>

\* Wrong: recovery forgets the rows of deliveries.
WrongRecoverable == row.state = "provisional" /\ ~row.live

(* A worker of any process demotes a lapsed row that was never published. *)
Recoverable == row.state \in {"provisional", "delivering"} /\ ~row.live

RecoverClaim ==
    /\ Scanning # {} /\ Unlocked
    /\ row # None /\ Kept(row.pub) /\ Recoverable
    /\ row' = InState("cleanup")
    /\ UNCHANGED <<process, flight, held, marker, task, client, ended, born>>

(* A worker of any process removes a demoted row. *)
RecoverFinish ==
    /\ Scanning # {} /\ Unlocked
    /\ row # None /\ row.state = "cleanup"
    /\ row' = None
    /\ UNCHANGED <<process, flight, held, marker, task, client, ended, born>>

----------------------------------------------------------------------------
(* Shutdown and faults. *)

Pubs(P) == {p \in Pub : ProducerOf[p] = P}

StopAccepting(P) ==
    /\ P \in alive \cap accepting \cap MayStop
    /\ accepting' = accepting \ {P}
    /\ marker' = [p \in Pub |-> IF p \in Pubs(P)
                                  THEN Stronger(marker[p], Retiring) ELSE marker[p]]
    /\ UNCHANGED <<store, closed, closure, alive, worker, held, task, client>>

(* A bind of another identity starts the worker of the process. *)
BindElsewhere(P) ==
    /\ P \in alive \cap accepting
    /\ worker[P] = "unstarted"
    /\ StartReconciler(P)
    /\ UNCHANGED <<store, records, held, marker, task, client>>

(* The worker of a draining process ends after its pass; one that panics is  *)
(* not replaced.                                                             *)
WorkerEnds(P) ==
    /\ worker[P] = "running"
    /\ held[P] # None => held[P].by # "worker"
    /\ worker' = [worker EXCEPT ![P] = "ended"]
    /\ UNCHANGED <<store, records, held, marker, task, client>>

(* After every task and the worker have joined the producer record is        *)
(* closed, which waits for the producer's own lost transactions; a lost      *)
(* answer is confirmed by the next attempt.                                  *)
CloseProducer(P) ==
    /\ P \in alive \ (accepting \cup closure)
    /\ \A p \in Pubs(P) : task[p] \in {"new", "over"}
    /\ worker[P] # "running" /\ held[P] = None
    /\ flight # None /\ flight.by = P => P \in closed
    /\ closed' = closed \cup {P}
    /\ closure' \in {closure, closure \cup {P}}
    /\ UNCHANGED <<store, alive, accepting, worker, held, marker, task, client>>

(* A task is aborted, or panics, at whatever it waits for.  Nothing tells    *)
(* the marker.                                                               *)
Abort(p) ==
    LET P == ProducerOf[p]
        holds == held[P] # None /\ held[P].by = "task" /\ held[P].pub = p
    IN
    /\ task[p] \notin {"new", "over"}
    /\ p \in MayFail \/ ProducerOf[p] \notin accepting
    /\ task' = [task EXCEPT ![p] = "over"]
    /\ IF holds THEN Sent(P) /\ Release(P) ELSE UNCHANGED <<flight, held>>
    /\ UNCHANGED <<process, row, marker, client, ended, born>>

Crash(P) ==
    /\ P \in alive \cap MayCrash
    /\ alive' = alive \ {P}
    /\ worker' = [worker EXCEPT ![P] = "ended"]
    /\ IF held[P] # None THEN Sent(P) ELSE UNCHANGED flight
    /\ Release(P)
    /\ marker' = [p \in Pub |-> IF p \in Pubs(P) THEN None ELSE marker[p]]
    /\ task' = [p \in Pub |-> IF p \in Pubs(P) THEN "over" ELSE task[p]]
    /\ client' = [p \in Pub |-> IF p \in Pubs(P) /\ client[p] \notin {"none", "done"}
                                  THEN "gone" ELSE client[p]]
    /\ UNCHANGED <<row, closed, closure, accepting, ended, born>>

----------------------------------------------------------------------------
(* Resolution of a public id in a process. *)

\* Wrong: a row is hidden only once its delivery failed.
WrongVisible(P) ==
    ~\E p \in Pubs(P) :
        /\ marker[p] # None /\ marker[p].disposition # "existing"
        /\ IntentOwns(p) /\ Observed(p) = "failed"

(* A row is hidden while the process has a marker of its publication without *)
(* a committed terminal.                                                     *)
Visible(P) ==
    ~\E p \in Pubs(P) :
        /\ marker[p] # None /\ marker[p].disposition # "existing"
        /\ IntentOwns(p) /\ Observed(p) # "success"

Resolves(P) == P \in alive /\ row # None /\ row.state = "active" /\ Kept(row.pub) /\ Visible(P)

----------------------------------------------------------------------------
Step(p) ==
    \/ Reserve(p) \/ ReserveRefused(p) \/ Dropped(p) \/ UndoDropped(p)
    \/ BeginDelivery(p) \/ ShareForward(p) \/ DeliveryKnown(p)
    \/ Reconcile(p, "task") \/ NothingToUndo(p)

Delivery(p) == Acknowledge(p) \/ RenderFails(p) \/ Disconnect(p) \/ Commit(p)

Answer(P) ==
    \/ Bound(P) \/ BindRejected(P) \/ Renewed(P) \/ Moved(P) \/ Verified(P)
    \/ Claimed(P) \/ Finished(P) \/ Refused(P)

Next ==
    \/ \E p \in Pub : Step(p) \/ Delivery(p) \/ Reconcile(p, "worker") \/ Abort(p)
    \/ \E P \in Producer :
          \/ Answer(P) \/ Lost(P) \/ StopAccepting(P) \/ CloseProducer(P) \/ Crash(P)
          \/ BindElsewhere(P) \/ WorkerEnds(P)
    \/ FlightCommits \/ FlightAborts
    \/ Lapse \/ Expire \/ Maintain \/ RecoverClaim \/ RecoverFinish

Spec == Init /\ [][Next]_vars

(* A lease nobody renews runs out. *)
Abandoned ==
    row # None /\ (marker[row.pub] # None => marker[row.pub].reason # Open)

(* A delivery future whose task has ended, or has turned to its rollback,    *)
(* learns of it.                                                             *)
Rejected(p) == task[p] \in {"undo", "last", "over"}

(* The database stops losing answers; what is scheduled runs; the worker     *)
(* visits the markers in turn and ends after a pass when it is told to; a    *)
(* retiring process joins or aborts its tasks.                               *)
Fairness ==
    /\ <>[][\A P \in Producer : ~Lost(P)]_vars
    /\ WF_vars(FlightCommits \/ FlightAborts)
    /\ \A P \in Producer :
          /\ WF_vars(Answer(P)) /\ WF_vars(CloseProducer(P) /\ closure' # closure)
          /\ SF_vars(P \notin accepting /\ WorkerEnds(P))
    /\ \A p \in Pub :
          /\ WF_vars(Step(p) /\ ~Reserve(p) /\ ~BeginDelivery(p))
          /\ SF_vars(Reconcile(p, "worker"))
          /\ WF_vars(Rejected(p) /\ Disconnect(p))
          /\ WF_vars(ProducerOf[p] \notin accepting /\ Abort(p))
    /\ WF_vars(Abandoned /\ Lapse)
    /\ WF_vars(RecoverClaim) /\ WF_vars(RecoverFinish)

FairSpec == Spec /\ Fairness

----------------------------------------------------------------------------
(* A terminal that was committed to a client has its mapping: the row of a   *)
(* delivered publication stays active until its retention ends, whatever     *)
(* transactions were lost, and whoever reconciled or recovered.              *)
DeliveredIsPublished ==
    \A p \in born \ ended :
       Witness(p) = "success" =>
          /\ IntentOwns(p) /\ row.state = "active"
          /\ flight # None => flight.row = row

(* A marker is given up only with the row: when a live process holds no      *)
(* marker of an undelivered publication, no row of it can be found or can    *)
(* still appear from a lost transaction.                                     *)
ClearedIsGone ==
    \A p \in Pub :
       /\ ProducerOf[p] \in alive /\ task[p] # "new"
       /\ marker[p] = None /\ Witness(p) # "success"
       => /\ IntentOwns(p) => row.state \in {"cleanup", "expired"} \/ ~Kept(p)
          /\ ~(flight # None /\ flight.row # None /\ flight.row.pub = p
               /\ flight.row.state \in Forward)

(* A resolution in the publishing process never hands out a row before the  *)
(* terminal of its publication was committed.                               *)
ResolvedIsDelivered ==
    \A p \in Pub : IntentOwns(p) /\ Resolves(ProducerOf[p]) => Witness(p) = "success"

(* The marker of a publication, or its row before it was published. *)
Leftover(p) ==
    \/ marker[p] # None
    \/ IntentOwns(p) /\ Kept(p) /\ row.state \in {"provisional", "delivering", "cleanup"}

(* A process that retires and lives to the end of its drain (owned.rs,       *)
(* drain_owned_grace) leaves nothing behind, whether or not any worker runs. *)
RetiredLeavesNothing ==
    \A p \in Pub :
       ProducerOf[p] \notin accepting ~> (~Leftover(p) \/ ProducerOf[p] \notin alive)

(* What a crashed process left is recovered (shared_cleanup.rs,              *)
(* recover_stale) provided that from some time on a worker runs somewhere:   *)
(* a process that has bound nothing yet scans for nobody.                    *)
CrashedIsRecovered ==
    <>[](Scanning # {}) =>
       \A p \in Pub : ProducerOf[p] \notin alive ~> ~Leftover(p)
=============================================================================
