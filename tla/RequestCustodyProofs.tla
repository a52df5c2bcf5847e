------------------------ MODULE RequestCustodyProofs ------------------------
(***************************************************************************)
(* Every safety property of RequestCustody, for any number of requests,    *)
(* generations and attempts.                                               *)
(*                                                                         *)
(* The properties speak of an entry that was given back, of a row, of the  *)
(* queue; what makes them inductive is what the process knows meanwhile.   *)
(* Inv(r) says it for one request: which rows the transactions can         *)
(* produce and what may still be in flight (RowInv), where a terminal is   *)
(* while the row does not have it yet (SeenInv, StoredInv, EvidenceInv),   *)
(* and why the plain read of a job is still true when its transaction      *)
(* commits (ReadInv).  QueueInv and Counted say it for the registry.       *)
(*                                                                         *)
(* Rows first: each transaction makes a legal row that follows the one it  *)
(* found.  Then one lemma per action: it keeps Inv(r) and touches no other *)
(* request.  Then the registry, the invariant, and the theorems.           *)
(***************************************************************************)
EXTENDS RequestCustody, Integers, TLAPS, FiniteSetTheorems, WellFoundedInduction

\* An attempt whose request may have reached the provider.
Intent == Observed \cup {"dispatched", "unknown", "resolved"}

\* An attempt that no transaction changes again.
Closed == Observed \cup {"not_dispatched"}

\* The outcomes which say that nothing was sent.
Unsent == {"request_ended_before_dispatch", "owner_lost_before_dispatch"}

\* The rows that the transactions produce: only the last attempt can be open,
\* and the state of the execution says how.
RowOK(e) ==
    /\ \A i \in 1..Len(e.attempts) :
          \/ e.attempts[i] \in Closed
          \/ /\ i = Len(e.attempts)
             /\ \/ e.state = "open" /\ e.attempts[i] \in {"prepared", "dispatched"}
                \/ e.state = "unknown" /\ e.attempts[i] = "unknown"
                \/ e.state = "resolved" /\ e.attempts[i] = "resolved"
    /\ e.state = "absent" => e.attempts = <<>>
    /\ e.state = "unknown" =>
          Len(e.attempts) > 0 /\ e.attempts[Len(e.attempts)] = "unknown"

\* What any number of transactions may make of a row.
Follows(e, f) ==
    /\ Len(e.attempts) <= Len(f.attempts)
    /\ \A i \in 1..Len(e.attempts) :
          /\ e.attempts[i] \in Closed => f.attempts[i] = e.attempts[i]
          /\ e.attempts[i] \in Intent => f.attempts[i] \in Intent
          /\ e.attempts[i] \in {"unknown", "resolved"} => f.attempts[i] # "dispatched"
    /\ e.state \in Outcome \cup {"resolved"} => f = e

\* A transaction in flight, if there is one, is a legal one on the row.
FlightOK(r) ==
    flight[r] # None =>
        /\ RowOK(flight[r])
        /\ Follows(exec[r], flight[r])
        /\ exec[r].state = "unknown" =>
              \/ flight[r] = exec[r]
              \/ flight[r].attempts[Len(exec[r].attempts)] \in Observed

\* The row and what may become of it.
RowInv(r) == RowOK(exec[r]) /\ FlightOK(r)

\* Before it is known to be accepted a request has no attempt.
PhaseInv(r) ==
    /\ phase[r] \in {"NotStarted", "NotAccepted"} =>
          exec[r].state = "absent" /\ flight[r] = None
    /\ phase[r] # "Accepted" =>
          /\ ~ tracker[r].occupied
          /\ sent[r] = {}
          /\ job[r].at \in {"idle", "start"}

\* The life of an entry and of the job that settles it.
EntryInv(r) ==
    /\ ref[r] = "new" => phase[r] = "NotStarted" /\ job[r].at = "idle" /\ owned[r] = None
    /\ ref[r] = "held" => owned[r] # None /\ job[r].at # "start"
    /\ job[r].at = "done" \/ job[r].success => ref[r] = "held"
    /\ job[r].at # "idle" => owned[r] # None
    /\ job[r].at \in {"idle", "start", "track", "interrupt"} => ~ job[r].success
    /\ job[r].at = "finish" =>
          /\ job[r].outcome \in Outcome
          /\ job[r].success => job[r].outcome = "succeeded" /\ ~ pipelineFailed[r]

\* The tracker of an attempt and its future.
TrackerInv(r) ==
    /\ ~ tracker[r].occupied => tracker[r] = Free
    /\ tracker[r].occupied => (tracker[r].dropped <=> future[r].at = "none")
    /\ future[r].at = "none" => future[r] = NoFuture
    /\ future[r].at # "none" =>
          /\ ref[r] = "held" /\ job[r].at = "idle"
          /\ tracker[r].occupied /\ tracker[r].id # 0
    /\ tracker[r].id = 0 => tracker[r].evidence = None
    /\ tracker[r].id # 0 =>
          /\ tracker[r].id = Len(exec[r].attempts)
          /\ flight[r] # None => tracker[r].id = Len(flight[r].attempts)

\* What was sent is on record, and every attempt but the tracked one has ended.
SentInv(r) ==
    /\ \A i \in sent[r] :
          /\ i \in 1..Len(exec[r].attempts)
          /\ exec[r].attempts[i] \in Intent
          /\ tracker[r].id # i => exec[r].attempts[i] \in Observed
    /\ future[r].at = "prepared" => tracker[r].id \notin sent[r]
    /\ future[r].at \in {"sent", "captured"} => tracker[r].id \in sent[r]
    /\ sent[r] # {} =>
          /\ exec[r].state \notin Unsent
          /\ flight[r] # None => flight[r].state \notin Unsent

\* A terminal that was observed is in the row, unless the tracker has it.
SeenInv(r) ==
    \A i \in 1..MaxAttempts : seen[r][i] # None =>
        /\ i \in sent[r]
        /\ exec[r].attempts[i] = seen[r][i] \/ tracker[r].id = i

\* A row holds only terminals that were observed.
StoredInv(r) ==
    /\ \A i \in 1..Len(exec[r].attempts) :
          exec[r].attempts[i] \in Observed => exec[r].attempts[i] = seen[r][i]
    /\ flight[r] # None => \A i \in 1..Len(flight[r].attempts) :
          flight[r].attempts[i] \in Observed => flight[r].attempts[i] = seen[r][i]

\* The attempt knows its own terminal, and the tracker once it is gone; the
\* terminal of a live attempt that was never handed over is in no row.
EvidenceInv(r) ==
    /\ tracker[r].id # 0 /\ future[r].at = "none" =>
          tracker[r].evidence = seen[r][tracker[r].id]
    /\ tracker[r].id # 0 /\ future[r].at # "none" =>
          future[r].terminal = seen[r][tracker[r].id]
    /\ future[r].at \in {"prepared", "sent"} =>
          /\ exec[r].attempts[tracker[r].id] \notin Observed
          /\ flight[r] # None => flight[r].attempts[tracker[r].id] \notin Observed

\* The read that decides the outcome comes after the tracker's reconciliation.
ReadInv(r) ==
    /\ job[r].at \in {"read", "finish"} =>
          /\ \A i \in sent[r] : exec[r].attempts[i] # "dispatched"
          /\ HasEvidence(r) => exec[r].attempts[tracker[r].id] = tracker[r].evidence
    /\ job[r].at = "interrupt" => exec[r].attempts # <<>> /\ ~ HasEvidence(r)
    /\ job[r].at = "finish" /\ job[r].outcome \in Unsent /\ sent[r] # {} =>
          \E i \in sent[r] : exec[r].attempts[i] \notin Observed

\* An entry that was given back.
RetiredInv(r) ==
    Retired(r) =>
        /\ exec[r].state # "open"
        /\ flight[r] \in {None, exec[r]}
        /\ \A i \in 1..MaxAttempts : seen[r][i] # None => exec[r].attempts[i] = seen[r][i]

\* A success that was shown.
DeliveredInv(r) ==
    r \in delivered =>
        /\ exec[r].state = "succeeded"
        /\ ~ pipelineFailed[r]
        /\ ref[r] = "dropped" \/ job[r].at = "done"

\* All of it, for one request.
Inv(r) ==
    /\ RowInv(r) /\ PhaseInv(r) /\ EntryInv(r) /\ TrackerInv(r) /\ SentInv(r)
    /\ SeenInv(r) /\ StoredInv(r) /\ EvidenceInv(r) /\ ReadInv(r) /\ RetiredInv(r)
    /\ DeliveredInv(r)

\* The entries that are in the queue; the others are with a visitor.
Queued(r) == owned[r] # None /\ (ref[r] = "dropped" => job[r].at = "idle")

\* Each of them is there once.
QueueInv ==
    /\ \A j, k \in 1..Len(queue) : queue[j] = queue[k] => j = k
    /\ \A r \in Request : (\E k \in 1..Len(queue) : queue[k] = r) <=> Queued(r)

-----------------------------------------------------------------------------
\* Rows.

\* The states of an execution.
State == Outcome \cup {"absent", "open", "unknown", "resolved"}

\* The fields of a row.
LEMMA RowIs ==
    ASSUME NEW e \in Execution
    PROVE  /\ e.state \in State
           /\ Len(e.attempts) \in 0..MaxAttempts
           /\ e.attempts \in [1..Len(e.attempts) -> AttemptState]
           /\ e.attempts \in Seq(AttemptState)
           /\ DOMAIN e.attempts = 1..Len(e.attempts)
           /\ e = [state |-> e.state, attempts |-> e.attempts]
<1>1. PICK n \in 0..MaxAttempts : e.attempts \in [1..n -> AttemptState]
    BY DEF Execution
<1>2. n \in Nat
    BY CustodyAssumption
<1>3. e.attempts \in Seq(AttemptState) /\ Len(e.attempts) = n
    BY <1>1, <1>2
<1>4. e.state \in State /\ e = [state |-> e.state, attempts |-> e.attempts]
    BY DEF Execution, State
<1>5. QED
    BY <1>1, <1>3, <1>4

\* A state and a list of attempts of the right length are a row.
LEMMA MakeRow ==
    ASSUME NEW s \in State, NEW n \in 0..MaxAttempts, NEW a \in [1..n -> AttemptState]
    PROVE  /\ [state |-> s, attempts |-> a] \in Execution
           /\ Len(a) = n
<1>1. n \in Nat
    BY CustodyAssumption
<1>2. a \in UNION {[1..m -> AttemptState] : m \in 0..MaxAttempts}
    OBVIOUS
<1>3. Len(a) = n
    BY <1>1
<1>4. QED
    BY <1>2, <1>3 DEF Execution, State

\* A row that a transaction makes of e.
Legal(e, f) == f \in Execution /\ RowOK(f) /\ Follows(e, f)

\* Admission inserts the row.
LEMMA AcceptedRow ==
    ASSUME NEW e \in Execution, RowOK(e), e.state = "absent"
    PROVE  Legal(e, Accepted) /\ Len(Accepted.attempts) = 0
<1>1. Len(Accepted.attempts) = 0 /\ Accepted.attempts = <<>> /\ Accepted.state = "open"
    BY DEF Accepted
<1>2. Accepted \in Execution
  <2>1. <<>> \in [1..0 -> AttemptState] /\ 0 \in 0..MaxAttempts
    BY CustodyAssumption
  <2>2. QED
    BY <2>1, MakeRow DEF Accepted, State
<1>3. e.attempts = <<>> /\ Len(e.attempts) = 0
    BY DEF RowOK
<1>4. RowOK(Accepted)
    BY <1>1 DEF RowOK
<1>5. Follows(e, Accepted)
    BY <1>1, <1>3 DEF Follows, Outcome, Observed
<1>6. QED
    BY <1>1, <1>2, <1>4, <1>5 DEF Legal

\* Changing one attempt.
LEMMA SetRow ==
    ASSUME NEW e \in Execution, NEW s \in State, NEW i \in 1..Len(e.attempts),
           NEW v \in AttemptState,
           NEW f, f = [state |-> s, attempts |-> [e.attempts EXCEPT ![i] = v]]
    PROVE  /\ f \in Execution
           /\ f.state = s
           /\ Len(f.attempts) = Len(e.attempts)
           /\ f.attempts[i] = v
           /\ \A j \in 1..Len(e.attempts) : j # i => f.attempts[j] = e.attempts[j]
<1>1. /\ Len(e.attempts) \in 0..MaxAttempts
      /\ e.attempts \in [1..Len(e.attempts) -> AttemptState]
    BY RowIs
<1> DEFINE a == [e.attempts EXCEPT ![i] = v]
<1>2. a \in [1..Len(e.attempts) -> AttemptState]
    BY <1>1
<1>3. f \in Execution /\ Len(a) = Len(e.attempts)
    BY <1>1, <1>2, MakeRow
<1>4. QED
    BY <1>1, <1>3

\* A new attempt is only added behind attempts that have ended.
LEMMA PreparedRow ==
    ASSUME NEW e \in Execution, RowOK(e), MayPrepare(e)
    PROVE  /\ Legal(e, Prepared(e))
           /\ Prepared(e).state = "open"
           /\ Len(Prepared(e).attempts) = Len(e.attempts) + 1
           /\ Prepared(e).attempts[Len(e.attempts) + 1] = "prepared"
           /\ \A i \in 1..Len(e.attempts) : Prepared(e).attempts[i] = e.attempts[i]
<1> DEFINE n == Len(e.attempts)
           a == Append(e.attempts, "prepared")
<1>1. /\ e.state \in State
      /\ n \in 0..MaxAttempts
      /\ e.attempts \in [1..n -> AttemptState]
      /\ e.attempts \in Seq(AttemptState)
      /\ DOMAIN e.attempts = 1..n
      /\ e = [state |-> e.state, attempts |-> e.attempts]
    BY RowIs
<1>2. n + 1 \in 0..MaxAttempts /\ n \in Nat
    BY <1>1, CustodyAssumption DEF MayPrepare
<1>3. "prepared" \in AttemptState
    BY DEF AttemptState
<1>4. /\ a \in Seq(AttemptState) /\ Len(a) = n + 1
      /\ a[n + 1] = "prepared"
      /\ \A i \in 1..n : a[i] = e.attempts[i]
    BY <1>1, <1>2, <1>3
<1>5. Prepared(e) = [state |-> e.state, attempts |-> a]
    BY <1>1 DEF Prepared
<1> HIDE DEF a
<1> DEFINE m == n + 1
<1>6. m \in 0..MaxAttempts /\ a \in Seq(AttemptState) /\ Len(a) = m
    BY <1>2, <1>4
<1> HIDE DEF m
<1>7. a \in [1..m -> AttemptState]
    BY <1>6
<1>8. Prepared(e) \in Execution
    BY <1>1, <1>6, <1>7, <1>5, MakeRow
<1>9. /\ Prepared(e).attempts = a
      /\ Prepared(e).state = "open"
    BY <1>5 DEF MayPrepare
<1>10. \A i \in 1..n : e.attempts[i] \in Closed
    BY <1>1 DEF MayPrepare, Closed
<1>11. RowOK(Prepared(e))
    BY <1>2, <1>4, <1>9, <1>10 DEF RowOK
<1>12. Follows(e, Prepared(e))
    BY <1>1, <1>2, <1>4, <1>9, <1>10 DEF Follows, MayPrepare, Outcome, Observed
<1>13. QED
    BY <1>4, <1>8, <1>9, <1>11, <1>12 DEF Legal

\* A dispatch intent changes the last attempt.
LEMMA DispatchedRow ==
    ASSUME NEW e \in Execution, RowOK(e), NEW i \in 1..Len(e.attempts), MayDispatch(e, i)
    PROVE  /\ Legal(e, Dispatched(e, i))
           /\ Dispatched(e, i).state = "open"
           /\ i = Len(e.attempts)
           /\ Len(Dispatched(e, i).attempts) = Len(e.attempts)
           /\ Dispatched(e, i).attempts[i] = "dispatched"
           /\ \A j \in 1..Len(e.attempts) :
                 j # i => Dispatched(e, i).attempts[j] = e.attempts[j]
<1> DEFINE f == Dispatched(e, i)
<1>1. e.state = "open" /\ e.attempts[i] = "prepared"
    BY DEF MayDispatch
<1>2. e = [state |-> e.state, attempts |-> e.attempts] /\ Len(e.attempts) \in Nat
    BY RowIs, CustodyAssumption
<1>3. f = [state |-> "open", attempts |-> [e.attempts EXCEPT ![i] = "dispatched"]]
    BY <1>1, <1>2 DEF Dispatched
<1>4. /\ f \in Execution
      /\ f.state = "open"
      /\ Len(f.attempts) = Len(e.attempts)
      /\ f.attempts[i] = "dispatched"
      /\ \A j \in 1..Len(e.attempts) : j # i => f.attempts[j] = e.attempts[j]
    BY <1>3, SetRow DEF AttemptState, State
<1>5. i = Len(e.attempts)
    BY <1>1 DEF RowOK, Closed, Observed
<1> HIDE DEF f
<1>6. RowOK(f)
    BY <1>2, <1>4, <1>5 DEF RowOK, Closed, Observed
<1>7. Follows(e, f)
    BY <1>1, <1>2, <1>4 DEF Follows, Closed, Observed, Intent, Outcome
<1>8. QED
    BY <1>4, <1>5, <1>6, <1>7 DEF Legal, f

\* What MayRecord and MayFinalize say of the row.
RowRecords(e, i, v) ==
    \/ e.attempts[i] = v
    \/ e.attempts[i] \in {"dispatched", "unknown"} /\ e.state \in {"open", "unknown"}

RowFinalizes(e, o) ==
    \/ e.state = o
    \/ /\ e.state = "open"
       /\ \A i \in DOMAIN e.attempts :
             e.attempts[i] \in Observed \cup {"prepared", "not_dispatched"}
       /\ o = "succeeded" => LastObserved(e) = "succeeded"

\* The guards of the transactions imply them.
LEMMA GuardsAre ==
    ASSUME NEW r \in Request
    PROVE  /\ \A i, v : MayRecord(r, i, v) => RowRecords(exec[r], i, v)
           /\ \A o : MayFinalize(r, o) => RowFinalizes(exec[r], o)
    BY DEF MayRecord, MayFinalize, RowRecords, RowFinalizes

\* A terminal is stored for the last attempt, or was there already.
LEMMA RecordedRow ==
    ASSUME NEW e \in Execution, RowOK(e), NEW i, i = Len(e.attempts), i # 0,
           NEW v \in Observed, RowRecords(e, i, v), NEW f, f = Recorded(e, i, v)
    PROVE  /\ Legal(e, f)
           /\ f = e \/ f.state = "open"
           /\ Len(f.attempts) = Len(e.attempts)
           /\ f.attempts[i] = v
           /\ \A j \in 1..Len(e.attempts) : j # i => f.attempts[j] = e.attempts[j]
<1>1. i \in Nat /\ i \in 1..Len(e.attempts)
    BY RowIs, CustodyAssumption
<1>2. CASE e.attempts[i] = v
  <2>1. f = e
    BY <1>2 DEF Recorded
  <2>2. QED
    BY <2>1, <1>2 DEF Legal, Follows
<1>3. CASE e.attempts[i] # v
  <2>1. f = [state |-> "open", attempts |-> [e.attempts EXCEPT ![i] = v]]
    BY <1>3 DEF Recorded
  <2>2. e.attempts[i] \in {"dispatched", "unknown"} /\ e.state \in {"open", "unknown"}
    BY <1>3 DEF RowRecords
  <2>3. /\ f \in Execution
        /\ f.state = "open"
        /\ Len(f.attempts) = Len(e.attempts)
        /\ f.attempts[i] = v
        /\ \A j \in 1..Len(e.attempts) : j # i => f.attempts[j] = e.attempts[j]
    BY <1>1, <2>1, SetRow DEF AttemptState, State
  <2>4. RowOK(f)
    BY <1>1, <2>3 DEF RowOK, Closed, Observed
  <2>5. Follows(e, f)
    BY <1>1, <2>2, <2>3 DEF Follows, Closed, Observed, Intent, Outcome
  <2>6. QED
    BY <2>3, <2>4, <2>5 DEF Legal
<1>4. QED
    BY <1>2, <1>3

\* Only an attempt that has no intent becomes not_dispatched.
LEMMA AbandonedRow ==
    ASSUME NEW e \in Execution, RowOK(e), NEW i, i = Len(e.attempts), i # 0,
           MayAbandon(e, i), NEW f, f = Abandoned(e, i)
    PROVE  /\ Legal(e, f)
           /\ f.state = e.state
           /\ e.state = "unknown" => f = e
           /\ Len(f.attempts) = Len(e.attempts)
           /\ f.attempts[i] = "not_dispatched"
           /\ e.attempts[i] \notin Intent
           /\ \A j \in 1..Len(e.attempts) : j # i => f.attempts[j] = e.attempts[j]
<1>1. i \in Nat /\ i \in 1..Len(e.attempts) /\ e.state \in State
    BY RowIs, CustodyAssumption
<1>2. /\ e = [state |-> e.state, attempts |-> e.attempts]
      /\ e.attempts \in [1..Len(e.attempts) -> AttemptState]
    BY RowIs
<1>3. f = [state |-> e.state, attempts |-> [e.attempts EXCEPT ![i] = "not_dispatched"]]
    BY <1>2 DEF Abandoned
<1>4. e.attempts[i] \in {"prepared", "not_dispatched"}
    BY DEF MayAbandon
<1>5. /\ f \in Execution
      /\ f.state = e.state
      /\ Len(f.attempts) = Len(e.attempts)
      /\ f.attempts[i] = "not_dispatched"
      /\ \A j \in 1..Len(e.attempts) : j # i => f.attempts[j] = e.attempts[j]
  <2>1. "not_dispatched" \in AttemptState
    BY DEF AttemptState
  <2>2. QED
    BY <2>1, <1>1, <1>3, SetRow
<1>6. e.attempts[i] = "not_dispatched" => f = e
    BY <1>2, <1>3
<1>7. e.attempts[i] = "prepared" => e.state = "open"
    BY <1>1 DEF RowOK, Closed, Observed
<1>8. RowOK(f)
  <2>1. CASE e.attempts[i] = "not_dispatched"
    BY <2>1, <1>6
  <2>2. CASE e.attempts[i] = "prepared"
    BY <2>2, <1>7, <1>1, <1>5 DEF RowOK, Closed, Observed
  <2>3. QED
    BY <2>1, <2>2, <1>4
<1>9. Follows(e, f)
  <2>1. CASE e.attempts[i] = "not_dispatched"
    BY <2>1, <1>6 DEF Follows
  <2>2. CASE e.attempts[i] = "prepared"
    BY <2>2, <1>1, <1>5, <1>7 DEF Follows, Closed, Observed, Intent, Outcome
  <2>3. QED
    BY <2>1, <2>2, <1>4
<1>10. QED
    BY <1>4, <1>5, <1>6, <1>7, <1>8, <1>9 DEF Legal, Intent, Observed

\* An intent becomes unknown; a terminal stays.
LEMMA MarkedRow ==
    ASSUME NEW e \in Execution, RowOK(e), NEW i, i = Len(e.attempts), i # 0,
           MayMark(e, i), NEW f, f = Marked(e, i)
    PROVE  /\ Legal(e, f)
           /\ \/ f = e
              \/ f.state = "unknown" /\ e.state = "open"
           /\ Len(f.attempts) = Len(e.attempts)
           /\ f.attempts[i] \in Observed \cup {"unknown"}
           /\ e.attempts[i] = "dispatched" => f.attempts[i] = "unknown"
           /\ \A j \in 1..Len(e.attempts) : j # i => f.attempts[j] = e.attempts[j]
<1>1. i \in Nat /\ i \in 1..Len(e.attempts)
    BY RowIs, CustodyAssumption
<1>2. CASE e.attempts[i] # "dispatched"
  <2>1. f = e
    BY <1>2 DEF Marked
  <2>2. QED
    BY <2>1, <1>2 DEF Legal, Follows, MayMark
<1>3. CASE e.attempts[i] = "dispatched"
  <2>1. f = [state |-> "unknown", attempts |-> [e.attempts EXCEPT ![i] = "unknown"]]
    BY <1>3 DEF Marked
  <2>2. e.state = "open"
    BY <1>1, <1>3 DEF RowOK, Closed, Observed
  <2>3. /\ f \in Execution
        /\ f.state = "unknown"
        /\ Len(f.attempts) = Len(e.attempts)
        /\ f.attempts[i] = "unknown"
        /\ \A j \in 1..Len(e.attempts) : j # i => f.attempts[j] = e.attempts[j]
    <3>1. "unknown" \in AttemptState /\ "unknown" \in State
        BY DEF AttemptState, State
    <3>2. QED
        BY <3>1, <1>1, <2>1, SetRow
  <2>4. RowOK(f)
    BY <1>1, <2>3 DEF RowOK, Closed, Observed
  <2>5. Follows(e, f)
    BY <1>1, <1>3, <2>2, <2>3 DEF Follows, Closed, Observed, Intent, Outcome
  <2>6. QED
    BY <2>2, <2>3, <2>4, <2>5, <1>3 DEF Legal
<1>4. QED
    BY <1>2, <1>3

\* The latest terminal exists where there is one at all.
LEMMA LastIs ==
    ASSUME NEW e \in Execution
    PROVE  /\ (\E i \in 1..Len(e.attempts) : e.attempts[i] \in Observed) =>
                 LastObserved(e) \in Observed
           /\ (\A i \in 1..Len(e.attempts) : e.attempts[i] \notin Observed) =>
                 LastObserved(e) = None
<1> DEFINE n == Len(e.attempts)
           ended == {i \in DOMAIN e.attempts : e.attempts[i] \in Observed}
           away == {n - i : i \in ended}
<1>1. n \in Nat /\ DOMAIN e.attempts = 1..n
    BY RowIs, CustodyAssumption
<1>2. CASE ended = {}
    BY <1>1, <1>2 DEF LastObserved
<1>3. CASE ended # {}
  <2>1. /\ \A i \in ended : i \in 1..n
        /\ away # {}
    BY <1>1, <1>3
  <2>2. \A y \in away : y \in Nat
    BY <1>1, <2>1
  <2> DEFINE less == {ss \in Nat \X Nat : ss[1] < ss[2]}
  <2>3. IsWellFoundedOn(less, Nat)
    BY NatLessThanWellFounded DEF OpToRel
  <2> HIDE DEF less
  <2>4. PICK x \in away : \A y \in away : ~ (<<y, x>> \in less)
    BY <2>1, <2>2, <2>3, WFMin
  <2>5. \A y \in away : x <= y
    <3>1. TAKE y \in away
    <3>2. x \in Nat /\ y \in Nat /\ ~ (<<y, x>> \in less)
        BY <2>2, <2>4
    <3>3. ~ (y < x)
        BY <3>2 DEF less
    <3>4. QED
        BY <3>2, <3>3
  <2>6. PICK k \in ended : x = n - k
    OBVIOUS
  <2>7. \A j \in ended : j <= k
    <3>1. TAKE j \in ended
    <3>2. n - j \in away
        OBVIOUS
    <3>3. n - k <= n - j /\ j \in Nat /\ k \in Nat
        BY <2>5, <2>6, <3>2, <1>1
    <3>4. QED
        BY <3>3, <1>1
  <2>8. \E i \in ended : \A j \in ended : j <= i
    BY <2>7
  <2> DEFINE c == CHOOSE i \in ended : \A j \in ended : j <= i
  <2>9. c \in ended
    BY <2>8
  <2>10. LastObserved(e) = e.attempts[c]
    BY <1>3 DEF LastObserved
  <2>11. QED
    BY <2>9, <2>10, <1>3, <1>1
<1>4. QED
    BY <1>2, <1>3

\* Changing every attempt that is in one state.
Mapped(e, s, v, w) ==
    [state    |-> s,
     attempts |-> [i \in DOMAIN e.attempts |-> IF e.attempts[i] = v THEN w ELSE e.attempts[i]]]

\* Every attempt in one state moves to another; the others stay.
LEMMA MapRow ==
    ASSUME NEW e \in Execution, NEW s \in State, NEW v, NEW w \in AttemptState,
           NEW f, f = Mapped(e, s, v, w)
    PROVE  /\ f \in Execution
           /\ f.state = s
           /\ Len(f.attempts) = Len(e.attempts)
           /\ \A i \in 1..Len(e.attempts) :
                 f.attempts[i] = IF e.attempts[i] = v THEN w ELSE e.attempts[i]
           /\ s = e.state /\ (\A i \in 1..Len(e.attempts) : e.attempts[i] # v) => f = e
<1> DEFINE a == [i \in DOMAIN e.attempts |-> IF e.attempts[i] = v THEN w ELSE e.attempts[i]]
<1>1. /\ Len(e.attempts) \in 0..MaxAttempts
      /\ e.attempts \in [1..Len(e.attempts) -> AttemptState]
      /\ e = [state |-> e.state, attempts |-> e.attempts]
      /\ DOMAIN e.attempts = 1..Len(e.attempts)
    BY RowIs
<1>2. a \in [1..Len(e.attempts) -> AttemptState]
    BY <1>1
<1>3. f \in Execution /\ Len(a) = Len(e.attempts)
    BY <1>1, <1>2, MakeRow DEF Mapped
<1>4. f = [state |-> s, attempts |-> a]
    BY DEF Mapped
<1>5. (\A i \in 1..Len(e.attempts) : e.attempts[i] # v) => a = e.attempts
    BY <1>1
<1>6. \A i \in 1..Len(e.attempts) :
         a[i] = IF e.attempts[i] = v THEN w ELSE e.attempts[i]
    BY <1>1
<1> HIDE DEF a
<1>7. QED
    BY <1>1, <1>3, <1>4, <1>5, <1>6

\* What finalize_locked makes of a row.
LEMMA FinalizedRow ==
    ASSUME NEW e \in Execution, RowOK(e), NEW o \in Outcome, RowFinalizes(e, o),
           NEW f, f = Finalized(e, o)
    PROVE  /\ Legal(e, f)
           /\ f.state = o
           /\ e.state = "open" \/ f = e
           /\ e.state # "unknown"
           /\ Len(f.attempts) = Len(e.attempts)
           /\ \A i \in 1..Len(e.attempts) :
                 f.attempts[i] = IF e.attempts[i] = "prepared" THEN "not_dispatched"
                                 ELSE e.attempts[i]
<1>1. /\ DOMAIN e.attempts = 1..Len(e.attempts)
      /\ Len(e.attempts) \in Nat
    BY RowIs, CustodyAssumption
<1>2. "not_dispatched" \in AttemptState /\ o \in State
    BY DEF AttemptState, State
<1>3. /\ f \in Execution
      /\ f.state = o
      /\ Len(f.attempts) = Len(e.attempts)
      /\ \A i \in 1..Len(e.attempts) :
            f.attempts[i] = IF e.attempts[i] = "prepared" THEN "not_dispatched"
                            ELSE e.attempts[i]
      /\ o = e.state /\ (\A i \in 1..Len(e.attempts) : e.attempts[i] # "prepared") => f = e
  <2>1. f = Mapped(e, o, "prepared", "not_dispatched")
    BY DEF Finalized, Mapped
  <2>2. QED
    BY <2>1, <1>2, MapRow
<1>4. o \notin {"absent", "open", "unknown", "resolved"}
    BY DEF Outcome, Observed
<1>5. CASE e.state = o
  <2>1. \A i \in 1..Len(e.attempts) : e.attempts[i] # "prepared"
    BY <1>1, <1>4, <1>5 DEF RowOK, Closed, Observed
  <2>2. f = e
    BY <1>3, <1>5, <2>1
  <2>3. QED
    BY <2>2, <1>3, <1>4, <1>5 DEF Legal, Follows
<1>6. CASE e.state # o
  <2>1. /\ e.state = "open"
        /\ \A i \in 1..Len(e.attempts) :
              e.attempts[i] \in Observed \cup {"prepared", "not_dispatched"}
    BY <1>1, <1>6 DEF RowFinalizes
  <2>2. RowOK(f)
    BY <1>1, <1>3, <1>4, <2>1 DEF RowOK, Closed, Observed
  <2>3. Follows(e, f)
    BY <1>1, <1>3, <2>1 DEF Follows, Closed, Observed, Intent, Outcome
  <2>4. QED
    BY <2>1, <2>2, <2>3, <1>3 DEF Legal
<1>7. QED
    BY <1>5, <1>6

\* What another instance makes of a row: unknown if work was sent.
LEMMA RecoveredRowIs ==
    ASSUME NEW e \in Execution, RowOK(e), e.state = "open", NEW f, f = RecoveredRow(e)
    PROVE  /\ Legal(e, f)
           /\ f.state # "open"
           /\ Len(f.attempts) = Len(e.attempts)
           /\ \A i \in 1..Len(e.attempts) :
                 f.attempts[i] = IF e.attempts[i] = "prepared" THEN "not_dispatched"
                                 ELSE IF e.attempts[i] = "dispatched" THEN "unknown"
                                 ELSE e.attempts[i]
           /\ (\E i \in 1..Len(e.attempts) :
                     e.attempts[i] \in Intent) => f.state \notin Unsent
<1>1. /\ DOMAIN e.attempts = 1..Len(e.attempts)
      /\ Len(e.attempts) \in Nat
    BY RowIs, CustodyAssumption
<1>2. \A i \in 1..Len(e.attempts) :
         \/ e.attempts[i] \in Closed
         \/ i = Len(e.attempts) /\ e.attempts[i] \in {"prepared", "dispatched"}
    BY DEF RowOK
<1>3. CASE \E i \in 1..Len(e.attempts) : e.attempts[i] = "dispatched"
  <2>1. "unknown" \in AttemptState /\ "unknown" \in State
    BY DEF AttemptState, State
  <2>2. f = Mapped(e, "unknown", "dispatched", "unknown")
    BY <1>1, <1>3 DEF RecoveredRow, Mapped
  <2>3. /\ f \in Execution
        /\ f.state = "unknown"
        /\ Len(f.attempts) = Len(e.attempts)
        /\ \A i \in 1..Len(e.attempts) :
              f.attempts[i] = IF e.attempts[i] = "dispatched" THEN "unknown"
                              ELSE e.attempts[i]
    BY <2>1, <2>2, MapRow
  <2>4. /\ Len(e.attempts) > 0
        /\ e.attempts[Len(e.attempts)] = "dispatched"
        /\ \A i \in 1..Len(e.attempts) : e.attempts[i] # "prepared"
    BY <1>1, <1>3, <1>2 DEF Closed, Observed
  <2>5. RowOK(f)
    BY <1>1, <1>2, <2>3, <2>4 DEF RowOK, Closed, Observed
  <2>6. Follows(e, f)
    BY <1>1, <2>3 DEF Follows, Closed, Observed, Intent, Outcome
  <2>7. \A i \in 1..Len(e.attempts) :
           f.attempts[i] = IF e.attempts[i] = "prepared" THEN "not_dispatched"
                           ELSE IF e.attempts[i] = "dispatched" THEN "unknown"
                           ELSE e.attempts[i]
    BY <2>3, <2>4
  <2>8. QED
    BY <2>3, <2>5, <2>6, <2>7 DEF Legal, Unsent
<1>4. CASE \A i \in 1..Len(e.attempts) : e.attempts[i] # "dispatched"
  <2> DEFINE o == IF LastObserved(e) = None THEN "owner_lost_before_dispatch"
                  ELSE LastObserved(e)
  <2>1. f = Finalized(e, o)
    BY <1>1, <1>4 DEF RecoveredRow
  <2>2. LastObserved(e) \in Observed \cup {None}
    BY LastIs
  <2>3. o \in Outcome
    BY <2>2 DEF Outcome
  <2>4. o = "succeeded" => LastObserved(e) = "succeeded"
    OBVIOUS
  <2>5. RowFinalizes(e, o)
    BY <1>1, <1>4, <1>2, <2>4 DEF RowFinalizes, Closed
  <2>6. (\E i \in 1..Len(e.attempts) : e.attempts[i] \in Intent) => o \notin Unsent
    <3>1. ASSUME NEW i \in 1..Len(e.attempts), e.attempts[i] \in Intent
          PROVE  e.attempts[i] \in Observed
        BY <3>1, <1>4, <1>2 DEF Intent, Closed
    <3>2. (\E i \in 1..Len(e.attempts) : e.attempts[i] \in Intent) =>
             LastObserved(e) \in Observed
        BY <3>1, LastIs
    <3>3. None \notin Observed /\ \A x \in Observed : x \notin Unsent
        BY CustodyAssumption DEF Observed, Unsent
    <3>4. QED
        BY <3>2, <3>3
  <2> HIDE DEF o
  <2>7. /\ Legal(e, f)
        /\ f.state = o
        /\ Len(f.attempts) = Len(e.attempts)
        /\ \A i \in 1..Len(e.attempts) :
              f.attempts[i] = IF e.attempts[i] = "prepared" THEN "not_dispatched"
                              ELSE e.attempts[i]
    BY <2>1, <2>3, <2>5, FinalizedRow
  <2>8. o # "open"
    BY <2>3 DEF Outcome, Observed
  <2>9. \A i \in 1..Len(e.attempts) :
           f.attempts[i] = IF e.attempts[i] = "prepared" THEN "not_dispatched"
                           ELSE IF e.attempts[i] = "dispatched" THEN "unknown"
                           ELSE e.attempts[i]
    BY <1>4, <2>7
  <2>10. QED
    BY <2>6, <2>7, <2>8, <2>9
<1>5. QED
    BY <1>3, <1>4

\* What the operator makes of an unknown execution.
LEMMA ResolvedRowIs ==
    ASSUME NEW e \in Execution, RowOK(e), e.state = "unknown", NEW f, f = ResolvedRow(e)
    PROVE  /\ Legal(e, f)
           /\ f.state = "resolved"
           /\ Len(f.attempts) = Len(e.attempts)
           /\ \A i \in 1..Len(e.attempts) :
                 f.attempts[i] = IF e.attempts[i] = "unknown" THEN "resolved"
                                 ELSE e.attempts[i]
<1>1. Len(e.attempts) \in Nat
    BY RowIs, CustodyAssumption
<1>2. "resolved" \in AttemptState /\ "resolved" \in State
    BY DEF AttemptState, State
<1>3. /\ f \in Execution
      /\ f.state = "resolved"
      /\ Len(f.attempts) = Len(e.attempts)
      /\ \A i \in 1..Len(e.attempts) :
            f.attempts[i] = IF e.attempts[i] = "unknown" THEN "resolved" ELSE e.attempts[i]
  <2>1. f = Mapped(e, "resolved", "unknown", "resolved")
    BY DEF ResolvedRow, Mapped
  <2>2. QED
    BY <2>1, <1>2, MapRow
<1>4. RowOK(f)
    BY <1>1, <1>3 DEF RowOK, Closed, Observed
<1>5. Follows(e, f)
    BY <1>1, <1>3 DEF Follows, Closed, Observed, Intent, Outcome
<1>6. QED
    BY <1>3, <1>4, <1>5 DEF Legal

\* Types; that no counter goes below zero comes with the accounting.
Typed ==
    /\ ref \in [Request -> {"new", "held", "dropped"}]
    /\ phase \in [Request -> {"NotStarted", "UnknownAck", "Accepted", "NotAccepted"}]
    /\ pipelineFailed \in [Request -> BOOLEAN]
    /\ tracker \in [Request -> Tracker]
    /\ future \in [Request -> Future]
    /\ job \in [Request -> Job]
    /\ owned \in [Request -> Generation \cup {None}]
    /\ queue \in Seq(Request)
    /\ generations \in [Generation -> Int]
    /\ slots \in Int
    /\ exec \in [Request -> Execution]
    /\ flight \in [Request -> Execution \cup {None}]
    /\ leased \in BOOLEAN
    /\ full \subseteq Episodic
    /\ sent \in [Request -> SUBSET (1..MaxAttempts)]
    /\ seen \in [Request -> [1..MaxAttempts -> Observed \cup {None}]]
    /\ delivered \in SUBSET Request

\* A step leaves everything of s alone.
Same(s) ==
    /\ ref'[s] = ref[s] /\ phase'[s] = phase[s] /\ pipelineFailed'[s] = pipelineFailed[s]
    /\ tracker'[s] = tracker[s] /\ future'[s] = future[s] /\ job'[s] = job[s]
    /\ owned'[s] = owned[s] /\ exec'[s] = exec[s] /\ flight'[s] = flight[s]
    /\ sent'[s] = sent[s] /\ seen'[s] = seen[s] /\ (s \in delivered' <=> s \in delivered)

\* A step concerns r only.
OthersSame(r) == \A s \in Request : s # r => Same(s)

\* A request that a step leaves alone keeps its invariant.
LEMMA SameKeeps ==
    ASSUME NEW s \in Request, Inv(s), Same(s)
    PROVE  Inv(s)'
<1>1. RowInv(s)' /\ PhaseInv(s)' /\ EntryInv(s)'
    BY DEF Inv, Same, RowInv, FlightOK, PhaseInv, EntryInv
<1>2. TrackerInv(s)' /\ SentInv(s)'
    BY DEF Inv, Same, TrackerInv, SentInv
<1>3. SeenInv(s)' /\ StoredInv(s)' /\ EvidenceInv(s)'
    BY DEF Inv, Same, SeenInv, StoredInv, EvidenceInv
<1>4. ReadInv(s)' /\ RetiredInv(s)' /\ DeliveredInv(s)'
    BY DEF Inv, Same, ReadInv, RetiredInv, DeliveredInv, HasEvidence, Retired
<1>5. QED
    BY <1>1, <1>2, <1>3, <1>4 DEF Inv

\* The tracker of an attempt that was prepared.
LEMMA BegunTracker ==
    ASSUME NEW i \in 0..MaxAttempts, NEW t, t = [Free EXCEPT !.occupied = TRUE, !.id = i]
    PROVE  t \in Tracker /\ t.occupied /\ ~ t.dropped /\ t.id = i /\ t.evidence = None
<1>1. t.occupied /\ ~ t.dropped /\ t.id = i /\ t.evidence = None
    BY DEF Free
<1>2. t \in Tracker
    BY CustodyAssumption DEF Free, Tracker
<1>3. QED
    BY <1>1, <1>2

\* The tracker of an attempt whose preparation was lost.
LEMMA LostTracker ==
    ASSUME NEW t, t = [Free EXCEPT !.occupied = TRUE, !.dropped = TRUE]
    PROVE  t \in Tracker /\ t.occupied /\ t.dropped /\ t.id = 0 /\ t.evidence = None
<1>1. t.occupied /\ t.dropped /\ t.id = 0 /\ t.evidence = None
    BY DEF Free
<1>2. t \in Tracker
  <2>1. 0 \in 0..MaxAttempts
    BY CustodyAssumption
  <2>2. QED
    BY <2>1 DEF Free, Tracker
<1>3. QED
    BY <1>1, <1>2

\* A dropped attempt leaves its terminal with the tracker.
LEMMA DroppedIs ==
    ASSUME NEW r, tracker[r] \in Tracker, future[r] \in Future
    PROVE  /\ DroppedTracker(r) \in Tracker
           /\ DroppedTracker(r).occupied <=> tracker[r].occupied
           /\ DroppedTracker(r).dropped
           /\ DroppedTracker(r).id = tracker[r].id
           /\ DroppedTracker(r).evidence = future[r].terminal
BY DEF DroppedTracker, Tracker, Future

\* A terminal that could not be stored is with the tracker.
LEMMA CapturedIs ==
    ASSUME NEW d \in Tracker, NEW v \in Observed \cup {None}, NEW t,
           t = [d EXCEPT !.evidence = v]
    PROVE  /\ t \in Tracker
           /\ t.occupied <=> d.occupied
           /\ t.dropped <=> d.dropped
           /\ t.id = d.id /\ t.evidence = v
BY DEF Tracker

\* A job that goes on keeps what it read.
LEMMA JobAt ==
    ASSUME NEW j \in Job, NEW k, NEW a \in {"idle", "start", "track", "interrupt", "read",
                                            "finish", "done"},
           k = [j EXCEPT !.at = a]
    PROVE  /\ k \in Job /\ k.at = a
           /\ k.success <=> j.success
           /\ k.outcome = j.outcome
BY DEF Job

\* A job that ended in an error.
LEMMA GiveUpIs ==
    ASSUME Typed, NEW r \in Request, GiveUp(r)
    PROVE  /\ UNCHANGED <<owned, generations, slots>>
           /\ queue' \in Seq(Request)
           /\ \E j \in Job : /\ job' = [job EXCEPT ![r] = j]
                             /\ j.at \in {"idle", "done"}
                             /\ j.at = "done" => ref[r] = "held"
                             /\ ~ j.success
<1>1. CASE ref[r] = "held"
  <2> DEFINE a == IF job[r].at \in {"track", "interrupt"} THEN "idle" ELSE "done"
             j == [Idle EXCEPT !.at = a]
  <2>1. Idle \in Job /\ ~ Idle.success
    BY DEF Idle, Job
  <2>2. a \in {"idle", "done"}
    OBVIOUS
  <2>3. /\ job' = [job EXCEPT ![r] = j]
        /\ UNCHANGED <<owned, queue, generations, slots>>
    BY <1>1 DEF GiveUp, registry
  <2> HIDE DEF a
  <2>4. j \in Job /\ j.at = a /\ ~ j.success
    BY <2>1, <2>2, JobAt
  <2>5. QED
    BY <1>1, <2>2, <2>3, <2>4 DEF Typed
<1>2. CASE ref[r] # "held"
  <2>1. Idle \in Job /\ ~ Idle.success /\ Idle.at = "idle"
    BY DEF Idle, Job
  <2>2. /\ job' = [job EXCEPT ![r] = Idle]
        /\ queue' = Append(queue, r)
        /\ UNCHANGED <<owned, generations, slots>>
    BY <1>2 DEF GiveUp, Requeue
  <2>3. queue' \in Seq(Request)
    BY <2>2 DEF Typed
  <2>4. QED
    BY <2>1, <2>2, <2>3
<1>3. QED
    BY <1>1, <1>2

\* What retiring leaves of a job.
LEMMA RetireIs ==
    ASSUME Typed, NEW r \in Request, Retire(r)
    PROVE  /\ job' = [job EXCEPT ![r] = Idle]
           /\ owned' = [owned EXCEPT ![r] = None]
           /\ generations' \in [Generation -> Int]
           /\ slots' \in Int
           /\ UNCHANGED queue
<1>1. /\ job' = [job EXCEPT ![r] = Idle]
      /\ owned' = [owned EXCEPT ![r] = None]
      /\ UNCHANGED queue
      /\ slots' = slots + 1
      /\ generations' = [generations EXCEPT ![owned[r]] = @ - 1]
    BY DEF Retire
<1>2. slots' \in Int
    BY <1>1 DEF Typed
<1>3. generations' \in [Generation -> Int]
  <2>1. generations \in [Generation -> Int]
    BY DEF Typed
  <2>2. CASE owned[r] \in Generation
    <3>1. generations[owned[r]] - 1 \in Int
        BY <2>1, <2>2
    <3>2. QED
        BY <1>1, <2>1, <3>1
  <2>3. CASE owned[r] \notin Generation
    BY <1>1, <2>1, <2>3
  <2>4. QED
    BY <2>2, <2>3
<1>4. QED
    BY <1>1, <1>2, <1>3

\* The outcome that a read chooses, and why.
LEMMA TerminalOutcomeIs ==
    ASSUME Typed, NEW r \in Request
    PROVE  /\ TerminalOutcome(r) \in Outcome
           /\ TerminalOutcome(r) = "succeeded" => ~ pipelineFailed[r]
           /\ TerminalOutcome(r) \in Unsent =>
                 \A i \in 1..Len(exec[r].attempts) : exec[r].attempts[i] \notin Observed
<1> DEFINE o == LastObserved(exec[r])
<1>1. exec[r] \in Execution
    BY DEF Typed
<1>2. /\ o \in Observed \cup {None}
      /\ o \notin Observed =>
            \A i \in 1..Len(exec[r].attempts) : exec[r].attempts[i] \notin Observed
    BY <1>1, LastIs
<1>3. None \notin Observed
    BY CustodyAssumption DEF Observed
<1> HIDE DEF o
<1>4. TerminalOutcome(r) = CASE o = "failed" -> "failed"
                             [] o # "failed" /\ pipelineFailed[r] -> "pipeline_failed"
                             [] o = "succeeded" /\ ~ pipelineFailed[r] -> "succeeded"
                             [] OTHER -> "request_ended_before_dispatch"
    BY DEF TerminalOutcome, o
<1>5. CASE o = "failed"
    BY <1>4, <1>5 DEF Outcome, Observed, Unsent
<1>6. CASE o # "failed" /\ pipelineFailed[r]
    BY <1>4, <1>6 DEF Outcome, Observed, Unsent
<1>7. CASE o = "succeeded" /\ ~ pipelineFailed[r]
    BY <1>4, <1>7 DEF Outcome, Observed, Unsent
<1>8. CASE o \notin Observed /\ ~ pipelineFailed[r]
    BY <1>2, <1>4, <1>8 DEF Outcome, Observed, Unsent
<1>9. QED
    BY <1>5, <1>6, <1>7, <1>8 DEF Observed

\* Once the tracker is reconciled, all that was observed is in the row.
LEMMA ReadSeesAll ==
    ASSUME Typed, NEW r \in Request, Inv(r), job[r].at \in {"read", "finish"}
    PROVE  /\ future[r].at = "none"
           /\ \A i \in 1..MaxAttempts :
                    seen[r][i] # None => exec[r].attempts[i] = seen[r][i]
<1>1. future[r].at = "none"
    BY DEF Inv, TrackerInv
<1>2. ASSUME NEW i \in 1..MaxAttempts, seen[r][i] # None, tracker[r].id = i
      PROVE  exec[r].attempts[i] = seen[r][i]
  <2>1. tracker[r].id # 0 /\ tracker[r].evidence = seen[r][i]
    BY <1>1, <1>2, CustodyAssumption DEF Inv, EvidenceInv
  <2>2. QED
    BY <1>2, <2>1 DEF Inv, ReadInv, HasEvidence
<1>3. QED
    BY <1>1, <1>2 DEF Inv, SeenInv

\* Whichever attempt was read, the row is examined again.
LEMMA InterruptedRow ==
    ASSUME NEW r \in Request, NEW n, n = Len(exec[r].attempts), n # 0,
           exec[r] \in Execution, RowOK(exec[r]), MayInterrupt(r), NEW f, f = Interrupted(r)
    PROVE  /\ Legal(exec[r], f) /\ Len(f.attempts) = n
           /\ \A i \in 1..n : i # n => f.attempts[i] = exec[r].attempts[i]
           /\ f.attempts[n] # "dispatched"
           /\ f.attempts[n] \in Observed => f = exec[r]
           /\ f = exec[r] \/ f.state \notin Unsent \/ f.state = exec[r].state
           /\ exec[r].state = "unknown" => f = exec[r]
           /\ f.state = "open" => exec[r].state = "open"
           /\ exec[r].attempts[n] \in Intent => f.attempts[n] \in Intent
<1>1. CASE job[r].todo = "prepared"
  <2>1. MayAbandon(exec[r], n) /\ f = Abandoned(exec[r], n)
    BY <1>1 DEF MayInterrupt, Interrupted
  <2>2. QED
    BY <2>1, AbandonedRow DEF Observed, Intent
<1>2. CASE job[r].todo # "prepared"
  <2>1. MayMark(exec[r], n) /\ f = Marked(exec[r], n)
    BY <1>2 DEF MayInterrupt, Interrupted
  <2>2. /\ Legal(exec[r], f) /\ Len(f.attempts) = n
        /\ \A i \in 1..n : i # n => f.attempts[i] = exec[r].attempts[i]
        /\ f.attempts[n] \in Observed \cup {"unknown"}
        /\ \/ f = exec[r]
           \/ f.state = "unknown" /\ exec[r].state = "open"
    BY <2>1, MarkedRow
  <2>3. f.attempts[n] \in Observed => f = exec[r]
    BY <2>1 DEF Marked, Observed
  <2>4. QED
    BY <2>2, <2>3 DEF Observed, Intent, Unsent
<1>3. QED
    BY <1>1, <1>2

\* A row that settles an entry is not changed by what is still in flight.
LEMMA SettledIsFinal ==
    ASSUME Typed, NEW r \in Request, Inv(r), job[r].at = "read", Settled(exec[r])
    PROVE  exec[r].state # "open" /\ flight[r] \in {None, exec[r]}
<1> DEFINE n == Len(exec[r].attempts)
<1>1. /\ exec[r] \in Execution /\ exec[r].state \in State /\ n \in 0..MaxAttempts
      /\ exec[r].state \notin {"absent", "open"}
    BY RowIs DEF Typed, Settled
<1>2. CASE exec[r].state = "unknown"
  <2>1. n # 0 /\ exec[r].attempts[n] = "unknown" /\ n \in 1..MaxAttempts
    BY <1>1, <1>2, CustodyAssumption DEF Inv, RowInv, RowOK
  <2>2. SUFFICES ASSUME flight[r] # None, flight[r].attempts[n] \in Observed
                 PROVE  FALSE
    BY <1>1, <1>2 DEF Inv, RowInv, FlightOK
  <2>3. Len(exec[r].attempts) <= Len(flight[r].attempts) /\ flight[r] \in Execution
    BY <2>2 DEF Inv, RowInv, FlightOK, Follows, Typed
  <2>4. n \in 1..Len(flight[r].attempts)
    BY <1>1, <2>1, <2>3, RowIs
  <2>5. seen[r][n] \in Observed
    BY <2>2, <2>4 DEF Inv, StoredInv
  <2>6. exec[r].attempts[n] = seen[r][n]
    BY <2>1, <2>5, ReadSeesAll, CustodyAssumption DEF Observed
  <2>7. QED
    BY <2>1, <2>5, <2>6 DEF Observed
<1>3. CASE exec[r].state # "unknown"
    BY <1>1, <1>3 DEF Inv, RowInv, FlightOK, Follows, State
<1>4. QED
    BY <1>2, <1>3

-----------------------------------------------------------------------------
\* One lemma per action.  Each first names the new row, tracker, future or job,
\* then the variables that keep their value, and goes through the parts of
\* Inv(r) that the action can disturb.

LEMMA ReserveKeeps ==
    ASSUME Typed, NEW r \in Request, Inv(r), Reserve(r)
    PROVE  Typed' /\ Inv(r)' /\ OthersSame(r)
<1>1. GenerationOf[r] \in Generation /\ GenerationOf[r] # None
    BY CustodyAssumption
<1>2. /\ UNCHANGED <<phase, pipelineFailed, tracker, future, job, exec, flight,
                     leased, full, sent, seen, delivered>>
      /\ ref[r] = "new"
    BY DEF Reserve, registry, history, process
<1>3. /\ ref' = [ref EXCEPT ![r] = "held"]
      /\ owned' = [owned EXCEPT ![r] = GenerationOf[r]]
    BY <1>1 DEF Reserve
<1>4. /\ ref'[r] = "held"
      /\ owned'[r] = GenerationOf[r]
    BY <1>3 DEF Typed
<1>5. Typed'
    BY <1>1, <1>2, <1>3 DEF Typed, Reserve
<1>6. OthersSame(r)
    BY <1>2, <1>3 DEF OthersSame, Same, Typed
<1>7. /\ RowInv(r)' /\ PhaseInv(r)' /\ SentInv(r)' /\ SeenInv(r)'
      /\ StoredInv(r)' /\ EvidenceInv(r)' /\ ReadInv(r)'
    BY <1>2
       DEF Inv, RowInv, FlightOK, PhaseInv, SentInv, SeenInv, StoredInv, EvidenceInv,
           ReadInv, HasEvidence
<1>8. EntryInv(r)'
    BY <1>1, <1>2, <1>4 DEF Inv, EntryInv
<1>9. TrackerInv(r)'
    BY <1>1, <1>2, <1>4 DEF Inv, TrackerInv
<1>10. RetiredInv(r)'
    BY <1>1, <1>2, <1>4 DEF Inv, RetiredInv, Retired
<1>11. DeliveredInv(r)'
    BY <1>1, <1>2, <1>4 DEF Inv, DeliveredInv, EntryInv
<1>12. QED
    BY <1>5, <1>6, <1>7, <1>8, <1>9, <1>10, <1>11 DEF Inv

LEMMA AdmitAcceptedKeeps ==
    ASSUME Typed, NEW r \in Request, Inv(r), AdmitAccepted(r)
    PROVE  Typed' /\ Inv(r)' /\ OthersSame(r)
<1>1. exec[r] \in Execution /\ RowOK(exec[r]) /\ exec[r].state = "absent"
    BY DEF Typed, Inv, RowInv, PhaseInv, AdmitAccepted, Admitting
<1>2. Legal(exec[r], Accepted) /\ Len(Accepted.attempts) = 0 /\ Accepted.state = "open"
    BY <1>1, AcceptedRow DEF Accepted
<1>3. exec[r].attempts = <<>> /\ sent[r] = {} /\ ~ tracker[r].occupied
      /\ future[r].at = "none"
    BY <1>1 DEF Inv, RowOK, PhaseInv, TrackerInv, AdmitAccepted, Admitting
<1>4. /\ UNCHANGED <<ref, pipelineFailed, tracker, future, job, owned, queue,
                     generations, slots, flight, leased, full, sent, seen, delivered>>
      /\ flight[r] = None
      /\ ref[r] = "held"
      /\ job[r].at = "idle"
      /\ phase[r] = "NotStarted"
    BY DEF AdmitAccepted, Admitting, Held, Commit, registry, history, process
<1>5. /\ exec' = [exec EXCEPT ![r] = Accepted]
      /\ phase' = [phase EXCEPT ![r] = "Accepted"]
    BY <1>1, <1>2, <1>3 DEF AdmitAccepted, Commit
<1>6. /\ exec'[r] = Accepted
      /\ phase'[r] = "Accepted"
    BY <1>5 DEF Typed
<1>7. Typed'
    BY <1>1, <1>2, <1>3, <1>4, <1>5 DEF Typed, Legal
<1>8. OthersSame(r)
    BY <1>4, <1>5 DEF OthersSame, Same, Typed
<1>9. RowInv(r)'
    BY <1>1, <1>2, <1>3, <1>4, <1>6 DEF Inv, RowInv, FlightOK, Legal
<1>10. PhaseInv(r)'
    BY <1>1, <1>2, <1>3, <1>4, <1>6 DEF Inv, PhaseInv
<1>11. EntryInv(r)'
    BY <1>1, <1>2, <1>3, <1>4, <1>6 DEF Inv, EntryInv
<1>12. TrackerInv(r)'
    BY <1>1, <1>2, <1>3, <1>4, <1>6 DEF Inv, TrackerInv, Free
<1>13. SentInv(r)'
    BY <1>1, <1>2, <1>3, <1>4, <1>6 DEF Inv, SentInv, TrackerInv, Free
<1>14. SeenInv(r)'
    BY <1>1, <1>2, <1>3, <1>4, <1>6 DEF Inv, SeenInv
<1>15. StoredInv(r)'
    BY <1>1, <1>2, <1>3, <1>4, <1>6 DEF Inv, StoredInv
<1>16. EvidenceInv(r)'
    BY <1>1, <1>2, <1>3, <1>4, <1>6 DEF Inv, EvidenceInv, TrackerInv, Free
<1>17. ReadInv(r)'
    BY <1>1, <1>2, <1>3, <1>4, <1>6 DEF Inv, ReadInv, HasEvidence
<1>18. RetiredInv(r)'
    BY <1>1, <1>2, <1>3, <1>4, <1>6 DEF Inv, RetiredInv, Retired, EntryInv
<1>19. DeliveredInv(r)'
    BY <1>1, <1>2, <1>3, <1>4, <1>6 DEF Inv, DeliveredInv
<1>20. QED
    BY <1>7, <1>8, <1>9, <1>10, <1>11, <1>12, <1>13, <1>14, <1>15, <1>16, <1>17, <1>18,
       <1>19 DEF Inv

LEMMA AdmitRefusedKeeps ==
    ASSUME Typed, NEW r \in Request, Inv(r), AdmitRefused(r)
    PROVE  Typed' /\ Inv(r)' /\ OthersSame(r)
<1>1. /\ UNCHANGED <<pipelineFailed, tracker, future, job, owned, queue, generations,
                     slots, exec, flight, leased, full, sent, seen, delivered>>
      /\ ref[r] = "held"
      /\ job[r].at = "idle"
      /\ phase[r] = "NotStarted"
    BY DEF AdmitRefused, Admitting, Held, registry, history, process
<1>2. /\ ref' = [ref EXCEPT ![r] = "dropped"]
      /\ phase' = [phase EXCEPT ![r] = "NotAccepted"]
    BY DEF AdmitRefused
<1>3. /\ ref'[r] = "dropped"
      /\ phase'[r] = "NotAccepted"
    BY <1>2 DEF Typed
<1>4. Typed'
    BY <1>1, <1>2 DEF Typed
<1>5. OthersSame(r)
    BY <1>1, <1>2 DEF OthersSame, Same, Typed
<1>6. /\ RowInv(r)' /\ SentInv(r)' /\ SeenInv(r)' /\ StoredInv(r)'
      /\ EvidenceInv(r)' /\ ReadInv(r)'
    BY <1>1
       DEF Inv, RowInv, FlightOK, SentInv, SeenInv, StoredInv, EvidenceInv, ReadInv,
           HasEvidence
<1>7. PhaseInv(r)'
    BY <1>1, <1>3 DEF Inv, PhaseInv
<1>8. EntryInv(r)'
    BY <1>1, <1>3 DEF Inv, EntryInv
<1>9. TrackerInv(r)'
    BY <1>1, <1>3 DEF Inv, TrackerInv, PhaseInv
<1>10. RetiredInv(r)'
    BY <1>1, <1>3 DEF Inv, RetiredInv, Retired, EntryInv
<1>11. DeliveredInv(r)'
    BY <1>1, <1>3 DEF Inv, DeliveredInv
<1>12. QED
    BY <1>4, <1>5, <1>6, <1>7, <1>8, <1>9, <1>10, <1>11 DEF Inv

LEMMA AdmitUncertainKeeps ==
    ASSUME Typed, NEW r \in Request, Inv(r), AdmitUncertain(r)
    PROVE  Typed' /\ Inv(r)' /\ OthersSame(r)
<1>1. CASE leased /\ Lose(r, Accepted)
  <2>1. exec[r] \in Execution /\ RowOK(exec[r]) /\ exec[r].state = "absent"
      BY DEF Typed, Inv, RowInv, PhaseInv, AdmitUncertain, Admitting
  <2>2. Legal(exec[r], Accepted) /\ Len(Accepted.attempts) = 0 /\ Accepted.state = "open"
      BY <2>1, AcceptedRow DEF Accepted
  <2>3. /\ exec[r].attempts = <<>> /\ sent[r] = {} /\ ~ tracker[r].occupied
        /\ future[r].at = "none" /\ tracker[r].id = 0 /\ owned[r] # None
      BY <2>1
         DEF Inv, RowOK, PhaseInv, TrackerInv, EntryInv, AdmitUncertain, Admitting,
             Held, Free
  <2>4. /\ UNCHANGED <<pipelineFailed, tracker, future, job, owned, queue, generations,
                       slots, exec, leased, full, sent, seen, delivered>>
        /\ ref[r] = "held" /\ job[r].at = "idle" /\ phase[r] = "NotStarted"
        /\ flight[r] = None
      BY <1>1 DEF AdmitUncertain, Admitting, Held, Lose, registry, history, process
  <2>5. /\ flight' = [flight EXCEPT ![r] = Accepted]
        /\ ref' = [ref EXCEPT ![r] = "dropped"]
        /\ phase' = [phase EXCEPT ![r] = "UnknownAck"]
      BY <1>1, <2>1, <2>2, <2>3 DEF AdmitUncertain, Lose, UncertainPhase
  <2>6. /\ flight'[r] = Accepted
        /\ ref'[r] = "dropped"
        /\ phase'[r] = "UnknownAck"
      BY <2>5 DEF Typed
  <2>7. Typed'
      BY <2>1, <2>2, <2>3, <2>4, <2>5 DEF Typed, Legal
  <2>8. OthersSame(r)
      BY <2>4, <2>5 DEF OthersSame, Same, Typed
  <2>9. SeenInv(r)' /\ ReadInv(r)'
      BY <2>4 DEF Inv, SeenInv, ReadInv, HasEvidence
  <2>10. RowInv(r)'
      BY <2>1, <2>2, <2>3, <2>4, <2>6 DEF Inv, RowInv, FlightOK, Legal
  <2>11. PhaseInv(r)'
      BY <2>1, <2>2, <2>3, <2>4, <2>6 DEF Inv, PhaseInv
  <2>12. EntryInv(r)'
      BY <2>1, <2>2, <2>3, <2>4, <2>6 DEF Inv, EntryInv
  <2>13. TrackerInv(r)'
      BY <2>1, <2>2, <2>3, <2>4, <2>6 DEF Inv, TrackerInv
  <2>14. SentInv(r)'
      BY <2>1, <2>2, <2>3, <2>4, <2>6 DEF Inv, SentInv
  <2>15. StoredInv(r)'
      BY <2>1, <2>2, <2>3, <2>4, <2>6 DEF Inv, StoredInv
  <2>16. EvidenceInv(r)'
      BY <2>1, <2>2, <2>3, <2>4, <2>6 DEF Inv, EvidenceInv
  <2>17. RetiredInv(r)'
      BY <2>1, <2>2, <2>3, <2>4, <2>6 DEF Inv, RetiredInv, Retired
  <2>18. DeliveredInv(r)'
      BY <2>1, <2>2, <2>3, <2>4, <2>6 DEF Inv, DeliveredInv
  <2>19. QED
      BY <2>7, <2>8, <2>9, <2>10, <2>11, <2>12, <2>13, <2>14, <2>15, <2>16, <2>17, <2>18
         DEF Inv
<1>2. CASE UNCHANGED <<exec, flight>>
  <2>1. /\ ~ tracker[r].occupied /\ future[r].at = "none" /\ owned[r] # None
      BY DEF Inv, PhaseInv, TrackerInv, EntryInv, AdmitUncertain, Admitting, Held
  <2>2. /\ UNCHANGED <<pipelineFailed, tracker, future, job, owned, queue, generations,
                       slots, exec, flight, leased, full, sent, seen, delivered>>
        /\ ref[r] = "held" /\ job[r].at = "idle" /\ phase[r] = "NotStarted"
      BY <1>2 DEF AdmitUncertain, Admitting, Held, registry, history, process
  <2>3. /\ ref' = [ref EXCEPT ![r] = "dropped"]
        /\ phase' = [phase EXCEPT ![r] = "UnknownAck"]
      BY <2>1 DEF AdmitUncertain, UncertainPhase
  <2>4. /\ ref'[r] = "dropped"
        /\ phase'[r] = "UnknownAck"
      BY <2>3 DEF Typed
  <2>5. Typed'
      BY <2>1, <2>2, <2>3 DEF Typed
  <2>6. OthersSame(r)
      BY <2>2, <2>3 DEF OthersSame, Same, Typed
  <2>7. /\ RowInv(r)' /\ SentInv(r)' /\ SeenInv(r)' /\ StoredInv(r)'
        /\ EvidenceInv(r)' /\ ReadInv(r)'
      BY <2>2
         DEF Inv, RowInv, FlightOK, SentInv, SeenInv, StoredInv, EvidenceInv, ReadInv,
             HasEvidence
  <2>8. PhaseInv(r)'
      BY <2>1, <2>2, <2>4 DEF Inv, PhaseInv
  <2>9. EntryInv(r)'
      BY <2>1, <2>2, <2>4 DEF Inv, EntryInv
  <2>10. TrackerInv(r)'
      BY <2>1, <2>2, <2>4 DEF Inv, TrackerInv
  <2>11. RetiredInv(r)'
      BY <2>1, <2>2, <2>4 DEF Inv, RetiredInv, Retired
  <2>12. DeliveredInv(r)'
      BY <2>1, <2>2, <2>4 DEF Inv, DeliveredInv
  <2>13. QED
      BY <2>5, <2>6, <2>7, <2>8, <2>9, <2>10, <2>11, <2>12 DEF Inv
<1>3. QED
    BY <1>1, <1>2 DEF AdmitUncertain

LEMMA BeginKeeps ==
    ASSUME Typed, NEW r \in Request, Inv(r), Begin(r)
    PROVE  Typed' /\ Inv(r)' /\ OthersSame(r)
<1> DEFINE f == Prepared(exec[r])
           t == [Free EXCEPT !.occupied = TRUE, !.id = Len(exec[r].attempts) + 1]
           u == [future[r] EXCEPT !.at = "prepared"]
<1>1. exec[r] \in Execution /\ RowOK(exec[r]) /\ MayPrepare(exec[r])
    BY DEF Typed, Inv, RowInv, Begin
<1>2. Len(exec[r].attempts) \in Nat /\ Len(exec[r].attempts) + 1 \in 0..MaxAttempts
    BY <1>1, RowIs, CustodyAssumption DEF MayPrepare
<1>3. /\ Legal(exec[r], f) /\ f.state = "open"
      /\ Len(f.attempts) = Len(exec[r].attempts) + 1
      /\ f.attempts[Len(exec[r].attempts) + 1] = "prepared"
      /\ \A i \in 1..Len(exec[r].attempts) : f.attempts[i] = exec[r].attempts[i]
    BY <1>1, PreparedRow
<1>4. future[r] = NoFuture /\ tracker[r].id = 0
    BY DEF Inv, TrackerInv, Free, Begin, MayBegin
<1>5. seen[r][Len(exec[r].attempts) + 1] = None /\ Len(exec[r].attempts) + 1 \notin sent[r]
    BY <1>2 DEF Inv, SentInv, SeenInv
<1>6. /\ t \in Tracker /\ t.occupied /\ ~ t.dropped
      /\ t.id = Len(exec[r].attempts) + 1 /\ t.evidence = None
    BY <1>2, BegunTracker
<1>7. u = [at |-> "prepared", terminal |-> None]
    BY <1>4 DEF NoFuture
<1>8. /\ UNCHANGED <<ref, phase, pipelineFailed, job, owned, queue, generations,
                     slots, flight, leased, full, sent, seen, delivered>>
      /\ flight[r] = None
      /\ ref[r] = "held" /\ job[r].at = "idle" /\ phase[r] = "Accepted"
      /\ future[r].at = "none" /\ ~ tracker[r].occupied
    BY DEF Begin, MayBegin, Held, Commit, registry, history, process
<1>9. /\ exec' = [exec EXCEPT ![r] = f]
      /\ tracker' = [tracker EXCEPT ![r] = t]
      /\ future' = [future EXCEPT ![r] = u]
    BY <1>1, <1>2, <1>3, <1>4, <1>5, <1>6, <1>7 DEF Begin, Commit
<1> HIDE DEF f, t, u
<1>10. /\ exec'[r] = f
       /\ tracker'[r] = t
       /\ future'[r] = u
    BY <1>9 DEF Typed
<1>11. Typed'
    BY <1>1, <1>2, <1>3, <1>4, <1>5, <1>6, <1>7, <1>8, <1>9 DEF Typed, Legal, Future
<1>12. OthersSame(r)
    BY <1>8, <1>9 DEF OthersSame, Same, Typed
<1>13. EntryInv(r)'
    BY <1>8 DEF Inv, EntryInv
<1>14. RowInv(r)'
    BY <1>1, <1>2, <1>3, <1>4, <1>5, <1>6, <1>7, <1>8, <1>10
       DEF Inv, RowInv, FlightOK, Legal
<1>15. PhaseInv(r)'
    BY <1>1, <1>2, <1>3, <1>4, <1>5, <1>6, <1>7, <1>8, <1>10 DEF Inv, PhaseInv
<1>16. TrackerInv(r)'
    BY <1>1, <1>2, <1>3, <1>4, <1>5, <1>6, <1>7, <1>8, <1>10 DEF Inv, TrackerInv
<1>17. SentInv(r)'
  <2>1. \A i \in sent[r] :
              i \in 1..Len(exec[r].attempts) /\ exec[r].attempts[i] \in Observed
    BY <1>2, <1>4 DEF Inv, SentInv
  <2>2. \A i \in sent[r] : i \in 1..Len(f.attempts) /\ f.attempts[i] \in Observed
    BY <2>1, <1>2, <1>3
  <2>3. t.id \notin sent[r] /\ f.state \notin Unsent /\ u.at = "prepared"
        /\ flight'[r] = None
    BY <1>3, <1>5, <1>6, <1>7, <1>8 DEF Unsent
  <2>4. QED
    BY <2>2, <2>3, <1>8, <1>10 DEF SentInv, Intent
<1>18. SeenInv(r)'
    BY <1>1, <1>2, <1>3, <1>4, <1>5, <1>6, <1>7, <1>8, <1>10 DEF Inv, SeenInv, SentInv
<1>19. StoredInv(r)'
  <2>1. flight'[r] = None
    BY <1>8, <1>10
  <2>2. ASSUME NEW i \in 1..Len(f.attempts), f.attempts[i] \in Observed
        PROVE  f.attempts[i] = seen[r][i]
    <3>1. i \in 1..Len(exec[r].attempts)
        BY <2>2, <1>2, <1>3 DEF Observed
    <3>2. QED
        BY <3>1, <2>2, <1>3 DEF Inv, StoredInv
  <2>3. QED
    BY <2>1, <2>2, <1>8, <1>10 DEF StoredInv
<1>20. EvidenceInv(r)'
    BY <1>1, <1>2, <1>3, <1>4, <1>5, <1>6, <1>7, <1>8, <1>10
       DEF Inv, EvidenceInv, Observed
<1>21. ReadInv(r)'
    BY <1>1, <1>2, <1>3, <1>4, <1>5, <1>6, <1>7, <1>8, <1>10 DEF Inv, ReadInv, HasEvidence
<1>22. RetiredInv(r)'
    BY <1>1, <1>2, <1>3, <1>4, <1>5, <1>6, <1>7, <1>8, <1>10
       DEF Inv, RetiredInv, Retired, EntryInv
<1>23. DeliveredInv(r)'
    BY <1>1, <1>2, <1>3, <1>4, <1>5, <1>6, <1>7, <1>8, <1>10 DEF Inv, DeliveredInv
<1>24. QED
    BY <1>11, <1>12, <1>13, <1>14, <1>15, <1>16, <1>17, <1>18, <1>19, <1>20, <1>21,
       <1>22, <1>23 DEF Inv

LEMMA BeginFailsKeeps ==
    ASSUME Typed, NEW r \in Request, Inv(r), BeginFails(r)
    PROVE  Typed' /\ Inv(r)' /\ OthersSame(r)
<1>1. CASE leased /\ MayPrepare(exec[r]) /\ Lose(r, Prepared(exec[r]))
  <2> DEFINE f == Prepared(exec[r])
             t == [Free EXCEPT !.occupied = TRUE, !.dropped = TRUE]
  <2>1. exec[r] \in Execution /\ RowOK(exec[r]) /\ MayPrepare(exec[r])
      BY <1>1 DEF Typed, Inv, RowInv
  <2>2. Len(exec[r].attempts) \in Nat
      BY <2>1, RowIs, CustodyAssumption
  <2>3. /\ Legal(exec[r], f) /\ f.state = "open"
        /\ Len(f.attempts) = Len(exec[r].attempts) + 1
        /\ f.attempts[Len(exec[r].attempts) + 1] = "prepared"
        /\ \A i \in 1..Len(exec[r].attempts) : f.attempts[i] = exec[r].attempts[i]
      BY <2>1, PreparedRow
  <2>4. tracker[r].id = 0 /\ exec[r].state = "open"
      BY <1>1 DEF Inv, TrackerInv, Free, BeginFails, MayBegin, MayPrepare
  <2>5. /\ t \in Tracker /\ t.occupied /\ t.dropped /\ t.id = 0 /\ t.evidence = None
      BY LostTracker
  <2>6. /\ UNCHANGED <<ref, phase, pipelineFailed, future, job, owned, queue,
                       generations, slots, exec, leased, full, sent, seen, delivered>>
        /\ ref[r] = "held" /\ job[r].at = "idle" /\ phase[r] = "Accepted"
        /\ future[r].at = "none" /\ ~ tracker[r].occupied
        /\ flight[r] = None
      BY <1>1 DEF BeginFails, MayBegin, Held, Lose, registry, history, process
  <2>7. /\ flight' = [flight EXCEPT ![r] = f]
        /\ tracker' = [tracker EXCEPT ![r] = t]
      BY <1>1, <2>1, <2>2, <2>3, <2>4, <2>5 DEF BeginFails, Lose
  <2> HIDE DEF f, t
  <2>8. /\ flight'[r] = f
        /\ tracker'[r] = t
      BY <2>7 DEF Typed
  <2>9. Typed'
      BY <2>1, <2>2, <2>3, <2>4, <2>5, <2>6, <2>7 DEF Typed, Legal
  <2>10. OthersSame(r)
      BY <2>6, <2>7 DEF OthersSame, Same, Typed
  <2>11. EntryInv(r)' /\ DeliveredInv(r)'
      BY <2>6 DEF Inv, EntryInv, DeliveredInv
  <2>12. RowInv(r)'
      BY <2>1, <2>2, <2>3, <2>4, <2>5, <2>6, <2>8 DEF Inv, RowInv, FlightOK, Legal
  <2>13. PhaseInv(r)'
      BY <2>1, <2>2, <2>3, <2>4, <2>5, <2>6, <2>8 DEF Inv, PhaseInv
  <2>14. TrackerInv(r)'
      BY <2>1, <2>2, <2>3, <2>4, <2>5, <2>6, <2>8 DEF Inv, TrackerInv
  <2>15. SentInv(r)'
      BY <2>1, <2>2, <2>3, <2>4, <2>5, <2>6, <2>8 DEF Inv, SentInv, Unsent
  <2>16. SeenInv(r)'
      BY <2>1, <2>2, <2>3, <2>4, <2>5, <2>6, <2>8 DEF Inv, SeenInv
  <2>17. StoredInv(r)'
    <3>1. ASSUME NEW i \in 1..Len(f.attempts), f.attempts[i] \in Observed
          PROVE  f.attempts[i] = seen[r][i]
      <4>1. i \in 1..Len(exec[r].attempts)
          BY <3>1, <2>2, <2>3 DEF Observed
      <4>2. QED
          BY <4>1, <3>1, <2>3 DEF Inv, StoredInv
    <3>2. QED
      BY <3>1, <2>6, <2>8 DEF Inv, StoredInv
  <2>18. EvidenceInv(r)'
      BY <2>1, <2>2, <2>3, <2>4, <2>5, <2>6, <2>8 DEF Inv, EvidenceInv
  <2>19. ReadInv(r)'
      BY <2>1, <2>2, <2>3, <2>4, <2>5, <2>6, <2>8 DEF Inv, ReadInv, HasEvidence
  <2>20. RetiredInv(r)'
      BY <2>1, <2>2, <2>3, <2>4, <2>5, <2>6, <2>8 DEF Inv, RetiredInv, Retired, EntryInv
  <2>21. QED
      BY <2>9, <2>10, <2>11, <2>12, <2>13, <2>14, <2>15, <2>16, <2>17, <2>18, <2>19,
         <2>20 DEF Inv
<1>2. CASE UNCHANGED <<exec, flight>>
  <2> DEFINE t == [Free EXCEPT !.occupied = TRUE, !.dropped = TRUE]
  <2>1. tracker[r].id = 0
      BY DEF Inv, TrackerInv, Free, BeginFails, MayBegin
  <2>2. /\ t \in Tracker /\ t.occupied /\ t.dropped /\ t.id = 0 /\ t.evidence = None
      BY LostTracker
  <2>3. /\ UNCHANGED <<ref, phase, pipelineFailed, future, job, owned, queue,
                       generations, slots, exec, flight, leased, full, sent, seen, delivered>>
        /\ ref[r] = "held" /\ job[r].at = "idle" /\ phase[r] = "Accepted"
        /\ future[r].at = "none" /\ ~ tracker[r].occupied
      BY <1>2 DEF BeginFails, MayBegin, Held, registry, history, process
  <2>4. /\ tracker' = [tracker EXCEPT ![r] = t]
      BY <2>1, <2>2 DEF BeginFails
  <2> HIDE DEF t
  <2>5. /\ tracker'[r] = t
      BY <2>4 DEF Typed
  <2>6. Typed'
      BY <2>1, <2>2, <2>3, <2>4 DEF Typed
  <2>7. OthersSame(r)
      BY <2>3, <2>4 DEF OthersSame, Same, Typed
  <2>8. /\ RowInv(r)' /\ EntryInv(r)' /\ StoredInv(r)' /\ RetiredInv(r)'
        /\ DeliveredInv(r)'
      BY <2>3
         DEF Inv, RowInv, FlightOK, EntryInv, StoredInv, RetiredInv, Retired,
             DeliveredInv
  <2>9. PhaseInv(r)'
      BY <2>1, <2>2, <2>3, <2>5 DEF Inv, PhaseInv
  <2>10. TrackerInv(r)'
      BY <2>1, <2>2, <2>3, <2>5 DEF Inv, TrackerInv
  <2>11. SentInv(r)'
      BY <2>1, <2>2, <2>3, <2>5 DEF Inv, SentInv
  <2>12. SeenInv(r)'
      BY <2>1, <2>2, <2>3, <2>5 DEF Inv, SeenInv
  <2>13. EvidenceInv(r)'
      BY <2>1, <2>2, <2>3, <2>5 DEF Inv, EvidenceInv
  <2>14. ReadInv(r)'
      BY <2>1, <2>2, <2>3, <2>5 DEF Inv, ReadInv, HasEvidence
  <2>15. QED
      BY <2>6, <2>7, <2>8, <2>9, <2>10, <2>11, <2>12, <2>13, <2>14 DEF Inv
<1>3. QED
    BY <1>1, <1>2 DEF BeginFails

LEMMA DispatchKeeps ==
    ASSUME Typed, NEW r \in Request, Inv(r), Dispatch(r)
    PROVE  Typed' /\ Inv(r)' /\ OthersSame(r)
<1> DEFINE f == Dispatched(exec[r], tracker[r].id)
           u == [future[r] EXCEPT !.at = "sent"]
           w == sent[r] \cup {tracker[r].id}
<1>1. exec[r] \in Execution /\ RowOK(exec[r]) /\ MayDispatch(exec[r], tracker[r].id)
    BY DEF Typed, Inv, RowInv, Dispatch
<1>2. /\ tracker[r] \in Tracker /\ tracker[r].occupied /\ ~ tracker[r].dropped
      /\ tracker[r].id = Len(exec[r].attempts) /\ tracker[r].id # 0 /\ phase[r] = "Accepted"
      /\ future[r] \in Future /\ owned[r] # None
    BY DEF Typed, Inv, TrackerInv, PhaseInv, EntryInv, Dispatch
<1>3. tracker[r].id \in 1..Len(exec[r].attempts) /\ tracker[r].id \in 1..MaxAttempts
    BY <1>1, <1>2, RowIs, CustodyAssumption
<1>4. /\ Legal(exec[r], f) /\ f.state = "open" /\ Len(f.attempts) = Len(exec[r].attempts)
      /\ f.attempts[tracker[r].id] = "dispatched"
      /\ \A i \in 1..Len(exec[r].attempts) :
               i # tracker[r].id => f.attempts[i] = exec[r].attempts[i]
    BY <1>1, <1>3, DispatchedRow
<1>5. /\ u \in Future /\ u.at = "sent" /\ u.terminal = future[r].terminal
    BY <1>2 DEF Future
<1>6. /\ UNCHANGED <<ref, phase, pipelineFailed, tracker, job, owned, queue,
                     generations, slots, flight, leased, full, seen, delivered>>
      /\ flight[r] = None
      /\ ref[r] = "held" /\ job[r].at = "idle" /\ future[r].at = "prepared"
    BY DEF Dispatch, Held, Commit, registry, history, process
<1>7. /\ exec' = [exec EXCEPT ![r] = f]
      /\ future' = [future EXCEPT ![r] = u]
      /\ sent' = [sent EXCEPT ![r] = w]
    BY <1>1, <1>2, <1>3, <1>4, <1>5 DEF Dispatch, Commit
<1> HIDE DEF f, u
<1>8. /\ exec'[r] = f
      /\ future'[r] = u
      /\ sent'[r] = w
    BY <1>7 DEF Typed
<1>9. Typed'
    BY <1>1, <1>2, <1>3, <1>4, <1>5, <1>6, <1>7 DEF Typed, Legal
<1>10. OthersSame(r)
    BY <1>6, <1>7 DEF OthersSame, Same, Typed
<1>11. EntryInv(r)'
    BY <1>6 DEF Inv, EntryInv
<1>12. RowInv(r)'
    BY <1>1, <1>2, <1>3, <1>4, <1>5, <1>6, <1>8 DEF Inv, RowInv, FlightOK, Legal
<1>13. PhaseInv(r)'
    BY <1>1, <1>2, <1>3, <1>4, <1>5, <1>6, <1>8 DEF Inv, PhaseInv
<1>14. TrackerInv(r)'
    BY <1>1, <1>2, <1>3, <1>4, <1>5, <1>6, <1>8 DEF Inv, TrackerInv
<1>15. SentInv(r)'
    BY <1>1, <1>2, <1>3, <1>4, <1>5, <1>6, <1>8 DEF Inv, SentInv, Unsent, Intent, Observed
<1>16. SeenInv(r)'
    BY <1>1, <1>2, <1>3, <1>4, <1>5, <1>6, <1>8 DEF Inv, SeenInv, SentInv
<1>17. StoredInv(r)'
  <2>1. flight'[r] = None
    BY <1>6, <1>8
  <2>2. ASSUME NEW i \in 1..Len(f.attempts), f.attempts[i] \in Observed
        PROVE  f.attempts[i] = seen[r][i]
    BY <2>2, <1>3, <1>4 DEF Inv, StoredInv, Observed
  <2>3. QED
    BY <2>1, <2>2, <1>6, <1>8 DEF StoredInv
<1>18. EvidenceInv(r)'
    BY <1>1, <1>2, <1>3, <1>4, <1>5, <1>6, <1>8 DEF Inv, EvidenceInv, Observed
<1>19. ReadInv(r)'
    BY <1>1, <1>2, <1>3, <1>4, <1>5, <1>6, <1>8 DEF Inv, ReadInv, HasEvidence
<1>20. RetiredInv(r)'
    BY <1>1, <1>2, <1>3, <1>4, <1>5, <1>6, <1>8 DEF Inv, RetiredInv, Retired, EntryInv
<1>21. DeliveredInv(r)'
    BY <1>1, <1>2, <1>3, <1>4, <1>5, <1>6, <1>8 DEF Inv, DeliveredInv
<1>22. QED
    BY <1>9, <1>10, <1>11, <1>12, <1>13, <1>14, <1>15, <1>16, <1>17, <1>18, <1>19,
       <1>20, <1>21 DEF Inv

LEMMA DispatchFailsKeeps ==
    ASSUME Typed, NEW r \in Request, Inv(r), DispatchFails(r)
    PROVE  Typed' /\ Inv(r)' /\ OthersSame(r)
<1>1. CASE /\ leased /\ MayDispatch(exec[r], tracker[r].id)
           /\ Lose(r, Dispatched(exec[r], tracker[r].id))
  <2> DEFINE f == Dispatched(exec[r], tracker[r].id)
             t == DroppedTracker(r)
  <2>1. exec[r] \in Execution /\ RowOK(exec[r]) /\ MayDispatch(exec[r], tracker[r].id)
      BY <1>1 DEF Typed, Inv, RowInv
  <2>2. /\ tracker[r] \in Tracker /\ tracker[r].occupied /\ ~ tracker[r].dropped
        /\ tracker[r].id = Len(exec[r].attempts) /\ tracker[r].id # 0
        /\ phase[r] = "Accepted"
        /\ future[r] \in Future /\ owned[r] # None
      BY DEF Typed, Inv, TrackerInv, PhaseInv, EntryInv, DispatchFails
  <2>3. tracker[r].id \in 1..Len(exec[r].attempts)
      BY <2>1, <2>2, RowIs, CustodyAssumption
  <2>4. /\ Legal(exec[r], f) /\ f.state = "open" /\ Len(f.attempts) = Len(exec[r].attempts)
        /\ f.attempts[tracker[r].id] = "dispatched"
        /\ \A i \in 1..Len(exec[r].attempts) :
                 i # tracker[r].id => f.attempts[i] = exec[r].attempts[i]
      BY <2>1, <2>3, DispatchedRow
  <2>5. exec[r].state = "open"
      BY <1>1 DEF MayDispatch
  <2>6. /\ t \in Tracker /\ t.occupied /\ t.dropped /\ t.id = tracker[r].id
        /\ t.evidence = future[r].terminal
      BY <2>2, DroppedIs
  <2>7. /\ UNCHANGED <<ref, phase, pipelineFailed, job, owned, queue, generations,
                       slots, exec, leased, full, sent, seen, delivered>>
        /\ flight[r] = None
        /\ ref[r] = "held" /\ job[r].at = "idle" /\ future[r].at = "prepared"
      BY <1>1 DEF DispatchFails, Held, Lose, registry, history, process
  <2>8. /\ flight' = [flight EXCEPT ![r] = f]
        /\ tracker' = [tracker EXCEPT ![r] = t]
        /\ future' = [future EXCEPT ![r] = NoFuture]
      BY <1>1, <2>1, <2>2, <2>3, <2>4, <2>5, <2>6 DEF DispatchFails, Lose
  <2> HIDE DEF f, t
  <2>9. /\ flight'[r] = f
        /\ tracker'[r] = t
        /\ future'[r] = NoFuture
      BY <2>8 DEF Typed
  <2>10. Typed'
      BY <2>1, <2>2, <2>3, <2>4, <2>5, <2>6, <2>7, <2>8 DEF Typed, Legal, NoFuture, Future
  <2>11. OthersSame(r)
      BY <2>7, <2>8 DEF OthersSame, Same, Typed
  <2>12. EntryInv(r)' /\ DeliveredInv(r)'
      BY <2>7 DEF Inv, EntryInv, DeliveredInv
  <2>13. RowInv(r)'
      BY <2>1, <2>2, <2>3, <2>4, <2>5, <2>6, <2>7, <2>9 DEF Inv, RowInv, FlightOK, Legal
  <2>14. PhaseInv(r)'
      BY <2>1, <2>2, <2>3, <2>4, <2>5, <2>6, <2>7, <2>9 DEF Inv, PhaseInv
  <2>15. TrackerInv(r)'
      BY <2>1, <2>2, <2>3, <2>4, <2>5, <2>6, <2>7, <2>9 DEF Inv, TrackerInv, NoFuture
  <2>16. SentInv(r)'
      BY <2>1, <2>2, <2>3, <2>4, <2>5, <2>6, <2>7, <2>9 DEF Inv, SentInv, Unsent, NoFuture
  <2>17. SeenInv(r)'
      BY <2>1, <2>2, <2>3, <2>4, <2>5, <2>6, <2>7, <2>9 DEF Inv, SeenInv
  <2>18. StoredInv(r)'
    <3>1. ASSUME NEW i \in 1..Len(f.attempts), f.attempts[i] \in Observed
          PROVE  f.attempts[i] = seen[r][i]
      BY <3>1, <2>3, <2>4 DEF Inv, StoredInv, Observed
    <3>2. QED
      BY <3>1, <2>7, <2>9 DEF Inv, StoredInv
  <2>19. EvidenceInv(r)'
      BY <2>1, <2>2, <2>3, <2>4, <2>5, <2>6, <2>7, <2>9 DEF Inv, EvidenceInv, NoFuture
  <2>20. ReadInv(r)'
      BY <2>1, <2>2, <2>3, <2>4, <2>5, <2>6, <2>7, <2>9 DEF Inv, ReadInv, HasEvidence
  <2>21. RetiredInv(r)'
      BY <2>1, <2>2, <2>3, <2>4, <2>5, <2>6, <2>7, <2>9 DEF Inv, RetiredInv, Retired
  <2>22. QED
      BY <2>10, <2>11, <2>12, <2>13, <2>14, <2>15, <2>16, <2>17, <2>18, <2>19, <2>20,
         <2>21 DEF Inv
<1>2. CASE UNCHANGED <<exec, flight>>
  <2> DEFINE t == DroppedTracker(r)
  <2>1. /\ tracker[r] \in Tracker /\ tracker[r].occupied /\ ~ tracker[r].dropped
        /\ tracker[r].id = Len(exec[r].attempts) /\ tracker[r].id # 0
        /\ phase[r] = "Accepted"
        /\ future[r] \in Future /\ owned[r] # None
      BY DEF Typed, Inv, TrackerInv, PhaseInv, EntryInv, DispatchFails
  <2>2. /\ t \in Tracker /\ t.occupied /\ t.dropped /\ t.id = tracker[r].id
        /\ t.evidence = future[r].terminal
      BY <2>1, DroppedIs
  <2>3. /\ UNCHANGED <<ref, phase, pipelineFailed, job, owned, queue, generations,
                       slots, exec, flight, leased, full, sent, seen, delivered>>
        /\ ref[r] = "held" /\ job[r].at = "idle" /\ future[r].at = "prepared"
      BY <1>2 DEF DispatchFails, Held, registry, history, process
  <2>4. /\ tracker' = [tracker EXCEPT ![r] = t]
        /\ future' = [future EXCEPT ![r] = NoFuture]
      BY <2>1, <2>2 DEF DispatchFails
  <2> HIDE DEF t
  <2>5. /\ tracker'[r] = t
        /\ future'[r] = NoFuture
      BY <2>4 DEF Typed
  <2>6. Typed'
      BY <2>1, <2>2, <2>3, <2>4 DEF Typed, NoFuture, Future
  <2>7. OthersSame(r)
      BY <2>3, <2>4 DEF OthersSame, Same, Typed
  <2>8. /\ RowInv(r)' /\ EntryInv(r)' /\ StoredInv(r)' /\ RetiredInv(r)'
        /\ DeliveredInv(r)'
      BY <2>3
         DEF Inv, RowInv, FlightOK, EntryInv, StoredInv, RetiredInv, Retired,
             DeliveredInv
  <2>9. PhaseInv(r)'
      BY <2>1, <2>2, <2>3, <2>5 DEF Inv, PhaseInv
  <2>10. TrackerInv(r)'
      BY <2>1, <2>2, <2>3, <2>5 DEF Inv, TrackerInv, NoFuture
  <2>11. SentInv(r)'
      BY <2>1, <2>2, <2>3, <2>5 DEF Inv, SentInv, NoFuture
  <2>12. SeenInv(r)'
      BY <2>1, <2>2, <2>3, <2>5 DEF Inv, SeenInv
  <2>13. EvidenceInv(r)'
      BY <2>1, <2>2, <2>3, <2>5 DEF Inv, EvidenceInv, NoFuture
  <2>14. ReadInv(r)'
      BY <2>1, <2>2, <2>3, <2>5 DEF Inv, ReadInv, HasEvidence
  <2>15. QED
      BY <2>6, <2>7, <2>8, <2>9, <2>10, <2>11, <2>12, <2>13, <2>14 DEF Inv
<1>3. QED
    BY <1>1, <1>2 DEF DispatchFails

LEMMA EndAttemptKeeps ==
    ASSUME Typed, NEW r \in Request, Inv(r), EndAttempt(r)
    PROVE  Typed' /\ Inv(r)' /\ OthersSame(r)
<1> DEFINE t == DroppedTracker(r)
<1>1. /\ tracker[r] \in Tracker /\ tracker[r].occupied /\ ~ tracker[r].dropped
      /\ tracker[r].id = Len(exec[r].attempts) /\ tracker[r].id # 0 /\ phase[r] = "Accepted"
      /\ future[r] \in Future /\ owned[r] # None
    BY DEF Typed, Inv, TrackerInv, PhaseInv, EntryInv, EndAttempt
<1>2. /\ t \in Tracker /\ t.occupied /\ t.dropped /\ t.id = tracker[r].id
      /\ t.evidence = future[r].terminal
    BY <1>1, DroppedIs
<1>3. /\ UNCHANGED <<ref, phase, pipelineFailed, job, owned, queue, generations,
                     slots, exec, flight, leased, full, sent, seen, delivered>>
      /\ ref[r] = "held" /\ job[r].at = "idle" /\ future[r].at # "none"
    BY DEF EndAttempt, Held, registry, history, process
<1>4. /\ tracker' = [tracker EXCEPT ![r] = t]
      /\ future' = [future EXCEPT ![r] = NoFuture]
    BY <1>1, <1>2 DEF EndAttempt
<1> HIDE DEF t
<1>5. /\ tracker'[r] = t
      /\ future'[r] = NoFuture
    BY <1>4 DEF Typed
<1>6. Typed'
    BY <1>1, <1>2, <1>3, <1>4 DEF Typed, NoFuture, Future
<1>7. OthersSame(r)
    BY <1>3, <1>4 DEF OthersSame, Same, Typed
<1>8. /\ RowInv(r)' /\ EntryInv(r)' /\ StoredInv(r)' /\ RetiredInv(r)'
      /\ DeliveredInv(r)'
    BY <1>3
       DEF Inv, RowInv, FlightOK, EntryInv, StoredInv, RetiredInv, Retired, DeliveredInv
<1>9. PhaseInv(r)'
    BY <1>1, <1>2, <1>3, <1>5 DEF Inv, PhaseInv
<1>10. TrackerInv(r)'
    BY <1>1, <1>2, <1>3, <1>5 DEF Inv, TrackerInv, NoFuture
<1>11. SentInv(r)'
    BY <1>1, <1>2, <1>3, <1>5 DEF Inv, SentInv, NoFuture
<1>12. SeenInv(r)'
    BY <1>1, <1>2, <1>3, <1>5 DEF Inv, SeenInv
<1>13. EvidenceInv(r)'
    BY <1>1, <1>2, <1>3, <1>5 DEF Inv, EvidenceInv, NoFuture
<1>14. ReadInv(r)'
    BY <1>1, <1>2, <1>3, <1>5 DEF Inv, ReadInv, HasEvidence
<1>15. QED
    BY <1>6, <1>7, <1>8, <1>9, <1>10, <1>11, <1>12, <1>13, <1>14 DEF Inv

LEMMA PipelineFailsKeeps ==
    ASSUME Typed, NEW r \in Request, Inv(r), PipelineFails(r)
    PROVE  Typed' /\ Inv(r)' /\ OthersSame(r)
<1>1. /\ UNCHANGED <<ref, phase, tracker, future, job, owned, queue, generations,
                     slots, exec, flight, leased, full, sent, seen, delivered>>
      /\ ref[r] = "held" /\ job[r].at = "idle"
    BY DEF PipelineFails, Held, registry, history, process
<1>2. /\ pipelineFailed' = [pipelineFailed EXCEPT ![r] = TRUE]
    BY DEF PipelineFails
<1>3. /\ pipelineFailed'[r] = TRUE
    BY <1>2 DEF Typed
<1>4. Typed'
    BY <1>1, <1>2 DEF Typed
<1>5. OthersSame(r)
    BY <1>1, <1>2 DEF OthersSame, Same, Typed
<1>6. /\ RowInv(r)' /\ PhaseInv(r)' /\ TrackerInv(r)' /\ SentInv(r)'
      /\ SeenInv(r)' /\ StoredInv(r)' /\ EvidenceInv(r)' /\ ReadInv(r)'
      /\ RetiredInv(r)'
    BY <1>1
       DEF Inv, RowInv, FlightOK, PhaseInv, TrackerInv, SentInv, SeenInv, StoredInv,
           EvidenceInv, ReadInv, HasEvidence, RetiredInv, Retired
<1>7. EntryInv(r)'
    BY <1>1, <1>3 DEF Inv, EntryInv
<1>8. DeliveredInv(r)'
    BY <1>1, <1>3 DEF Inv, DeliveredInv
<1>9. QED
    BY <1>4, <1>5, <1>6, <1>7, <1>8 DEF Inv

LEMMA ObserveKeeps ==
    ASSUME Typed, NEW r \in Request, Inv(r), NEW terminal \in Observed, Observe(r, terminal)
    PROVE  Typed' /\ Inv(r)' /\ OthersSame(r)
<1> DEFINE u == [future[r] EXCEPT !.terminal = terminal]
           w == [seen[r] EXCEPT ![tracker[r].id] = terminal]
<1>1. /\ tracker[r] \in Tracker /\ tracker[r].occupied /\ ~ tracker[r].dropped
      /\ tracker[r].id = Len(exec[r].attempts) /\ tracker[r].id # 0 /\ phase[r] = "Accepted"
      /\ future[r] \in Future /\ owned[r] # None
    BY DEF Typed, Inv, TrackerInv, PhaseInv, EntryInv, Observe
<1>2. exec[r] \in Execution /\ tracker[r].id \in 1..Len(exec[r].attempts)
      /\ tracker[r].id \in 1..MaxAttempts
    BY <1>1, RowIs, CustodyAssumption DEF Typed
<1>3. /\ u \in Future /\ u.at = "sent" /\ u.terminal = terminal
    BY <1>1 DEF Future, Observe
<1>4. /\ w \in [1..MaxAttempts -> Observed \cup {None}] /\ w[tracker[r].id] = terminal
      /\ \A i \in 1..MaxAttempts : i # tracker[r].id => w[i] = seen[r][i]
    BY <1>2 DEF Typed
<1>5. /\ UNCHANGED <<ref, phase, pipelineFailed, tracker, job, owned, queue,
                     generations, slots, exec, flight, leased, full, sent, delivered>>
      /\ ref[r] = "held" /\ job[r].at = "idle" /\ future[r].at = "sent"
    BY DEF Observe, Held, registry, history, process
<1>6. /\ future' = [future EXCEPT ![r] = u]
      /\ seen' = [seen EXCEPT ![r] = w]
    BY <1>1, <1>2, <1>3, <1>4 DEF Observe
<1> HIDE DEF u, w
<1>7. /\ future'[r] = u
      /\ seen'[r] = w
    BY <1>6 DEF Typed
<1>8. Typed'
    BY <1>1, <1>2, <1>3, <1>4, <1>5, <1>6 DEF Typed
<1>9. OthersSame(r)
    BY <1>5, <1>6 DEF OthersSame, Same, Typed
<1>10. /\ RowInv(r)' /\ PhaseInv(r)' /\ EntryInv(r)' /\ ReadInv(r)'
       /\ DeliveredInv(r)'
    BY <1>5
       DEF Inv, RowInv, FlightOK, PhaseInv, EntryInv, ReadInv, HasEvidence, DeliveredInv
<1>11. TrackerInv(r)'
    BY <1>1, <1>2, <1>3, <1>4, <1>5, <1>7 DEF Inv, TrackerInv
<1>12. SentInv(r)'
    BY <1>1, <1>2, <1>3, <1>4, <1>5, <1>7 DEF Inv, SentInv
<1>13. SeenInv(r)'
    BY <1>1, <1>2, <1>3, <1>4, <1>5, <1>7 DEF Inv, SeenInv, SentInv
<1>14. StoredInv(r)'
  <2>1. /\ Len(exec[r].attempts) \in 0..MaxAttempts
        /\ flight[r] # None => Len(flight[r].attempts) = tracker[r].id
    BY <1>1, <1>2, RowIs DEF Inv, TrackerInv
  <2>2. \A i \in 1..Len(exec[r].attempts) : i # tracker[r].id => w[i] = seen[r][i]
    BY <2>1, <1>4, CustodyAssumption
  <2>3. QED
    BY <2>1, <2>2, <1>1, <1>2, <1>5, <1>7 DEF Inv, StoredInv, EvidenceInv
<1>15. EvidenceInv(r)'
    BY <1>1, <1>2, <1>3, <1>4, <1>5, <1>7 DEF Inv, EvidenceInv
<1>16. RetiredInv(r)'
    BY <1>1, <1>2, <1>3, <1>4, <1>5, <1>7 DEF Inv, RetiredInv, Retired, EntryInv
<1>17. QED
    BY <1>8, <1>9, <1>10, <1>11, <1>12, <1>13, <1>14, <1>15, <1>16 DEF Inv

LEMMA PersistKeeps ==
    ASSUME Typed, NEW r \in Request, Inv(r), Persist(r)
    PROVE  Typed' /\ Inv(r)' /\ OthersSame(r)
<1> DEFINE f == Recorded(exec[r], tracker[r].id, future[r].terminal)
<1>1. /\ tracker[r] \in Tracker /\ tracker[r].occupied /\ ~ tracker[r].dropped
      /\ tracker[r].id = Len(exec[r].attempts) /\ tracker[r].id # 0 /\ phase[r] = "Accepted"
      /\ future[r] \in Future /\ owned[r] # None
    BY DEF Typed, Inv, TrackerInv, PhaseInv, EntryInv, Persist, Persisting
<1>2. exec[r] \in Execution /\ RowOK(exec[r])
      /\ RowRecords(exec[r], tracker[r].id, future[r].terminal)
    BY GuardsAre DEF Typed, Inv, RowInv, Persist
<1>3. tracker[r].id \in 1..Len(exec[r].attempts) /\ tracker[r].id \in 1..MaxAttempts
      /\ future[r].terminal \in Observed
    BY <1>1, <1>2, RowIs, CustodyAssumption DEF Persist, Persisting, Future
<1>4. /\ Legal(exec[r], f) /\ (f = exec[r] \/ f.state = "open")
      /\ Len(f.attempts) = Len(exec[r].attempts)
      /\ f.attempts[tracker[r].id] = future[r].terminal
      /\ \A i \in 1..Len(exec[r].attempts) :
               i # tracker[r].id => f.attempts[i] = exec[r].attempts[i]
    BY <1>1, <1>2, <1>3, RecordedRow
<1>5. future[r].terminal = seen[r][tracker[r].id] /\ tracker[r].id \in sent[r]
    BY <1>1 DEF Persist, Persisting, Inv, SentInv, EvidenceInv
<1>6. Free \in Tracker /\ Free.id = 0 /\ ~ Free.occupied /\ NoFuture \in Future
      /\ NoFuture.at = "none"
    BY CustodyAssumption DEF Free, Tracker, NoFuture, Future
<1>7. /\ UNCHANGED <<ref, phase, pipelineFailed, job, owned, queue, generations,
                     slots, flight, leased, full, sent, seen, delivered>>
      /\ flight[r] = None
      /\ ref[r] = "held" /\ job[r].at = "idle" /\ future[r].at = "sent"
    BY DEF Persist, Persisting, Held, Commit, registry, history, process
<1>8. /\ exec' = [exec EXCEPT ![r] = f]
      /\ tracker' = [tracker EXCEPT ![r] = Free]
      /\ future' = [future EXCEPT ![r] = NoFuture]
    BY <1>1, <1>2, <1>3, <1>4, <1>5, <1>6 DEF Persist, Commit
<1> HIDE DEF f
<1>9. /\ exec'[r] = f
      /\ tracker'[r] = Free
      /\ future'[r] = NoFuture
    BY <1>8 DEF Typed
<1>10. Typed'
    BY <1>1, <1>2, <1>3, <1>4, <1>5, <1>6, <1>7, <1>8 DEF Typed, Legal
<1>11. OthersSame(r)
    BY <1>7, <1>8 DEF OthersSame, Same, Typed
<1>12. EntryInv(r)'
    BY <1>7 DEF Inv, EntryInv
<1>13. RowInv(r)'
    BY <1>1, <1>2, <1>3, <1>4, <1>5, <1>6, <1>7, <1>9 DEF Inv, RowInv, FlightOK, Legal
<1>14. PhaseInv(r)'
    BY <1>1, <1>2, <1>3, <1>4, <1>5, <1>6, <1>7, <1>9 DEF Inv, PhaseInv
<1>15. TrackerInv(r)'
    BY <1>1, <1>2, <1>3, <1>4, <1>5, <1>6, <1>7, <1>9 DEF Inv, TrackerInv, Free
<1>16. SentInv(r)'
    BY <1>1, <1>2, <1>3, <1>4, <1>5, <1>6, <1>7, <1>9 DEF Inv, SentInv, Unsent, Intent
<1>17. SeenInv(r)'
    BY <1>1, <1>2, <1>3, <1>4, <1>5, <1>6, <1>7, <1>9 DEF Inv, SeenInv, SentInv
<1>18. StoredInv(r)'
  <2>1. flight'[r] = None
    BY <1>7, <1>9
  <2>2. ASSUME NEW i \in 1..Len(f.attempts), f.attempts[i] \in Observed
        PROVE  f.attempts[i] = seen[r][i]
    BY <2>2, <1>3, <1>4, <1>5 DEF Inv, StoredInv, Observed
  <2>3. QED
    BY <2>1, <2>2, <1>7, <1>9 DEF StoredInv
<1>19. EvidenceInv(r)'
    BY <1>1, <1>2, <1>3, <1>4, <1>5, <1>6, <1>7, <1>9 DEF Inv, EvidenceInv
<1>20. ReadInv(r)'
    BY <1>1, <1>2, <1>3, <1>4, <1>5, <1>6, <1>7, <1>9 DEF Inv, ReadInv, HasEvidence
<1>21. RetiredInv(r)'
    BY <1>1, <1>2, <1>3, <1>4, <1>5, <1>6, <1>7, <1>9
       DEF Inv, RetiredInv, Retired, EntryInv
<1>22. DeliveredInv(r)'
    BY <1>1, <1>2, <1>3, <1>4, <1>5, <1>6, <1>7, <1>9 DEF Inv, DeliveredInv
<1>23. QED
    BY <1>10, <1>11, <1>12, <1>13, <1>14, <1>15, <1>16, <1>17, <1>18, <1>19, <1>20,
       <1>21, <1>22 DEF Inv

LEMMA PersistFailsKeeps ==
    ASSUME Typed, NEW r \in Request, Inv(r), PersistFails(r)
    PROVE  Typed' /\ Inv(r)' /\ OthersSame(r)
<1>1. CASE /\ MayRecord(r, tracker[r].id, future[r].terminal)
           /\ Lose(r, Recorded(exec[r], tracker[r].id, future[r].terminal))
  <2> DEFINE f == Recorded(exec[r], tracker[r].id, future[r].terminal)
             t == [tracker[r] EXCEPT !.evidence = future[r].terminal]
             u == [future[r] EXCEPT !.at = "captured"]
  <2>1. /\ tracker[r] \in Tracker /\ tracker[r].occupied /\ ~ tracker[r].dropped
        /\ tracker[r].id = Len(exec[r].attempts) /\ tracker[r].id # 0
        /\ phase[r] = "Accepted"
        /\ future[r] \in Future /\ owned[r] # None
      BY DEF Typed, Inv, TrackerInv, PhaseInv, EntryInv, PersistFails, Persisting
  <2>2. exec[r] \in Execution /\ RowOK(exec[r])
        /\ RowRecords(exec[r], tracker[r].id, future[r].terminal)
      BY <1>1, GuardsAre DEF Typed, Inv, RowInv
  <2>3. tracker[r].id \in 1..Len(exec[r].attempts) /\ tracker[r].id \in 1..MaxAttempts
        /\ future[r].terminal \in Observed
      BY <2>1, <2>2, RowIs, CustodyAssumption DEF PersistFails, Persisting, Future
  <2>4. /\ Legal(exec[r], f) /\ (f = exec[r] \/ f.state = "open")
        /\ Len(f.attempts) = Len(exec[r].attempts)
        /\ f.attempts[tracker[r].id] = future[r].terminal
        /\ \A i \in 1..Len(exec[r].attempts) :
                 i # tracker[r].id => f.attempts[i] = exec[r].attempts[i]
      BY <2>1, <2>2, <2>3, RecordedRow
  <2>5. future[r].terminal = seen[r][tracker[r].id] /\ tracker[r].id \in sent[r]
      BY <2>1 DEF PersistFails, Persisting, Inv, SentInv, EvidenceInv
  <2>6. /\ t \in Tracker /\ t.occupied /\ ~ t.dropped /\ t.id = tracker[r].id
        /\ t.evidence = future[r].terminal
      BY <2>1, <2>3, CapturedIs
  <2>7. /\ u \in Future /\ u.at = "captured" /\ u.terminal = future[r].terminal
      BY <2>1 DEF Future
  <2>8. /\ UNCHANGED <<ref, phase, pipelineFailed, job, owned, queue, generations,
                       slots, exec, leased, full, sent, seen, delivered>>
        /\ flight[r] = None
        /\ ref[r] = "held" /\ job[r].at = "idle" /\ future[r].at = "sent"
      BY <1>1 DEF PersistFails, Persisting, Held, Lose, registry, history, process
  <2>9. /\ flight' = [flight EXCEPT ![r] = f]
        /\ tracker' = [tracker EXCEPT ![r] = t]
        /\ future' = [future EXCEPT ![r] = u]
      BY <1>1, <2>1, <2>2, <2>3, <2>4, <2>5, <2>6, <2>7 DEF PersistFails, Lose
  <2> HIDE DEF f, t, u
  <2>10. /\ flight'[r] = f
         /\ tracker'[r] = t
         /\ future'[r] = u
      BY <2>9 DEF Typed
  <2>11. Typed'
      BY <2>1, <2>2, <2>3, <2>4, <2>5, <2>6, <2>7, <2>8, <2>9 DEF Typed, Legal
  <2>12. OthersSame(r)
      BY <2>8, <2>9 DEF OthersSame, Same, Typed
  <2>13. EntryInv(r)' /\ DeliveredInv(r)'
      BY <2>8 DEF Inv, EntryInv, DeliveredInv
  <2>14. RowInv(r)'
      BY <2>1, <2>2, <2>3, <2>4, <2>5, <2>6, <2>7, <2>8, <2>10
         DEF Inv, RowInv, FlightOK, Legal
  <2>15. PhaseInv(r)'
      BY <2>1, <2>2, <2>3, <2>4, <2>5, <2>6, <2>7, <2>8, <2>10 DEF Inv, PhaseInv
  <2>16. TrackerInv(r)'
      BY <2>1, <2>2, <2>3, <2>4, <2>5, <2>6, <2>7, <2>8, <2>10 DEF Inv, TrackerInv
  <2>17. SentInv(r)'
      BY <2>1, <2>2, <2>3, <2>4, <2>5, <2>6, <2>7, <2>8, <2>10 DEF Inv, SentInv, Unsent
  <2>18. SeenInv(r)'
      BY <2>1, <2>2, <2>3, <2>4, <2>5, <2>6, <2>7, <2>8, <2>10 DEF Inv, SeenInv
  <2>19. StoredInv(r)'
    <3>1. ASSUME NEW i \in 1..Len(f.attempts), f.attempts[i] \in Observed
          PROVE  f.attempts[i] = seen[r][i]
      BY <3>1, <2>3, <2>4, <2>5 DEF Inv, StoredInv, Observed
    <3>2. QED
      BY <3>1, <2>8, <2>10 DEF Inv, StoredInv
  <2>20. EvidenceInv(r)'
      BY <2>1, <2>2, <2>3, <2>4, <2>5, <2>6, <2>7, <2>8, <2>10 DEF Inv, EvidenceInv
  <2>21. ReadInv(r)'
      BY <2>1, <2>2, <2>3, <2>4, <2>5, <2>6, <2>7, <2>8, <2>10
         DEF Inv, ReadInv, HasEvidence
  <2>22. RetiredInv(r)'
      BY <2>1, <2>2, <2>3, <2>4, <2>5, <2>6, <2>7, <2>8, <2>10
         DEF Inv, RetiredInv, Retired
  <2>23. QED
      BY <2>11, <2>12, <2>13, <2>14, <2>15, <2>16, <2>17, <2>18, <2>19, <2>20, <2>21,
         <2>22 DEF Inv
<1>2. CASE UNCHANGED <<exec, flight>>
  <2> DEFINE t == [tracker[r] EXCEPT !.evidence = future[r].terminal]
             u == [future[r] EXCEPT !.at = "captured"]
  <2>1. /\ tracker[r] \in Tracker /\ tracker[r].occupied /\ ~ tracker[r].dropped
        /\ tracker[r].id = Len(exec[r].attempts) /\ tracker[r].id # 0
        /\ phase[r] = "Accepted"
        /\ future[r] \in Future /\ owned[r] # None
      BY DEF Typed, Inv, TrackerInv, PhaseInv, EntryInv, PersistFails, Persisting
  <2>2. future[r].terminal \in Observed
      BY <2>1 DEF PersistFails, Persisting, Future
  <2>3. /\ t \in Tracker /\ t.occupied /\ ~ t.dropped /\ t.id = tracker[r].id
        /\ t.evidence = future[r].terminal
      BY <2>1, <2>2, CapturedIs
  <2>4. /\ u \in Future /\ u.at = "captured" /\ u.terminal = future[r].terminal
      BY <2>1 DEF Future
  <2>5. /\ UNCHANGED <<ref, phase, pipelineFailed, job, owned, queue, generations,
                       slots, exec, flight, leased, full, sent, seen, delivered>>
        /\ ref[r] = "held" /\ job[r].at = "idle" /\ future[r].at = "sent"
      BY <1>2 DEF PersistFails, Persisting, Held, registry, history, process
  <2>6. /\ tracker' = [tracker EXCEPT ![r] = t]
        /\ future' = [future EXCEPT ![r] = u]
      BY <2>1, <2>2, <2>3, <2>4 DEF PersistFails
  <2> HIDE DEF t, u
  <2>7. /\ tracker'[r] = t
        /\ future'[r] = u
      BY <2>6 DEF Typed
  <2>8. Typed'
      BY <2>1, <2>2, <2>3, <2>4, <2>5, <2>6 DEF Typed
  <2>9. OthersSame(r)
      BY <2>5, <2>6 DEF OthersSame, Same, Typed
  <2>10. /\ RowInv(r)' /\ EntryInv(r)' /\ StoredInv(r)' /\ RetiredInv(r)'
         /\ DeliveredInv(r)'
      BY <2>5
         DEF Inv, RowInv, FlightOK, EntryInv, StoredInv, RetiredInv, Retired,
             DeliveredInv
  <2>11. PhaseInv(r)'
      BY <2>1, <2>2, <2>3, <2>4, <2>5, <2>7 DEF Inv, PhaseInv
  <2>12. TrackerInv(r)'
      BY <2>1, <2>2, <2>3, <2>4, <2>5, <2>7 DEF Inv, TrackerInv
  <2>13. SentInv(r)'
      BY <2>1, <2>2, <2>3, <2>4, <2>5, <2>7 DEF Inv, SentInv
  <2>14. SeenInv(r)'
      BY <2>1, <2>2, <2>3, <2>4, <2>5, <2>7 DEF Inv, SeenInv
  <2>15. EvidenceInv(r)'
      BY <2>1, <2>2, <2>3, <2>4, <2>5, <2>7 DEF Inv, EvidenceInv
  <2>16. ReadInv(r)'
      BY <2>1, <2>2, <2>3, <2>4, <2>5, <2>7 DEF Inv, ReadInv, HasEvidence
  <2>17. QED
      BY <2>8, <2>9, <2>10, <2>11, <2>12, <2>13, <2>14, <2>15, <2>16 DEF Inv
<1>3. QED
    BY <1>1, <1>2 DEF PersistFails

LEMMA DropKeeps ==
    ASSUME Typed, NEW r \in Request, Inv(r), Drop(r)
    PROVE  Typed' /\ Inv(r)' /\ OthersSame(r)
<1>1. CASE future[r].at = "none"
  <2>1. future[r] = NoFuture
      BY <1>1 DEF Inv, TrackerInv
  <2>2. Idle \in Job /\ Idle.at = "idle" /\ ~ Idle.success
      BY DEF Idle, Job
  <2>3. /\ UNCHANGED <<phase, pipelineFailed, tracker, owned, queue, generations, slots,
                       exec, flight, leased, full, sent, seen, delivered>>
        /\ ref[r] = "held"
      BY <1>1 DEF Drop, registry, history, process
  <2>4. /\ ref' = [ref EXCEPT ![r] = "dropped"]
        /\ future' = [future EXCEPT ![r] = NoFuture]
        /\ job' = [job EXCEPT ![r] = Idle]
      BY <2>1, <2>2 DEF Drop
  <2>5. /\ ref'[r] = "dropped"
        /\ future'[r] = NoFuture
        /\ job'[r] = Idle
      BY <2>4 DEF Typed
  <2>6. Typed'
      BY <2>1, <2>2, <2>3, <2>4 DEF Typed, NoFuture, Future
  <2>7. OthersSame(r)
      BY <2>3, <2>4 DEF OthersSame, Same, Typed
  <2>8. RowInv(r)' /\ SeenInv(r)' /\ StoredInv(r)'
      BY <2>3 DEF Inv, RowInv, FlightOK, SeenInv, StoredInv
  <2>9. PhaseInv(r)'
      BY <2>1, <2>2, <2>3, <2>5 DEF Inv, PhaseInv
  <2>10. EntryInv(r)'
      BY <2>1, <2>2, <2>3, <2>5 DEF Inv, EntryInv
  <2>11. TrackerInv(r)'
      BY <2>1, <2>2, <2>3, <2>5 DEF Inv, TrackerInv, NoFuture
  <2>12. SentInv(r)'
      BY <2>1, <2>2, <2>3, <2>5 DEF Inv, SentInv
  <2>13. EvidenceInv(r)'
      BY <2>1, <2>2, <2>3, <2>5 DEF Inv, EvidenceInv
  <2>14. ReadInv(r)'
      BY <2>1, <2>2, <2>3, <2>5 DEF Inv, ReadInv, HasEvidence
  <2>15. RetiredInv(r)'
      BY <2>1, <2>2, <2>3, <2>5 DEF Inv, RetiredInv, Retired, EntryInv
  <2>16. DeliveredInv(r)'
      BY <2>1, <2>2, <2>3, <2>5 DEF Inv, DeliveredInv, EntryInv
  <2>17. QED
      BY <2>6, <2>7, <2>8, <2>9, <2>10, <2>11, <2>12, <2>13, <2>14, <2>15, <2>16 DEF Inv
<1>2. CASE future[r].at # "none"
  <2> DEFINE t == DroppedTracker(r)
  <2>1. /\ tracker[r] \in Tracker /\ tracker[r].occupied /\ ~ tracker[r].dropped
        /\ tracker[r].id = Len(exec[r].attempts) /\ tracker[r].id # 0
        /\ phase[r] = "Accepted"
        /\ future[r] \in Future /\ owned[r] # None
      BY <1>2 DEF Typed, Inv, TrackerInv, PhaseInv, EntryInv
  <2>2. /\ t \in Tracker /\ t.occupied /\ t.dropped /\ t.id = tracker[r].id
        /\ t.evidence = future[r].terminal
      BY <2>1, DroppedIs
  <2>3. Idle \in Job /\ Idle.at = "idle" /\ ~ Idle.success
      BY DEF Idle, Job
  <2>4. /\ UNCHANGED <<phase, pipelineFailed, owned, queue, generations, slots, exec,
                       flight, leased, full, sent, seen, delivered>>
        /\ ref[r] = "held" /\ future[r].at # "none"
      BY <1>2 DEF Drop, registry, history, process
  <2>5. /\ ref' = [ref EXCEPT ![r] = "dropped"]
        /\ tracker' = [tracker EXCEPT ![r] = t]
        /\ future' = [future EXCEPT ![r] = NoFuture]
        /\ job' = [job EXCEPT ![r] = Idle]
      BY <1>2, <2>1, <2>2, <2>3 DEF Drop
  <2> HIDE DEF t
  <2>6. /\ ref'[r] = "dropped"
        /\ tracker'[r] = t
        /\ future'[r] = NoFuture
        /\ job'[r] = Idle
      BY <2>5 DEF Typed
  <2>7. Typed'
      BY <2>1, <2>2, <2>3, <2>4, <2>5 DEF Typed, NoFuture, Future
  <2>8. OthersSame(r)
      BY <2>4, <2>5 DEF OthersSame, Same, Typed
  <2>9. RowInv(r)' /\ StoredInv(r)'
      BY <2>4 DEF Inv, RowInv, FlightOK, StoredInv
  <2>10. PhaseInv(r)'
      BY <2>1, <2>2, <2>3, <2>4, <2>6 DEF Inv, PhaseInv
  <2>11. EntryInv(r)'
      BY <2>1, <2>2, <2>3, <2>4, <2>6 DEF Inv, EntryInv
  <2>12. TrackerInv(r)'
      BY <2>1, <2>2, <2>3, <2>4, <2>6 DEF Inv, TrackerInv, NoFuture
  <2>13. SentInv(r)'
      BY <2>1, <2>2, <2>3, <2>4, <2>6 DEF Inv, SentInv, NoFuture
  <2>14. SeenInv(r)'
      BY <2>1, <2>2, <2>3, <2>4, <2>6 DEF Inv, SeenInv
  <2>15. EvidenceInv(r)'
      BY <2>1, <2>2, <2>3, <2>4, <2>6 DEF Inv, EvidenceInv, NoFuture
  <2>16. ReadInv(r)'
      BY <2>1, <2>2, <2>3, <2>4, <2>6 DEF Inv, ReadInv, HasEvidence
  <2>17. RetiredInv(r)'
      BY <2>1, <2>2, <2>3, <2>4, <2>6 DEF Inv, RetiredInv, Retired, EntryInv
  <2>18. DeliveredInv(r)'
      BY <2>1, <2>2, <2>3, <2>4, <2>6 DEF Inv, DeliveredInv
  <2>19. QED
      BY <2>7, <2>8, <2>9, <2>10, <2>11, <2>12, <2>13, <2>14, <2>15, <2>16, <2>17, <2>18
         DEF Inv
<1>3. QED
    BY <1>1, <1>2

LEMMA ReconcileDispatchKeeps ==
    ASSUME Typed, NEW r \in Request, Inv(r), ReconcileDispatch(r)
    PROVE  Typed' /\ Inv(r)' /\ OthersSame(r)
<1> DEFINE j == [job[r] EXCEPT !.at = "track"]
<1>1. j \in Job /\ j.at = "track" /\ (j.success <=> job[r].success)
      /\ j.outcome = job[r].outcome
    BY JobAt DEF Typed
<1>2. future[r].at = "none" /\ phase[r] = "Accepted"
    BY DEF Inv, TrackerInv, PhaseInv, ReconcileDispatch
<1>3. /\ UNCHANGED <<ref, phase, pipelineFailed, tracker, future, owned, queue,
                     generations, slots, exec, flight, leased, full, sent, seen, delivered>>
      /\ ref[r] = "held" /\ job[r].at = "idle"
    BY DEF ReconcileDispatch, Held, registry, history, process
<1>4. /\ job' = [job EXCEPT ![r] = j]
    BY <1>1, <1>2 DEF ReconcileDispatch, Enter
<1> HIDE DEF j
<1>5. /\ job'[r] = j
    BY <1>4 DEF Typed
<1>6. Typed'
    BY <1>1, <1>2, <1>3, <1>4 DEF Typed
<1>7. OthersSame(r)
    BY <1>3, <1>4 DEF OthersSame, Same, Typed
<1>8. /\ RowInv(r)' /\ SentInv(r)' /\ SeenInv(r)' /\ StoredInv(r)'
      /\ EvidenceInv(r)' /\ RetiredInv(r)'
    BY <1>3
       DEF Inv, RowInv, FlightOK, SentInv, SeenInv, StoredInv, EvidenceInv, RetiredInv,
           Retired
<1>9. PhaseInv(r)'
    BY <1>1, <1>2, <1>3, <1>5 DEF Inv, PhaseInv
<1>10. EntryInv(r)'
    BY <1>1, <1>2, <1>3, <1>5 DEF Inv, EntryInv
<1>11. TrackerInv(r)'
    BY <1>1, <1>2, <1>3, <1>5 DEF Inv, TrackerInv
<1>12. ReadInv(r)'
    BY <1>1, <1>2, <1>3, <1>5 DEF Inv, ReadInv, HasEvidence
<1>13. DeliveredInv(r)'
    BY <1>1, <1>2, <1>3, <1>5 DEF Inv, DeliveredInv
<1>14. QED
    BY <1>6, <1>7, <1>8, <1>9, <1>10, <1>11, <1>12, <1>13 DEF Inv

LEMMA FinishDeliveryKeeps ==
    ASSUME Typed, NEW r \in Request, Inv(r), NEW success \in BOOLEAN, FinishDelivery(r, success)
    PROVE  Typed' /\ Inv(r)' /\ OthersSame(r)
<1> DEFINE j == [Idle EXCEPT !.at = IF tracker[r].occupied THEN "done" ELSE "read",
                            !.success = success]
           b == pipelineFailed[r] \/ ~ success
<1>1. /\ j \in Job /\ j.at \in {"done", "read"} /\ (tracker[r].occupied => j.at = "done")
      /\ j.success <=> success
    BY DEF Idle, Job
<1>2. b \in BOOLEAN
    BY DEF Typed
<1>3. ~ tracker[r].occupied => tracker[r].id = 0
    BY DEF Inv, TrackerInv, Free
<1>4. \A i \in sent[r] : tracker[r].id = 0 => exec[r].attempts[i] \in Observed
    BY CustodyAssumption DEF Inv, SentInv, Typed
<1>5. /\ UNCHANGED <<ref, phase, tracker, future, owned, queue, generations, slots,
                     exec, flight, leased, full, sent, seen, delivered>>
      /\ ref[r] = "held" /\ job[r].at = "idle" /\ phase[r] = "Accepted"
      /\ future[r].at = "none"
    BY DEF FinishDelivery, Held, registry, history, process
<1>6. /\ job' = [job EXCEPT ![r] = j]
      /\ pipelineFailed' = [pipelineFailed EXCEPT ![r] = b]
    BY <1>1, <1>2, <1>3, <1>4 DEF FinishDelivery
<1> HIDE DEF j, b
<1>7. /\ job'[r] = j
      /\ pipelineFailed'[r] = b
    BY <1>6 DEF Typed
<1>8. Typed'
    BY <1>1, <1>2, <1>3, <1>4, <1>5, <1>6 DEF Typed
<1>9. OthersSame(r)
    BY <1>5, <1>6 DEF OthersSame, Same, Typed
<1>10. /\ RowInv(r)' /\ SentInv(r)' /\ SeenInv(r)' /\ StoredInv(r)'
       /\ EvidenceInv(r)' /\ RetiredInv(r)'
    BY <1>5
       DEF Inv, RowInv, FlightOK, SentInv, SeenInv, StoredInv, EvidenceInv, RetiredInv,
           Retired
<1>11. PhaseInv(r)'
    BY <1>1, <1>2, <1>3, <1>4, <1>5, <1>7 DEF Inv, PhaseInv
<1>12. EntryInv(r)'
    BY <1>1, <1>2, <1>3, <1>4, <1>5, <1>7 DEF Inv, EntryInv
<1>13. TrackerInv(r)'
    BY <1>1, <1>2, <1>3, <1>4, <1>5, <1>7 DEF Inv, TrackerInv
<1>14. ReadInv(r)'
    BY <1>1, <1>2, <1>3, <1>4, <1>5, <1>7 DEF Inv, ReadInv, HasEvidence, Observed
<1>15. DeliveredInv(r)'
    BY <1>1, <1>2, <1>3, <1>4, <1>5, <1>7 DEF Inv, DeliveredInv
<1>16. QED
    BY <1>8, <1>9, <1>10, <1>11, <1>12, <1>13, <1>14, <1>15 DEF Inv

LEMMA JobFailsKeeps ==
    ASSUME Typed, NEW r \in Request, Inv(r), JobFails(r)
    PROVE  Typed' /\ Inv(r)' /\ OthersSame(r)
<1>1. /\ GiveUp(r) /\ UNCHANGED <<owned, generations, slots>>
      /\ queue' \in Seq(Request)
    BY GiveUpIs DEF JobFails
<1>2. PICK j \in Job :
            /\ job' = [job EXCEPT ![r] = j]
            /\ j.at \in {"idle", "done"}
            /\ j.at = "done" => ref[r] = "held"
            /\ ~ j.success
    BY GiveUpIs, <1>1
<1>3. /\ UNCHANGED <<ref, phase, pipelineFailed, tracker, future, owned, generations,
                     slots, exec, flight, leased, full, sent, seen, delivered>>
      /\ job[r].at \notin {"idle", "done"}
    BY <1>1 DEF JobFails, registry, history, process
<1>4. /\ job' = [job EXCEPT ![r] = j]
    BY <1>1, <1>2
<1>5. /\ job'[r] = j
    BY <1>4 DEF Typed
<1>6. Typed'
    BY <1>1, <1>2, <1>3, <1>4 DEF Typed
<1>7. OthersSame(r)
    BY <1>3, <1>4 DEF OthersSame, Same, Typed
<1>8. /\ RowInv(r)' /\ SentInv(r)' /\ SeenInv(r)' /\ StoredInv(r)'
      /\ EvidenceInv(r)' /\ RetiredInv(r)'
    BY <1>3
       DEF Inv, RowInv, FlightOK, SentInv, SeenInv, StoredInv, EvidenceInv, RetiredInv,
           Retired
<1>9. PhaseInv(r)'
    BY <1>1, <1>2, <1>3, <1>5 DEF Inv, PhaseInv, EntryInv
<1>10. EntryInv(r)'
    BY <1>1, <1>2, <1>3, <1>5 DEF Inv, EntryInv
<1>11. TrackerInv(r)'
    BY <1>1, <1>2, <1>3, <1>5 DEF Inv, TrackerInv
<1>12. ReadInv(r)'
    BY <1>1, <1>2, <1>3, <1>5 DEF Inv, ReadInv, HasEvidence
<1>13. DeliveredInv(r)'
    BY <1>1, <1>2, <1>3, <1>5 DEF Inv, DeliveredInv
<1>14. QED
    BY <1>6, <1>7, <1>8, <1>9, <1>10, <1>11, <1>12, <1>13 DEF Inv

LEMMA StartKeeps ==
    ASSUME Typed, NEW r \in Request, Inv(r), Start(r)
    PROVE  Typed' /\ Inv(r)' /\ OthersSame(r)
<1>1. CASE /\ Retire(r) /\ UNCHANGED phase
           /\ \/ phase[r] \in {"NotStarted", "NotAccepted"}
              \/ phase[r] = "UnknownAck" /\ flight[r] = None /\ exec[r].state = "absent"
  <2>1. /\ job' = [job EXCEPT ![r] = Idle] /\ owned' = [owned EXCEPT ![r] = None]
        /\ generations' \in [Generation -> Int] /\ slots' \in Int /\ UNCHANGED queue
      BY RetireIs, <1>1
  <2>2. Idle \in Job /\ Idle.at = "idle" /\ ~ Idle.success
      BY DEF Idle, Job
  <2>3. ref[r] = "dropped" /\ exec[r].state = "absent" /\ flight[r] = None /\ sent[r] = {}
      BY <1>1 DEF Inv, EntryInv, PhaseInv, Start, Typed
  <2>4. /\ UNCHANGED <<ref, phase, pipelineFailed, tracker, future, queue, exec, flight,
                       leased, full, sent, seen, delivered>>
        /\ job[r].at = "start"
      BY <1>1, <2>1 DEF Start, registry, history, process
  <2>5. /\ job' = [job EXCEPT ![r] = Idle]
        /\ owned' = [owned EXCEPT ![r] = None]
      BY <2>1, <2>2, <2>3
  <2>6. /\ job'[r] = Idle
        /\ owned'[r] = None
      BY <2>5 DEF Typed
  <2>7. Typed'
      BY <2>1, <2>2, <2>3, <2>4, <2>5 DEF Typed
  <2>8. OthersSame(r)
      BY <2>4, <2>5 DEF OthersSame, Same, Typed
  <2>9. /\ RowInv(r)' /\ SentInv(r)' /\ SeenInv(r)' /\ StoredInv(r)'
        /\ EvidenceInv(r)'
      BY <2>4 DEF Inv, RowInv, FlightOK, SentInv, SeenInv, StoredInv, EvidenceInv
  <2>10. PhaseInv(r)'
      BY <2>1, <2>2, <2>3, <2>4, <2>6 DEF Inv, PhaseInv
  <2>11. EntryInv(r)'
      BY <2>1, <2>2, <2>3, <2>4, <2>6 DEF Inv, EntryInv
  <2>12. TrackerInv(r)'
      BY <2>1, <2>2, <2>3, <2>4, <2>6 DEF Inv, TrackerInv
  <2>13. ReadInv(r)'
      BY <2>1, <2>2, <2>3, <2>4, <2>6 DEF Inv, ReadInv, HasEvidence
  <2>14. RetiredInv(r)'
      BY <2>1, <2>2, <2>3, <2>4, <2>6 DEF Inv, RetiredInv, Retired, SeenInv
  <2>15. DeliveredInv(r)'
      BY <2>1, <2>2, <2>3, <2>4, <2>6 DEF Inv, DeliveredInv
  <2>16. QED
      BY <2>7, <2>8, <2>9, <2>10, <2>11, <2>12, <2>13, <2>14, <2>15 DEF Inv
<1>2. CASE /\ phase' = [phase EXCEPT ![r] = "Accepted"] /\ Enter(r, "track")
           /\ UNCHANGED registry
  <2> DEFINE j == [job[r] EXCEPT !.at = "track"]
  <2>1. j \in Job /\ j.at = "track" /\ (j.success <=> job[r].success)
        /\ j.outcome = job[r].outcome
      BY JobAt DEF Typed
  <2>2. ref[r] = "dropped" /\ future[r].at = "none"
      BY DEF Inv, EntryInv, TrackerInv, Start, Typed
  <2>3. /\ UNCHANGED <<ref, pipelineFailed, tracker, future, owned, queue, generations,
                       slots, exec, flight, leased, full, sent, seen, delivered>>
        /\ job[r].at = "start"
      BY <1>2 DEF Start, registry, history, process
  <2>4. /\ phase' = [phase EXCEPT ![r] = "Accepted"]
        /\ job' = [job EXCEPT ![r] = j]
      BY <1>2, <2>1, <2>2 DEF Enter
  <2> HIDE DEF j
  <2>5. /\ phase'[r] = "Accepted"
        /\ job'[r] = j
      BY <2>4 DEF Typed
  <2>6. Typed'
      BY <2>1, <2>2, <2>3, <2>4 DEF Typed
  <2>7. OthersSame(r)
      BY <2>3, <2>4 DEF OthersSame, Same, Typed
  <2>8. /\ RowInv(r)' /\ SentInv(r)' /\ SeenInv(r)' /\ StoredInv(r)'
        /\ EvidenceInv(r)' /\ RetiredInv(r)'
      BY <2>3
         DEF Inv, RowInv, FlightOK, SentInv, SeenInv, StoredInv, EvidenceInv,
             RetiredInv, Retired
  <2>9. PhaseInv(r)'
      BY <2>1, <2>2, <2>3, <2>5 DEF Inv, PhaseInv
  <2>10. EntryInv(r)'
      BY <2>1, <2>2, <2>3, <2>5 DEF Inv, EntryInv
  <2>11. TrackerInv(r)'
      BY <2>1, <2>2, <2>3, <2>5 DEF Inv, TrackerInv
  <2>12. ReadInv(r)'
      BY <2>1, <2>2, <2>3, <2>5 DEF Inv, ReadInv, HasEvidence
  <2>13. DeliveredInv(r)'
      BY <2>1, <2>2, <2>3, <2>5 DEF Inv, DeliveredInv
  <2>14. QED
      BY <2>6, <2>7, <2>8, <2>9, <2>10, <2>11, <2>12, <2>13 DEF Inv
<1>3. CASE Enter(r, "track") /\ phase[r] = "Accepted" /\ UNCHANGED <<phase, registry>>
  <2> DEFINE j == [job[r] EXCEPT !.at = "track"]
  <2>1. j \in Job /\ j.at = "track" /\ (j.success <=> job[r].success)
        /\ j.outcome = job[r].outcome
      BY JobAt DEF Typed
  <2>2. ref[r] = "dropped" /\ future[r].at = "none"
      BY DEF Inv, EntryInv, TrackerInv, Start, Typed
  <2>3. /\ UNCHANGED <<ref, phase, pipelineFailed, tracker, future, owned, queue,
                       generations, slots, exec, flight, leased, full, sent, seen, delivered>>
        /\ job[r].at = "start" /\ phase[r] = "Accepted"
      BY <1>3 DEF Start, registry, history, process
  <2>4. /\ job' = [job EXCEPT ![r] = j]
      BY <1>3, <2>1, <2>2 DEF Enter
  <2> HIDE DEF j
  <2>5. /\ job'[r] = j
      BY <2>4 DEF Typed
  <2>6. Typed'
      BY <2>1, <2>2, <2>3, <2>4 DEF Typed
  <2>7. OthersSame(r)
      BY <2>3, <2>4 DEF OthersSame, Same, Typed
  <2>8. /\ RowInv(r)' /\ SentInv(r)' /\ SeenInv(r)' /\ StoredInv(r)'
        /\ EvidenceInv(r)' /\ RetiredInv(r)'
      BY <2>3
         DEF Inv, RowInv, FlightOK, SentInv, SeenInv, StoredInv, EvidenceInv,
             RetiredInv, Retired
  <2>9. PhaseInv(r)'
      BY <2>1, <2>2, <2>3, <2>5 DEF Inv, PhaseInv
  <2>10. EntryInv(r)'
      BY <2>1, <2>2, <2>3, <2>5 DEF Inv, EntryInv
  <2>11. TrackerInv(r)'
      BY <2>1, <2>2, <2>3, <2>5 DEF Inv, TrackerInv
  <2>12. ReadInv(r)'
      BY <2>1, <2>2, <2>3, <2>5 DEF Inv, ReadInv, HasEvidence
  <2>13. DeliveredInv(r)'
      BY <2>1, <2>2, <2>3, <2>5 DEF Inv, DeliveredInv
  <2>14. QED
      BY <2>6, <2>7, <2>8, <2>9, <2>10, <2>11, <2>12, <2>13 DEF Inv
<1>4. QED
    BY <1>1, <1>2, <1>3 DEF Start, Probed

LEMMA TrackKeeps ==
    ASSUME Typed, NEW r \in Request, Inv(r), Track(r)
    PROVE  Typed' /\ Inv(r)' /\ OthersSame(r)
<1>1. CASE /\ tracker[r].occupied /\ tracker[r].dropped /\ HasEvidence(r)
           /\ MayRecord(r, tracker[r].id, tracker[r].evidence)
           /\ Commit(r, Recorded(exec[r], tracker[r].id, tracker[r].evidence))
           /\ Enter(r, Tracked(r))
  <2> DEFINE f == Recorded(exec[r], tracker[r].id, tracker[r].evidence)
             a == Tracked(r)
             j == [job[r] EXCEPT !.at = a]
  <2>1. future[r].at = "none" /\ phase[r] = "Accepted" /\ owned[r] # None
      BY DEF Inv, TrackerInv, PhaseInv, EntryInv, Track
  <2>2. tracker[r] \in Tracker /\ tracker[r].id # 0 /\ tracker[r].evidence \in Observed
      BY <1>1 DEF HasEvidence, Typed, Tracker
  <2>3. exec[r] \in Execution /\ RowOK(exec[r])
        /\ RowRecords(exec[r], tracker[r].id, tracker[r].evidence)
      BY <1>1, GuardsAre DEF Typed, Inv, RowInv
  <2>4. /\ tracker[r].id = Len(exec[r].attempts)
        /\ tracker[r].id \in 1..Len(exec[r].attempts)
        /\ tracker[r].id \in 1..MaxAttempts
      BY <2>2, <2>3, RowIs, CustodyAssumption DEF Inv, TrackerInv
  <2>5. /\ Legal(exec[r], f) /\ (f = exec[r] \/ f.state = "open")
        /\ Len(f.attempts) = Len(exec[r].attempts)
        /\ f.attempts[tracker[r].id] = tracker[r].evidence
        /\ \A i \in 1..Len(exec[r].attempts) :
                 i # tracker[r].id => f.attempts[i] = exec[r].attempts[i]
      BY <2>2, <2>3, <2>4, RecordedRow
  <2>6. tracker[r].evidence = seen[r][tracker[r].id] /\ tracker[r].id \in sent[r]
      BY <2>1, <2>2, <2>4, CustodyAssumption DEF Inv, EvidenceInv, SeenInv, Observed
  <2>7. a \in {"idle", "read"} /\ (ref[r] = "held" => a = "idle")
      BY DEF Tracked
  <2>8. j \in Job /\ j.at = a /\ (j.success <=> job[r].success)
        /\ j.outcome = job[r].outcome
      BY JobAt, <2>7 DEF Typed
  <2>9. /\ UNCHANGED <<ref, phase, pipelineFailed, tracker, future, owned, queue,
                       generations, slots, flight, leased, full, sent, seen, delivered>>
        /\ flight[r] = None
        /\ job[r].at = "track"
      BY <1>1 DEF Track, Commit, registry, history, process
  <2>10. /\ exec' = [exec EXCEPT ![r] = f]
         /\ job' = [job EXCEPT ![r] = j]
      BY <1>1, <2>1, <2>2, <2>3, <2>4, <2>5, <2>6, <2>7, <2>8 DEF Commit, Enter
  <2> HIDE DEF f, a, j
  <2>11. /\ exec'[r] = f
         /\ job'[r] = j
      BY <2>10 DEF Typed
  <2>12. Typed'
      BY <2>1, <2>2, <2>3, <2>4, <2>5, <2>6, <2>7, <2>8, <2>9, <2>10 DEF Typed, Legal
  <2>13. OthersSame(r)
      BY <2>9, <2>10 DEF OthersSame, Same, Typed
  <2>14. RowInv(r)'
      BY <2>1, <2>2, <2>3, <2>4, <2>5, <2>6, <2>7, <2>8, <2>9, <2>11
         DEF Inv, RowInv, FlightOK, Legal
  <2>15. PhaseInv(r)'
      BY <2>1, <2>2, <2>3, <2>4, <2>5, <2>6, <2>7, <2>8, <2>9, <2>11 DEF Inv, PhaseInv
  <2>16. EntryInv(r)'
      BY <2>1, <2>2, <2>3, <2>4, <2>5, <2>6, <2>7, <2>8, <2>9, <2>11 DEF Inv, EntryInv
  <2>17. TrackerInv(r)'
      BY <2>1, <2>2, <2>3, <2>4, <2>5, <2>6, <2>7, <2>8, <2>9, <2>11 DEF Inv, TrackerInv
  <2>18. SentInv(r)'
      BY <2>1, <2>2, <2>3, <2>4, <2>5, <2>6, <2>7, <2>8, <2>9, <2>11
         DEF Inv, SentInv, Unsent, Intent
  <2>19. SeenInv(r)'
      BY <2>1, <2>2, <2>3, <2>4, <2>5, <2>6, <2>7, <2>8, <2>9, <2>11
         DEF Inv, SeenInv, SentInv
  <2>20. StoredInv(r)'
    <3>1. flight'[r] = None
      BY <2>9, <2>11
    <3>2. ASSUME NEW i \in 1..Len(f.attempts), f.attempts[i] \in Observed
          PROVE  f.attempts[i] = seen[r][i]
      BY <3>2, <2>4, <2>5, <2>6 DEF Inv, StoredInv, Observed
    <3>3. QED
      BY <3>1, <3>2, <2>9, <2>11 DEF StoredInv
  <2>21. EvidenceInv(r)'
      BY <2>1, <2>2, <2>3, <2>4, <2>5, <2>6, <2>7, <2>8, <2>9, <2>11 DEF Inv, EvidenceInv
  <2>22. ReadInv(r)'
      BY <2>1, <2>2, <2>3, <2>4, <2>5, <2>6, <2>7, <2>8, <2>9, <2>11
         DEF Inv, ReadInv, HasEvidence, SentInv, Observed
  <2>23. RetiredInv(r)'
      BY <2>1, <2>2, <2>3, <2>4, <2>5, <2>6, <2>7, <2>8, <2>9, <2>11
         DEF Inv, RetiredInv, Retired
  <2>24. DeliveredInv(r)'
      BY <2>1, <2>2, <2>3, <2>4, <2>5, <2>6, <2>7, <2>8, <2>9, <2>11
         DEF Inv, DeliveredInv, Legal, Follows, Outcome, Observed, EntryInv
  <2>25. QED
      BY <2>12, <2>13, <2>14, <2>15, <2>16, <2>17, <2>18, <2>19, <2>20, <2>21, <2>22,
         <2>23, <2>24 DEF Inv
<1>2. CASE /\ tracker[r].occupied /\ tracker[r].dropped /\ ~ HasEvidence(r)
           /\ Unsettled(exec[r]) = {}
           /\ job' = [job EXCEPT ![r].at = Tracked(r)] /\ UNCHANGED <<exec, flight>>
  <2> DEFINE a == Tracked(r)
             j == [job[r] EXCEPT !.at = a]
  <2>1. future[r].at = "none" /\ phase[r] = "Accepted" /\ owned[r] # None
      BY DEF Inv, TrackerInv, PhaseInv, EntryInv, Track
  <2>2. a \in {"idle", "read"} /\ (ref[r] = "held" => a = "idle")
      BY DEF Tracked
  <2>3. j \in Job /\ j.at = a /\ (j.success <=> job[r].success)
        /\ j.outcome = job[r].outcome
      BY JobAt, <2>2 DEF Typed
  <2>4. \A i \in 1..Len(exec[r].attempts) : exec[r].attempts[i] # "dispatched"
      BY <1>2, RowIs DEF Unsettled, Typed
  <2>5. /\ UNCHANGED <<ref, phase, pipelineFailed, tracker, future, owned, queue,
                       generations, slots, exec, flight, leased, full, sent, seen, delivered>>
        /\ ~ HasEvidence(r)
        /\ job[r].at = "track"
      BY <1>2 DEF Track, registry, history, process
  <2>6. /\ job' = [job EXCEPT ![r] = j]
      BY <1>2, <2>1, <2>2, <2>3, <2>4
  <2> HIDE DEF a, j
  <2>7. /\ job'[r] = j
      BY <2>6 DEF Typed
  <2>8. Typed'
      BY <2>1, <2>2, <2>3, <2>4, <2>5, <2>6 DEF Typed
  <2>9. OthersSame(r)
      BY <2>5, <2>6 DEF OthersSame, Same, Typed
  <2>10. /\ RowInv(r)' /\ SentInv(r)' /\ SeenInv(r)' /\ StoredInv(r)'
         /\ EvidenceInv(r)' /\ RetiredInv(r)'
      BY <2>5
         DEF Inv, RowInv, FlightOK, SentInv, SeenInv, StoredInv, EvidenceInv,
             RetiredInv, Retired
  <2>11. PhaseInv(r)'
      BY <2>1, <2>2, <2>3, <2>4, <2>5, <2>7 DEF Inv, PhaseInv
  <2>12. EntryInv(r)'
      BY <2>1, <2>2, <2>3, <2>4, <2>5, <2>7 DEF Inv, EntryInv
  <2>13. TrackerInv(r)'
      BY <2>1, <2>2, <2>3, <2>4, <2>5, <2>7 DEF Inv, TrackerInv
  <2>14. ReadInv(r)'
      BY <2>1, <2>2, <2>3, <2>4, <2>5, <2>7 DEF Inv, ReadInv, HasEvidence, SentInv
  <2>15. DeliveredInv(r)'
      BY <2>1, <2>2, <2>3, <2>4, <2>5, <2>7 DEF Inv, DeliveredInv
  <2>16. QED
      BY <2>8, <2>9, <2>10, <2>11, <2>12, <2>13, <2>14, <2>15 DEF Inv
<1>3. CASE /\ tracker[r].occupied /\ tracker[r].dropped /\ ~ HasEvidence(r)
           /\ Unsettled(exec[r]) # {}
           /\ job' = [job EXCEPT ![r].at = "interrupt",
                                 ![r].todo = exec[r].attempts[Len(exec[r].attempts)]]
           /\ UNCHANGED <<exec, flight>>
  <2> DEFINE v == exec[r].attempts[Len(exec[r].attempts)]
             j == [job[r] EXCEPT !.at = "interrupt", !.todo = v]
  <2>1. future[r].at = "none" /\ phase[r] = "Accepted" /\ owned[r] # None
      BY DEF Inv, TrackerInv, PhaseInv, EntryInv, Track
  <2>2. exec[r].attempts # <<>> /\ v \in AttemptState
      BY <1>3, RowIs, CustodyAssumption DEF Unsettled, Typed
  <2>3. job[r] \in Job
      BY DEF Typed
  <2> HIDE DEF v
  <2>4. j \in Job /\ j.at = "interrupt" /\ (j.success <=> job[r].success)
      BY <2>2, <2>3 DEF Job
  <2>5. /\ UNCHANGED <<ref, phase, pipelineFailed, tracker, future, owned, queue,
                       generations, slots, exec, flight, leased, full, sent, seen, delivered>>
        /\ ~ HasEvidence(r)
        /\ job[r].at = "track"
      BY <1>3 DEF Track, registry, history, process
  <2>6. /\ job' = [job EXCEPT ![r] = j]
      BY <1>3, <2>1, <2>2, <2>3, <2>4 DEF v
  <2> HIDE DEF j
  <2>7. /\ job'[r] = j
      BY <2>6 DEF Typed
  <2>8. Typed'
      BY <2>1, <2>2, <2>3, <2>4, <2>5, <2>6 DEF Typed
  <2>9. OthersSame(r)
      BY <2>5, <2>6 DEF OthersSame, Same, Typed
  <2>10. /\ RowInv(r)' /\ SentInv(r)' /\ SeenInv(r)' /\ StoredInv(r)'
         /\ EvidenceInv(r)' /\ RetiredInv(r)'
      BY <2>5
         DEF Inv, RowInv, FlightOK, SentInv, SeenInv, StoredInv, EvidenceInv,
             RetiredInv, Retired
  <2>11. PhaseInv(r)'
      BY <2>1, <2>2, <2>3, <2>4, <2>5, <2>7 DEF Inv, PhaseInv
  <2>12. EntryInv(r)'
      BY <2>1, <2>2, <2>3, <2>4, <2>5, <2>7 DEF Inv, EntryInv
  <2>13. TrackerInv(r)'
      BY <2>1, <2>2, <2>3, <2>4, <2>5, <2>7 DEF Inv, TrackerInv
  <2>14. ReadInv(r)'
      BY <2>1, <2>2, <2>3, <2>4, <2>5, <2>7 DEF Inv, ReadInv, HasEvidence
  <2>15. DeliveredInv(r)'
      BY <2>1, <2>2, <2>3, <2>4, <2>5, <2>7 DEF Inv, DeliveredInv
  <2>16. QED
      BY <2>8, <2>9, <2>10, <2>11, <2>12, <2>13, <2>14, <2>15 DEF Inv
<1>4. CASE /\ ~ tracker[r].occupied /\ Enter(r, Tracked(r)) /\ UNCHANGED <<exec, flight>>
  <2> DEFINE a == Tracked(r)
             j == [job[r] EXCEPT !.at = a]
  <2>1. future[r].at = "none" /\ phase[r] = "Accepted" /\ owned[r] # None
      BY DEF Inv, TrackerInv, PhaseInv, EntryInv, Track
  <2>2. a \in {"idle", "read"} /\ (ref[r] = "held" => a = "idle")
      BY DEF Tracked
  <2>3. j \in Job /\ j.at = a /\ (j.success <=> job[r].success)
        /\ j.outcome = job[r].outcome
      BY JobAt, <2>2 DEF Typed
  <2>4. tracker[r].id = 0
      BY <1>4 DEF Inv, TrackerInv, Free
  <2>5. \A i \in sent[r] : exec[r].attempts[i] \in Observed
      BY <2>4, CustodyAssumption DEF Inv, SentInv, Typed
  <2>6. /\ UNCHANGED <<ref, phase, pipelineFailed, tracker, future, owned, queue,
                       generations, slots, exec, flight, leased, full, sent, seen, delivered>>
        /\ job[r].at = "track"
      BY <1>4 DEF Track, registry, history, process
  <2>7. /\ job' = [job EXCEPT ![r] = j]
      BY <1>4, <2>1, <2>2, <2>3, <2>4, <2>5 DEF Enter
  <2> HIDE DEF a, j
  <2>8. /\ job'[r] = j
      BY <2>7 DEF Typed
  <2>9. Typed'
      BY <2>1, <2>2, <2>3, <2>4, <2>5, <2>6, <2>7 DEF Typed
  <2>10. OthersSame(r)
      BY <2>6, <2>7 DEF OthersSame, Same, Typed
  <2>11. /\ RowInv(r)' /\ SentInv(r)' /\ SeenInv(r)' /\ StoredInv(r)'
         /\ EvidenceInv(r)' /\ RetiredInv(r)'
      BY <2>6
         DEF Inv, RowInv, FlightOK, SentInv, SeenInv, StoredInv, EvidenceInv,
             RetiredInv, Retired
  <2>12. PhaseInv(r)'
      BY <2>1, <2>2, <2>3, <2>4, <2>5, <2>6, <2>8 DEF Inv, PhaseInv
  <2>13. EntryInv(r)'
      BY <2>1, <2>2, <2>3, <2>4, <2>5, <2>6, <2>8 DEF Inv, EntryInv
  <2>14. TrackerInv(r)'
      BY <2>1, <2>2, <2>3, <2>4, <2>5, <2>6, <2>8 DEF Inv, TrackerInv
  <2>15. ReadInv(r)'
      BY <2>1, <2>2, <2>3, <2>4, <2>5, <2>6, <2>8 DEF Inv, ReadInv, HasEvidence, Observed
  <2>16. DeliveredInv(r)'
      BY <2>1, <2>2, <2>3, <2>4, <2>5, <2>6, <2>8 DEF Inv, DeliveredInv
  <2>17. QED
      BY <2>9, <2>10, <2>11, <2>12, <2>13, <2>14, <2>15, <2>16 DEF Inv
<1>5. QED
    BY <1>1, <1>2, <1>3, <1>4 DEF Track

LEMMA TrackLostKeeps ==
    ASSUME Typed, NEW r \in Request, Inv(r), TrackLost(r)
    PROVE  Typed' /\ Inv(r)' /\ OthersSame(r)
<1> DEFINE f == Recorded(exec[r], tracker[r].id, tracker[r].evidence)
<1>1. future[r].at = "none" /\ phase[r] = "Accepted" /\ owned[r] # None
    BY DEF Inv, TrackerInv, PhaseInv, EntryInv, TrackLost
<1>2. tracker[r] \in Tracker /\ tracker[r].id # 0 /\ tracker[r].evidence \in Observed
    BY DEF TrackLost, HasEvidence, Typed, Tracker
<1>3. exec[r] \in Execution /\ RowOK(exec[r])
      /\ RowRecords(exec[r], tracker[r].id, tracker[r].evidence)
    BY GuardsAre DEF TrackLost, Typed, Inv, RowInv
<1>4. /\ tracker[r].id = Len(exec[r].attempts) /\ tracker[r].id \in 1..Len(exec[r].attempts)
      /\ tracker[r].id \in 1..MaxAttempts
    BY <1>2, <1>3, RowIs, CustodyAssumption DEF Inv, TrackerInv
<1>5. /\ Legal(exec[r], f) /\ (f = exec[r] \/ f.state = "open")
      /\ Len(f.attempts) = Len(exec[r].attempts)
      /\ f.attempts[tracker[r].id] = tracker[r].evidence
      /\ \A i \in 1..Len(exec[r].attempts) :
               i # tracker[r].id => f.attempts[i] = exec[r].attempts[i]
    BY <1>2, <1>3, <1>4, RecordedRow
<1>6. tracker[r].evidence = seen[r][tracker[r].id] /\ tracker[r].id \in sent[r]
    BY <1>1, <1>2, <1>4, CustodyAssumption DEF Inv, EvidenceInv, SeenInv, Observed
<1>7. /\ GiveUp(r) /\ UNCHANGED <<owned, generations, slots>>
      /\ queue' \in Seq(Request)
    BY GiveUpIs DEF TrackLost
<1>8. PICK j \in Job :
            /\ job' = [job EXCEPT ![r] = j]
            /\ j.at \in {"idle", "done"}
            /\ j.at = "done" => ref[r] = "held"
            /\ ~ j.success
    BY GiveUpIs, <1>7
<1>9. /\ UNCHANGED <<ref, phase, pipelineFailed, tracker, future, owned, generations,
                     slots, exec, leased, full, sent, seen, delivered>>
      /\ flight[r] = None
      /\ job[r].at = "track"
    BY <1>7 DEF TrackLost, Lose, registry, history, process
<1>10. /\ flight' = [flight EXCEPT ![r] = f]
       /\ job' = [job EXCEPT ![r] = j]
    BY <1>1, <1>2, <1>3, <1>4, <1>5, <1>6, <1>7, <1>8 DEF TrackLost, Lose
<1> HIDE DEF f
<1>11. /\ flight'[r] = f
       /\ job'[r] = j
    BY <1>10 DEF Typed
<1>12. Typed'
    BY <1>1, <1>2, <1>3, <1>4, <1>5, <1>6, <1>7, <1>8, <1>9, <1>10 DEF Typed, Legal
<1>13. OthersSame(r)
    BY <1>9, <1>10 DEF OthersSame, Same, Typed
<1>14. SeenInv(r)'
    BY <1>9 DEF Inv, SeenInv
<1>15. RowInv(r)'
    BY <1>1, <1>2, <1>3, <1>4, <1>5, <1>6, <1>7, <1>8, <1>9, <1>11
       DEF Inv, RowInv, FlightOK, Legal
<1>16. PhaseInv(r)'
    BY <1>1, <1>2, <1>3, <1>4, <1>5, <1>6, <1>7, <1>8, <1>9, <1>11 DEF Inv, PhaseInv
<1>17. EntryInv(r)'
    BY <1>1, <1>2, <1>3, <1>4, <1>5, <1>6, <1>7, <1>8, <1>9, <1>11 DEF Inv, EntryInv
<1>18. TrackerInv(r)'
    BY <1>1, <1>2, <1>3, <1>4, <1>5, <1>6, <1>7, <1>8, <1>9, <1>11 DEF Inv, TrackerInv
<1>19. SentInv(r)'
    BY <1>1, <1>2, <1>3, <1>4, <1>5, <1>6, <1>7, <1>8, <1>9, <1>11
       DEF Inv, SentInv, Unsent
<1>20. StoredInv(r)'
  <2>1. ASSUME NEW i \in 1..Len(f.attempts), f.attempts[i] \in Observed
        PROVE  f.attempts[i] = seen[r][i]
    BY <2>1, <1>4, <1>5, <1>6 DEF Inv, StoredInv, Observed
  <2>2. QED
    BY <2>1, <1>9, <1>11 DEF Inv, StoredInv
<1>21. EvidenceInv(r)'
    BY <1>1, <1>2, <1>3, <1>4, <1>5, <1>6, <1>7, <1>8, <1>9, <1>11 DEF Inv, EvidenceInv
<1>22. ReadInv(r)'
    BY <1>1, <1>2, <1>3, <1>4, <1>5, <1>6, <1>7, <1>8, <1>9, <1>11
       DEF Inv, ReadInv, HasEvidence
<1>23. RetiredInv(r)'
    BY <1>1, <1>2, <1>3, <1>4, <1>5, <1>6, <1>7, <1>8, <1>9, <1>11
       DEF Inv, RetiredInv, Retired, EntryInv
<1>24. DeliveredInv(r)'
    BY <1>1, <1>2, <1>3, <1>4, <1>5, <1>6, <1>7, <1>8, <1>9, <1>11 DEF Inv, DeliveredInv
<1>25. QED
    BY <1>12, <1>13, <1>14, <1>15, <1>16, <1>17, <1>18, <1>19, <1>20, <1>21, <1>22,
       <1>23, <1>24 DEF Inv

LEMMA InterruptKeeps ==
    ASSUME Typed, NEW r \in Request, Inv(r), Interrupt(r)
    PROVE  Typed' /\ Inv(r)' /\ OthersSame(r)
<1> DEFINE f == Interrupted(r)
           n == Len(exec[r].attempts)
           a == Tracked(r)
           j == [job[r] EXCEPT !.at = a, !.todo = None]
<1>1. future[r].at = "none" /\ phase[r] = "Accepted" /\ owned[r] # None /\ ~ HasEvidence(r)
    BY DEF Inv, TrackerInv, PhaseInv, EntryInv, ReadInv, Interrupt
<1>2. exec[r] \in Execution /\ RowOK(exec[r]) /\ n \in Nat /\ n # 0
    BY RowIs, CustodyAssumption DEF Typed, Inv, RowInv, ReadInv, Interrupt
<1>3. /\ Legal(exec[r], f) /\ Len(f.attempts) = n
      /\ \A i \in 1..n : i # n => f.attempts[i] = exec[r].attempts[i]
      /\ f.attempts[n] # "dispatched"
      /\ f.attempts[n] \in Observed => f = exec[r]
      /\ f = exec[r] \/ f.state \notin Unsent \/ f.state = exec[r].state
      /\ exec[r].state = "unknown" => f = exec[r]
      /\ f.state = "open" => exec[r].state = "open"
      /\ exec[r].attempts[n] \in Intent => f.attempts[n] \in Intent
    BY <1>2, InterruptedRow DEF Interrupt
<1>4. a \in {"idle", "read"} /\ (ref[r] = "held" => a = "idle")
    BY DEF Tracked
<1>5. job[r] \in Job
    BY DEF Typed
<1> HIDE DEF a
<1>6. j \in Job /\ j.at = a /\ (j.success <=> job[r].success)
    BY <1>4, <1>5 DEF Job
<1>7. /\ UNCHANGED <<ref, phase, pipelineFailed, tracker, future, owned, queue,
                     generations, slots, flight, leased, full, sent, seen, delivered>>
      /\ flight[r] = None
      /\ job[r].at = "interrupt"
    BY DEF Interrupt, Commit, registry, history, process
<1>8. /\ exec' = [exec EXCEPT ![r] = f]
      /\ job' = [job EXCEPT ![r] = j]
    BY <1>1, <1>2, <1>3, <1>4, <1>5, <1>6 DEF Interrupt, Commit, a
<1> HIDE DEF f, a, j
<1>9. /\ exec'[r] = f
      /\ job'[r] = j
    BY <1>8 DEF Typed
<1>10. Typed'
    BY <1>1, <1>2, <1>3, <1>4, <1>5, <1>6, <1>7, <1>8 DEF Typed, Legal
<1>11. OthersSame(r)
    BY <1>7, <1>8 DEF OthersSame, Same, Typed
<1>12. \A i \in sent[r] : i \in 1..n /\ exec[r].attempts[i] \in Intent
    BY <1>1, <1>2, <1>3, <1>4, <1>5, <1>6, <1>7, <1>9 DEF Inv, SentInv
<1>13. \A i \in sent[r] :
             exec[r].attempts[i] \in Observed => f.attempts[i] = exec[r].attempts[i]
    BY <1>1, <1>2, <1>3, <1>4, <1>5, <1>6, <1>7, <1>9, <1>12 DEF Legal, Follows, Closed
<1>14. \A i \in sent[r] : f.attempts[i] \in Intent /\ f.attempts[i] # "dispatched"
    BY <1>1, <1>2, <1>3, <1>4, <1>5, <1>6, <1>7, <1>9, <1>12, <1>13
       DEF RowOK, Closed, Intent, Observed
<1>15. \A i \in 1..MaxAttempts : seen[r][i] \in Observed \cup {None}
    BY <1>1, <1>2, <1>3, <1>4, <1>5, <1>6, <1>7, <1>9, <1>12, <1>13, <1>14 DEF Typed
<1>16. RowInv(r)'
    BY <1>1, <1>2, <1>3, <1>4, <1>5, <1>6, <1>7, <1>9, <1>12, <1>13, <1>14, <1>15
       DEF Inv, RowInv, FlightOK, Legal
<1>17. PhaseInv(r)'
    BY <1>1, <1>2, <1>3, <1>4, <1>5, <1>6, <1>7, <1>9, <1>12, <1>13, <1>14, <1>15
       DEF Inv, PhaseInv
<1>18. EntryInv(r)'
    BY <1>1, <1>2, <1>3, <1>4, <1>5, <1>6, <1>7, <1>9, <1>12, <1>13, <1>14, <1>15
       DEF Inv, EntryInv
<1>19. TrackerInv(r)'
    BY <1>1, <1>2, <1>3, <1>4, <1>5, <1>6, <1>7, <1>9, <1>12, <1>13, <1>14, <1>15
       DEF Inv, TrackerInv
<1>20. SentInv(r)'
    BY <1>7, <1>9, <1>2, <1>3, <1>12, <1>13, <1>14 DEF Inv, SentInv, Unsent
<1>21. SeenInv(r)'
    BY <1>7, <1>9, <1>12, <1>13, <1>15 DEF Inv, SeenInv
<1>22. StoredInv(r)'
  <2>1. flight'[r] = None
    BY <1>7, <1>9
  <2>2. ASSUME NEW i \in 1..Len(f.attempts), f.attempts[i] \in Observed
        PROVE  f.attempts[i] = seen[r][i]
    BY <2>2, <1>2, <1>3 DEF Inv, StoredInv, Observed
  <2>3. QED
    BY <2>1, <2>2, <1>7, <1>9 DEF StoredInv
<1>23. EvidenceInv(r)'
    BY <1>1, <1>2, <1>3, <1>4, <1>5, <1>6, <1>7, <1>9, <1>12, <1>13, <1>14, <1>15
       DEF Inv, EvidenceInv
<1>24. ReadInv(r)'
    BY <1>7, <1>9, <1>1, <1>4, <1>6, <1>14 DEF Inv, ReadInv, HasEvidence
<1>25. RetiredInv(r)'
    BY <1>1, <1>2, <1>3, <1>4, <1>5, <1>6, <1>7, <1>9, <1>12, <1>13, <1>14, <1>15
       DEF Inv, RetiredInv, Retired, EntryInv
<1>26. DeliveredInv(r)'
    BY <1>1, <1>2, <1>3, <1>4, <1>5, <1>6, <1>7, <1>9, <1>12, <1>13, <1>14, <1>15
       DEF Inv, DeliveredInv, Legal, Follows, Outcome, Observed, EntryInv
<1>27. QED
    BY <1>10, <1>11, <1>16, <1>17, <1>18, <1>19, <1>20, <1>21, <1>22, <1>23, <1>24,
       <1>25, <1>26 DEF Inv

LEMMA InterruptLostKeeps ==
    ASSUME Typed, NEW r \in Request, Inv(r), InterruptLost(r)
    PROVE  Typed' /\ Inv(r)' /\ OthersSame(r)
<1> DEFINE f == Interrupted(r)
           n == Len(exec[r].attempts)
<1>1. future[r].at = "none" /\ phase[r] = "Accepted" /\ owned[r] # None /\ ~ HasEvidence(r)
    BY DEF Inv, TrackerInv, PhaseInv, EntryInv, ReadInv, InterruptLost
<1>2. exec[r] \in Execution /\ RowOK(exec[r]) /\ n \in Nat /\ n # 0
    BY RowIs, CustodyAssumption DEF Typed, Inv, RowInv, ReadInv, InterruptLost
<1>3. /\ Legal(exec[r], f) /\ Len(f.attempts) = n
      /\ \A i \in 1..n : i # n => f.attempts[i] = exec[r].attempts[i]
      /\ f.attempts[n] # "dispatched"
      /\ f.attempts[n] \in Observed => f = exec[r]
      /\ f = exec[r] \/ f.state \notin Unsent \/ f.state = exec[r].state
      /\ exec[r].state = "unknown" => f = exec[r]
      /\ f.state = "open" => exec[r].state = "open"
      /\ exec[r].attempts[n] \in Intent => f.attempts[n] \in Intent
    BY <1>2, InterruptedRow DEF InterruptLost
<1>4. /\ GiveUp(r) /\ UNCHANGED <<owned, generations, slots>>
      /\ queue' \in Seq(Request)
    BY GiveUpIs DEF InterruptLost
<1>5. PICK j \in Job :
            /\ job' = [job EXCEPT ![r] = j]
            /\ j.at \in {"idle", "done"}
            /\ j.at = "done" => ref[r] = "held"
            /\ ~ j.success
    BY GiveUpIs, <1>4
<1>6. /\ UNCHANGED <<ref, phase, pipelineFailed, tracker, future, owned, generations,
                     slots, exec, leased, full, sent, seen, delivered>>
      /\ flight[r] = None
      /\ job[r].at = "interrupt"
    BY <1>4 DEF InterruptLost, Lose, registry, history, process
<1>7. /\ flight' = [flight EXCEPT ![r] = f]
      /\ job' = [job EXCEPT ![r] = j]
    BY <1>1, <1>2, <1>3, <1>4, <1>5 DEF InterruptLost, Lose
<1> HIDE DEF f
<1>8. /\ flight'[r] = f
      /\ job'[r] = j
    BY <1>7 DEF Typed
<1>9. Typed'
    BY <1>1, <1>2, <1>3, <1>4, <1>5, <1>6, <1>7 DEF Typed, Legal
<1>10. OthersSame(r)
    BY <1>6, <1>7 DEF OthersSame, Same, Typed
<1>11. SeenInv(r)'
    BY <1>6 DEF Inv, SeenInv
<1>12. RowInv(r)'
    BY <1>1, <1>2, <1>3, <1>4, <1>5, <1>6, <1>8 DEF Inv, RowInv, FlightOK, Legal
<1>13. PhaseInv(r)'
    BY <1>1, <1>2, <1>3, <1>4, <1>5, <1>6, <1>8 DEF Inv, PhaseInv
<1>14. EntryInv(r)'
    BY <1>1, <1>2, <1>3, <1>4, <1>5, <1>6, <1>8 DEF Inv, EntryInv
<1>15. TrackerInv(r)'
    BY <1>1, <1>2, <1>3, <1>4, <1>5, <1>6, <1>8 DEF Inv, TrackerInv
<1>16. SentInv(r)'
    BY <1>1, <1>2, <1>3, <1>4, <1>5, <1>6, <1>8 DEF Inv, SentInv, Unsent
<1>17. StoredInv(r)'
  <2>1. ASSUME NEW i \in 1..Len(f.attempts), f.attempts[i] \in Observed
        PROVE  f.attempts[i] = seen[r][i]
    BY <2>1, <1>2, <1>3 DEF Inv, StoredInv, Observed
  <2>2. QED
    BY <2>1, <1>6, <1>8 DEF Inv, StoredInv
<1>18. EvidenceInv(r)'
    BY <1>1, <1>2, <1>3, <1>4, <1>5, <1>6, <1>8 DEF Inv, EvidenceInv
<1>19. ReadInv(r)'
    BY <1>1, <1>2, <1>3, <1>4, <1>5, <1>6, <1>8 DEF Inv, ReadInv, HasEvidence
<1>20. RetiredInv(r)'
    BY <1>1, <1>2, <1>3, <1>4, <1>5, <1>6, <1>8 DEF Inv, RetiredInv, Retired, EntryInv
<1>21. DeliveredInv(r)'
    BY <1>1, <1>2, <1>3, <1>4, <1>5, <1>6, <1>8 DEF Inv, DeliveredInv
<1>22. QED
    BY <1>9, <1>10, <1>11, <1>12, <1>13, <1>14, <1>15, <1>16, <1>17, <1>18, <1>19,
       <1>20, <1>21 DEF Inv

LEMMA ReadKeeps ==
    ASSUME Typed, NEW r \in Request, Inv(r), Read(r)
    PROVE  Typed' /\ Inv(r)' /\ OthersSame(r)
<1>1. CASE ref[r] = "dropped" /\ Settled(exec[r]) /\ Retire(r)
  <2>1. /\ job' = [job EXCEPT ![r] = Idle] /\ owned' = [owned EXCEPT ![r] = None]
        /\ generations' \in [Generation -> Int] /\ slots' \in Int /\ UNCHANGED queue
      BY RetireIs, <1>1
  <2>2. Idle \in Job /\ Idle.at = "idle" /\ ~ Idle.success
      BY DEF Idle, Job
  <2>3. /\ future[r].at = "none"
        /\ \A i \in 1..MaxAttempts : seen[r][i] # None => exec[r].attempts[i] = seen[r][i]
      BY ReadSeesAll DEF Read
  <2>4. exec[r].state # "open" /\ flight[r] \in {None, exec[r]}
      BY <1>1, SettledIsFinal DEF Read
  <2>5. /\ UNCHANGED <<ref, phase, pipelineFailed, tracker, future, queue, exec, flight,
                       leased, full, sent, seen, delivered>>
        /\ job[r].at = "read" /\ ref[r] = "dropped"
      BY <1>1, <2>1 DEF Read, registry, history, process
  <2>6. /\ job' = [job EXCEPT ![r] = Idle]
        /\ owned' = [owned EXCEPT ![r] = None]
      BY <2>1, <2>2, <2>3, <2>4
  <2>7. /\ job'[r] = Idle
        /\ owned'[r] = None
      BY <2>6 DEF Typed
  <2>8. Typed'
      BY <2>1, <2>2, <2>3, <2>4, <2>5, <2>6 DEF Typed
  <2>9. OthersSame(r)
      BY <2>5, <2>6 DEF OthersSame, Same, Typed
  <2>10. /\ RowInv(r)' /\ SentInv(r)' /\ SeenInv(r)' /\ StoredInv(r)'
         /\ EvidenceInv(r)'
      BY <2>5 DEF Inv, RowInv, FlightOK, SentInv, SeenInv, StoredInv, EvidenceInv
  <2>11. PhaseInv(r)'
      BY <2>1, <2>2, <2>3, <2>4, <2>5, <2>7 DEF Inv, PhaseInv
  <2>12. EntryInv(r)'
      BY <2>1, <2>2, <2>3, <2>4, <2>5, <2>7 DEF Inv, EntryInv
  <2>13. TrackerInv(r)'
      BY <2>1, <2>2, <2>3, <2>4, <2>5, <2>7 DEF Inv, TrackerInv
  <2>14. ReadInv(r)'
      BY <2>1, <2>2, <2>3, <2>4, <2>5, <2>7 DEF Inv, ReadInv, HasEvidence
  <2>15. RetiredInv(r)'
      BY <2>1, <2>2, <2>3, <2>4, <2>5, <2>7 DEF Inv, RetiredInv, Retired
  <2>16. DeliveredInv(r)'
      BY <2>1, <2>2, <2>3, <2>4, <2>5, <2>7 DEF Inv, DeliveredInv
  <2>17. QED
      BY <2>8, <2>9, <2>10, <2>11, <2>12, <2>13, <2>14, <2>15, <2>16 DEF Inv
<1>2. CASE job' = [job EXCEPT ![r].at = "done"] /\ job[r].success /\ UNCHANGED registry
  <2> DEFINE j == [job[r] EXCEPT !.at = "done"]
  <2>1. j \in Job /\ j.at = "done" /\ (j.success <=> job[r].success)
        /\ j.outcome = job[r].outcome
      BY JobAt DEF Typed
  <2>2. ref[r] = "held" /\ owned[r] # None /\ phase[r] = "Accepted" /\ future[r].at = "none"
      BY <1>2 DEF Inv, EntryInv, PhaseInv, TrackerInv, Read
  <2>3. /\ UNCHANGED <<ref, phase, pipelineFailed, tracker, future, owned, queue,
                       generations, slots, exec, flight, leased, full, sent, seen, delivered>>
        /\ job[r].at = "read"
      BY <1>2 DEF Read, registry, history, process
  <2>4. /\ job' = [job EXCEPT ![r] = j]
      BY <1>2, <2>1, <2>2
  <2> HIDE DEF j
  <2>5. /\ job'[r] = j
      BY <2>4 DEF Typed
  <2>6. Typed'
      BY <2>1, <2>2, <2>3, <2>4 DEF Typed
  <2>7. OthersSame(r)
      BY <2>3, <2>4 DEF OthersSame, Same, Typed
  <2>8. /\ RowInv(r)' /\ SentInv(r)' /\ SeenInv(r)' /\ StoredInv(r)'
        /\ EvidenceInv(r)' /\ RetiredInv(r)'
      BY <2>3
         DEF Inv, RowInv, FlightOK, SentInv, SeenInv, StoredInv, EvidenceInv,
             RetiredInv, Retired
  <2>9. PhaseInv(r)'
      BY <2>1, <2>2, <2>3, <2>5 DEF Inv, PhaseInv
  <2>10. EntryInv(r)'
      BY <2>1, <2>2, <2>3, <2>5 DEF Inv, EntryInv
  <2>11. TrackerInv(r)'
      BY <2>1, <2>2, <2>3, <2>5 DEF Inv, TrackerInv
  <2>12. ReadInv(r)'
      BY <2>1, <2>2, <2>3, <2>5 DEF Inv, ReadInv, HasEvidence
  <2>13. DeliveredInv(r)'
      BY <2>1, <2>2, <2>3, <2>5 DEF Inv, DeliveredInv
  <2>14. QED
      BY <2>6, <2>7, <2>8, <2>9, <2>10, <2>11, <2>12, <2>13 DEF Inv
<1>3. CASE /\ job[r].success => TerminalOutcome(r) = "succeeded"
           /\ job' = [job EXCEPT ![r].at = "finish", ![r].outcome = TerminalOutcome(r)]
           /\ UNCHANGED registry
  <2> DEFINE o == TerminalOutcome(r)
             j == [job[r] EXCEPT !.at = "finish", !.outcome = o]
  <2>1. /\ o \in Outcome /\ (o = "succeeded" => ~ pipelineFailed[r])
        /\ o \in Unsent => \A i \in 1..Len(exec[r].attempts) :
                                 exec[r].attempts[i] \notin Observed
      BY TerminalOutcomeIs
  <2>2. (job[r].success => o = "succeeded") /\ job[r] \in Job
      BY <1>3 DEF Typed
  <2> HIDE DEF o
  <2>3. j \in Job /\ j.at = "finish" /\ (j.success <=> job[r].success) /\ j.outcome = o
      BY <2>1, <2>2 DEF Job
  <2>4. owned[r] # None /\ phase[r] = "Accepted" /\ future[r].at = "none"
      BY DEF Inv, EntryInv, PhaseInv, TrackerInv, Read
  <2>5. \A i \in sent[r] : i \in 1..Len(exec[r].attempts)
      BY DEF Inv, SentInv
  <2>6. /\ UNCHANGED <<registry, ref, phase, pipelineFailed, tracker, future, exec, flight,
                        leased, full, history>>
        /\ job[r].at = "read"
      BY <1>3 DEF Read
  <2>7. /\ UNCHANGED <<ref, phase, pipelineFailed, tracker, future, owned, queue,
                       generations, slots, exec, flight, leased, full, sent, seen, delivered>>
        /\ job[r].at = "read"
      BY <2>6 DEF registry, history, process
  <2>8. /\ job' = [job EXCEPT ![r] = j]
      BY <1>3 DEF o
  <2> HIDE DEF j
  <2>9. /\ job'[r] = j
      BY <2>8 DEF Typed
  <2>10. Typed'
      BY <2>1, <2>2, <2>3, <2>4, <2>5, <2>6, <2>7, <2>8 DEF Typed
  <2>11. OthersSame(r)
      BY <2>7, <2>8 DEF OthersSame, Same, Typed
  <2>12. /\ RowInv(r)' /\ SentInv(r)' /\ SeenInv(r)' /\ StoredInv(r)'
         /\ EvidenceInv(r)' /\ RetiredInv(r)'
      BY <2>7
         DEF Inv, RowInv, FlightOK, SentInv, SeenInv, StoredInv, EvidenceInv,
             RetiredInv, Retired
  <2>13. PhaseInv(r)'
      BY <2>1, <2>2, <2>3, <2>4, <2>5, <2>6, <2>7, <2>9 DEF Inv, PhaseInv
  <2>14. EntryInv(r)'
      BY <2>1, <2>2, <2>3, <2>4, <2>5, <2>6, <2>7, <2>9 DEF Inv, EntryInv
  <2>15. TrackerInv(r)'
      BY <2>1, <2>2, <2>3, <2>4, <2>5, <2>6, <2>7, <2>9 DEF Inv, TrackerInv
  <2>16. ReadInv(r)'
      BY <2>1, <2>2, <2>3, <2>4, <2>5, <2>6, <2>7, <2>9 DEF Inv, ReadInv, HasEvidence
  <2>17. DeliveredInv(r)'
      BY <2>1, <2>2, <2>3, <2>4, <2>5, <2>6, <2>7, <2>9 DEF Inv, DeliveredInv
  <2>18. QED
      BY <2>10, <2>11, <2>12, <2>13, <2>14, <2>15, <2>16, <2>17 DEF Inv
<1>4. QED
    BY <1>1, <1>2, <1>3 DEF Read

LEMMA FinishKeeps ==
    ASSUME Typed, NEW r \in Request, Inv(r), Finish(r)
    PROVE  Typed' /\ Inv(r)' /\ OthersSame(r)
<1>1. CASE ref[r] = "held"
  <2> DEFINE f == Finalized(exec[r], job[r].outcome)
             j == [job[r] EXCEPT !.at = "done"]
             d == IF job[r].success THEN delivered \cup {r} ELSE delivered
  <2>1. /\ future[r].at = "none"
        /\ \A i \in 1..MaxAttempts : seen[r][i] # None => exec[r].attempts[i] = seen[r][i]
      BY ReadSeesAll DEF Finish
  <2>2. /\ exec[r] \in Execution /\ RowOK(exec[r])
        /\ job[r].outcome \in Outcome /\ RowFinalizes(exec[r], job[r].outcome)
      BY GuardsAre DEF Typed, Inv, RowInv, EntryInv, Finish
  <2>3. /\ Legal(exec[r], f) /\ f.state = job[r].outcome
        /\ (exec[r].state = "open" \/ f = exec[r])
        /\ exec[r].state # "unknown"
        /\ Len(f.attempts) = Len(exec[r].attempts)
        /\ \A i \in 1..Len(exec[r].attempts) :
              f.attempts[i] = IF exec[r].attempts[i] = "prepared" THEN "not_dispatched"
                              ELSE exec[r].attempts[i]
      BY <2>2, FinalizedRow
  <2>4. owned[r] # None /\ phase[r] = "Accepted"
        /\ DOMAIN exec[r].attempts = 1..Len(exec[r].attempts)
      BY <2>2, RowIs DEF Inv, EntryInv, PhaseInv, Finish
  <2>5. sent[r] # {} => f.state \notin Unsent
      BY <2>2, <2>3, <2>4 DEF Inv, SentInv, ReadInv, RowFinalizes, Intent, Observed, Finish
  <2>6. \A i \in sent[r] : i \in 1..Len(exec[r].attempts) /\ exec[r].attempts[i] \in Intent
      BY DEF Inv, SentInv
  <2>7. \A i \in sent[r] : f.attempts[i] = exec[r].attempts[i]
      BY <2>3, <2>6 DEF Intent, Observed
  <2>8. \A i \in 1..MaxAttempts :
              seen[r][i] \in Observed \cup {None} /\ (seen[r][i] # None => i \in sent[r])
      BY DEF Typed, Inv, SeenInv
  <2>9. j \in Job /\ j.at = "done" /\ (j.success <=> job[r].success)
        /\ j.outcome = job[r].outcome
      BY JobAt DEF Typed
  <2> HIDE DEF f
  <2>10. d = IF job[r].success THEN delivered \cup {r} ELSE delivered
      OBVIOUS
  <2>11. d \subseteq Request
      BY <2>10 DEF Typed
  <2>12. /\ UNCHANGED <<ref, phase, pipelineFailed, tracker, future, owned, queue,
                        generations, slots, flight, leased, full, sent, seen>>
         /\ flight[r] = None
         /\ job[r].at = "finish" /\ ref[r] = "held"
      BY <1>1 DEF Finish, Commit, registry, history, process
  <2>13. /\ exec' = [exec EXCEPT ![r] = f]
         /\ job' = [job EXCEPT ![r] = j]
         /\ delivered' = d
      BY <1>1, <2>1, <2>2, <2>3, <2>4, <2>5, <2>6, <2>7, <2>8, <2>9, <2>10, <2>11
         DEF Finish, Commit, Enter, f
  <2> HIDE DEF j, d
  <2>14. /\ exec'[r] = f
         /\ job'[r] = j
      BY <2>13 DEF Typed
  <2>15. Typed'
      BY <2>1, <2>2, <2>3, <2>4, <2>5, <2>6, <2>7, <2>8, <2>9, <2>10, <2>11, <2>12,
         <2>13 DEF Typed, Legal
  <2>16. OthersSame(r)
      BY <2>12, <2>13, <2>10 DEF OthersSame, Same, Typed
  <2>17. RowInv(r)'
      BY <2>1, <2>2, <2>3, <2>4, <2>5, <2>6, <2>7, <2>8, <2>9, <2>10, <2>11, <2>12,
         <2>14, <2>13 DEF Inv, RowInv, FlightOK, Legal
  <2>18. PhaseInv(r)'
      BY <2>1, <2>2, <2>3, <2>4, <2>5, <2>6, <2>7, <2>8, <2>9, <2>10, <2>11, <2>12,
         <2>14, <2>13 DEF Inv, PhaseInv
  <2>19. EntryInv(r)'
      BY <2>1, <2>2, <2>3, <2>4, <2>5, <2>6, <2>7, <2>8, <2>9, <2>10, <2>11, <2>12,
         <2>14, <2>13 DEF Inv, EntryInv
  <2>20. TrackerInv(r)'
      BY <2>1, <2>2, <2>3, <2>4, <2>5, <2>6, <2>7, <2>8, <2>9, <2>10, <2>11, <2>12,
         <2>14, <2>13 DEF Inv, TrackerInv
  <2>21. SentInv(r)'
      BY <2>12, <2>14, <2>5, <2>6, <2>7, <2>3 DEF Inv, SentInv
  <2>22. SeenInv(r)'
      BY <2>12, <2>14, <2>7, <2>8 DEF Inv, SeenInv
  <2>23. StoredInv(r)'
    <3>1. flight'[r] = None
      BY <2>12, <2>14
    <3>2. ASSUME NEW i \in 1..Len(f.attempts), f.attempts[i] \in Observed
          PROVE  f.attempts[i] = seen[r][i]
      BY <3>2, <2>3 DEF Inv, StoredInv, Observed
    <3>3. QED
      BY <3>1, <3>2, <2>12, <2>14 DEF StoredInv
  <2>24. EvidenceInv(r)'
      BY <2>1, <2>2, <2>3, <2>4, <2>5, <2>6, <2>7, <2>8, <2>9, <2>10, <2>11, <2>12,
         <2>14, <2>13 DEF Inv, EvidenceInv
  <2>25. ReadInv(r)'
      BY <2>12, <2>14, <2>9, <2>11 DEF Inv, ReadInv, HasEvidence
  <2>26. RetiredInv(r)'
      BY <2>1, <2>2, <2>3, <2>4, <2>5, <2>6, <2>7, <2>8, <2>9, <2>10, <2>11, <2>12,
         <2>14, <2>13 DEF Inv, RetiredInv, Retired
  <2>27. DeliveredInv(r)'
      BY <2>1, <2>2, <2>3, <2>4, <2>5, <2>6, <2>7, <2>8, <2>9, <2>10, <2>11, <2>12,
         <2>14, <2>13 DEF Inv, DeliveredInv, EntryInv
  <2>28. QED
      BY <2>15, <2>16, <2>17, <2>18, <2>19, <2>20, <2>21, <2>22, <2>23, <2>24, <2>25,
         <2>26, <2>27 DEF Inv
<1>2. CASE ref[r] # "held"
  <2> DEFINE f == Finalized(exec[r], job[r].outcome)
  <2>1. /\ future[r].at = "none"
        /\ \A i \in 1..MaxAttempts : seen[r][i] # None => exec[r].attempts[i] = seen[r][i]
      BY ReadSeesAll DEF Finish
  <2>2. /\ exec[r] \in Execution /\ RowOK(exec[r])
        /\ job[r].outcome \in Outcome /\ RowFinalizes(exec[r], job[r].outcome)
      BY GuardsAre DEF Typed, Inv, RowInv, EntryInv, Finish
  <2>3. /\ Legal(exec[r], f) /\ f.state = job[r].outcome
        /\ (exec[r].state = "open" \/ f = exec[r])
        /\ exec[r].state # "unknown"
        /\ Len(f.attempts) = Len(exec[r].attempts)
        /\ \A i \in 1..Len(exec[r].attempts) :
              f.attempts[i] = IF exec[r].attempts[i] = "prepared" THEN "not_dispatched"
                              ELSE exec[r].attempts[i]
      BY <2>2, FinalizedRow
  <2>4. owned[r] # None /\ phase[r] = "Accepted"
        /\ DOMAIN exec[r].attempts = 1..Len(exec[r].attempts)
      BY <2>2, RowIs DEF Inv, EntryInv, PhaseInv, Finish
  <2>5. sent[r] # {} => f.state \notin Unsent
      BY <2>2, <2>3, <2>4 DEF Inv, SentInv, ReadInv, RowFinalizes, Intent, Observed, Finish
  <2>6. \A i \in sent[r] : i \in 1..Len(exec[r].attempts) /\ exec[r].attempts[i] \in Intent
      BY DEF Inv, SentInv
  <2>7. \A i \in sent[r] : f.attempts[i] = exec[r].attempts[i]
      BY <2>3, <2>6 DEF Intent, Observed
  <2>8. \A i \in 1..MaxAttempts :
              seen[r][i] \in Observed \cup {None} /\ (seen[r][i] # None => i \in sent[r])
      BY DEF Typed, Inv, SeenInv
  <2>9. Retire(r)
      BY <1>2 DEF Finish
  <2>10. /\ job' = [job EXCEPT ![r] = Idle] /\ owned' = [owned EXCEPT ![r] = None]
         /\ generations' \in [Generation -> Int] /\ slots' \in Int /\ UNCHANGED queue
      BY RetireIs, <2>9
  <2>11. Idle \in Job /\ Idle.at = "idle" /\ ~ Idle.success
      BY DEF Idle, Job
  <2>12. ref[r] = "dropped"
      BY <1>2 DEF Inv, EntryInv, Finish, Typed
  <2>13. /\ UNCHANGED <<ref, phase, pipelineFailed, tracker, future, queue, flight,
                        leased, full, sent, seen, delivered>>
         /\ flight[r] = None
         /\ job[r].at = "finish"
      BY <1>2, <2>10 DEF Finish, Commit, registry, history, process
  <2>14. /\ exec' = [exec EXCEPT ![r] = f]
         /\ job' = [job EXCEPT ![r] = Idle]
         /\ owned' = [owned EXCEPT ![r] = None]
      BY <1>2, <2>1, <2>2, <2>3, <2>4, <2>5, <2>6, <2>7, <2>8, <2>9, <2>10, <2>11, <2>12
         DEF Finish, Commit
  <2> HIDE DEF f
  <2>15. /\ exec'[r] = f
         /\ job'[r] = Idle
         /\ owned'[r] = None
      BY <2>14 DEF Typed
  <2>16. Typed'
      BY <2>1, <2>2, <2>3, <2>4, <2>5, <2>6, <2>7, <2>8, <2>9, <2>10, <2>11, <2>12,
         <2>13, <2>14 DEF Typed, Legal
  <2>17. OthersSame(r)
      BY <2>13, <2>14 DEF OthersSame, Same, Typed
  <2>18. RowInv(r)'
      BY <2>1, <2>2, <2>3, <2>4, <2>5, <2>6, <2>7, <2>8, <2>9, <2>10, <2>11, <2>12,
         <2>13, <2>15 DEF Inv, RowInv, FlightOK, Legal
  <2>19. PhaseInv(r)'
      BY <2>1, <2>2, <2>3, <2>4, <2>5, <2>6, <2>7, <2>8, <2>9, <2>10, <2>11, <2>12,
         <2>13, <2>15 DEF Inv, PhaseInv
  <2>20. EntryInv(r)'
      BY <2>1, <2>2, <2>3, <2>4, <2>5, <2>6, <2>7, <2>8, <2>9, <2>10, <2>11, <2>12,
         <2>13, <2>15 DEF Inv, EntryInv
  <2>21. TrackerInv(r)'
      BY <2>1, <2>2, <2>3, <2>4, <2>5, <2>6, <2>7, <2>8, <2>9, <2>10, <2>11, <2>12,
         <2>13, <2>15 DEF Inv, TrackerInv
  <2>22. SentInv(r)'
      BY <2>13, <2>15, <2>5, <2>6, <2>7, <2>3 DEF Inv, SentInv
  <2>23. SeenInv(r)'
      BY <2>13, <2>15, <2>7, <2>8 DEF Inv, SeenInv
  <2>24. StoredInv(r)'
    <3>1. flight'[r] = None
      BY <2>13, <2>15
    <3>2. ASSUME NEW i \in 1..Len(f.attempts), f.attempts[i] \in Observed
          PROVE  f.attempts[i] = seen[r][i]
      BY <3>2, <2>3 DEF Inv, StoredInv, Observed
    <3>3. QED
      BY <3>1, <3>2, <2>13, <2>15 DEF StoredInv
  <2>25. EvidenceInv(r)'
      BY <2>1, <2>2, <2>3, <2>4, <2>5, <2>6, <2>7, <2>8, <2>9, <2>10, <2>11, <2>12,
         <2>13, <2>15 DEF Inv, EvidenceInv
  <2>26. ReadInv(r)'
      BY <2>13, <2>15, <2>9, <2>11 DEF Inv, ReadInv, HasEvidence
  <2>27. RetiredInv(r)'
      BY <2>13, <2>15, <2>1, <2>2, <2>3, <2>7, <2>8
         DEF Inv, RetiredInv, Retired, Outcome, Observed
  <2>28. DeliveredInv(r)'
      BY <2>1, <2>2, <2>3, <2>4, <2>5, <2>6, <2>7, <2>8, <2>9, <2>10, <2>11, <2>12,
         <2>13, <2>15 DEF Inv, DeliveredInv, EntryInv
  <2>29. QED
      BY <2>16, <2>17, <2>18, <2>19, <2>20, <2>21, <2>22, <2>23, <2>24, <2>25, <2>26,
         <2>27, <2>28 DEF Inv
<1>3. QED
    BY <1>1, <1>2

LEMMA FinishLostKeeps ==
    ASSUME Typed, NEW r \in Request, Inv(r), FinishLost(r)
    PROVE  Typed' /\ Inv(r)' /\ OthersSame(r)
<1> DEFINE f == Finalized(exec[r], job[r].outcome)
<1>1. /\ future[r].at = "none"
      /\ \A i \in 1..MaxAttempts : seen[r][i] # None => exec[r].attempts[i] = seen[r][i]
    BY ReadSeesAll DEF FinishLost
<1>2. /\ exec[r] \in Execution /\ RowOK(exec[r])
      /\ job[r].outcome \in Outcome /\ RowFinalizes(exec[r], job[r].outcome)
    BY GuardsAre DEF Typed, Inv, RowInv, EntryInv, FinishLost
<1>3. /\ Legal(exec[r], f) /\ f.state = job[r].outcome
      /\ (exec[r].state = "open" \/ f = exec[r])
      /\ exec[r].state # "unknown"
      /\ Len(f.attempts) = Len(exec[r].attempts)
      /\ \A i \in 1..Len(exec[r].attempts) :
            f.attempts[i] = IF exec[r].attempts[i] = "prepared" THEN "not_dispatched"
                            ELSE exec[r].attempts[i]
    BY <1>2, FinalizedRow
<1>4. owned[r] # None /\ phase[r] = "Accepted"
      /\ DOMAIN exec[r].attempts = 1..Len(exec[r].attempts)
    BY <1>2, RowIs DEF Inv, EntryInv, PhaseInv, FinishLost
<1>5. sent[r] # {} => f.state \notin Unsent
    BY <1>2, <1>3, <1>4
       DEF Inv, SentInv, ReadInv, RowFinalizes, Intent, Observed, FinishLost
<1>6. \A i \in sent[r] : i \in 1..Len(exec[r].attempts) /\ exec[r].attempts[i] \in Intent
    BY DEF Inv, SentInv
<1>7. \A i \in sent[r] : f.attempts[i] = exec[r].attempts[i]
    BY <1>3, <1>6 DEF Intent, Observed
<1>8. \A i \in 1..MaxAttempts :
            seen[r][i] \in Observed \cup {None} /\ (seen[r][i] # None => i \in sent[r])
    BY DEF Typed, Inv, SeenInv
<1>9. /\ GiveUp(r) /\ UNCHANGED <<owned, generations, slots>>
      /\ queue' \in Seq(Request)
    BY GiveUpIs DEF FinishLost
<1>10. PICK j \in Job :
             /\ job' = [job EXCEPT ![r] = j]
             /\ j.at \in {"idle", "done"}
             /\ j.at = "done" => ref[r] = "held"
             /\ ~ j.success
    BY GiveUpIs, <1>9
<1>11. /\ UNCHANGED <<ref, phase, pipelineFailed, tracker, future, owned, generations,
                      slots, exec, leased, full, sent, seen, delivered>>
       /\ flight[r] = None
       /\ job[r].at = "finish"
    BY <1>9 DEF FinishLost, Lose, registry, history, process
<1>12. /\ flight' = [flight EXCEPT ![r] = f]
       /\ job' = [job EXCEPT ![r] = j]
    BY <1>1, <1>2, <1>3, <1>4, <1>5, <1>6, <1>7, <1>8, <1>9, <1>10 DEF FinishLost, Lose
<1> HIDE DEF f
<1>13. /\ flight'[r] = f
       /\ job'[r] = j
    BY <1>12 DEF Typed
<1>14. Typed'
    BY <1>1, <1>2, <1>3, <1>4, <1>5, <1>6, <1>7, <1>8, <1>9, <1>10, <1>11, <1>12
       DEF Typed, Legal
<1>15. OthersSame(r)
    BY <1>11, <1>12 DEF OthersSame, Same, Typed
<1>16. SeenInv(r)'
    BY <1>11 DEF Inv, SeenInv
<1>17. RowInv(r)'
    BY <1>1, <1>2, <1>3, <1>4, <1>5, <1>6, <1>7, <1>8, <1>9, <1>10, <1>11, <1>13
       DEF Inv, RowInv, FlightOK, Legal
<1>18. PhaseInv(r)'
    BY <1>1, <1>2, <1>3, <1>4, <1>5, <1>6, <1>7, <1>8, <1>9, <1>10, <1>11, <1>13
       DEF Inv, PhaseInv
<1>19. EntryInv(r)'
    BY <1>1, <1>2, <1>3, <1>4, <1>5, <1>6, <1>7, <1>8, <1>9, <1>10, <1>11, <1>13
       DEF Inv, EntryInv
<1>20. TrackerInv(r)'
    BY <1>1, <1>2, <1>3, <1>4, <1>5, <1>6, <1>7, <1>8, <1>9, <1>10, <1>11, <1>13
       DEF Inv, TrackerInv
<1>21. SentInv(r)'
    BY <1>11, <1>13, <1>5 DEF Inv, SentInv
<1>22. StoredInv(r)'
  <2>1. ASSUME NEW i \in 1..Len(f.attempts), f.attempts[i] \in Observed
        PROVE  f.attempts[i] = seen[r][i]
    BY <2>1, <1>3 DEF Inv, StoredInv, Observed
  <2>2. QED
    BY <2>1, <1>11, <1>13 DEF Inv, StoredInv
<1>23. EvidenceInv(r)'
    BY <1>1, <1>2, <1>3, <1>4, <1>5, <1>6, <1>7, <1>8, <1>9, <1>10, <1>11, <1>13
       DEF Inv, EvidenceInv
<1>24. ReadInv(r)'
    BY <1>1, <1>2, <1>3, <1>4, <1>5, <1>6, <1>7, <1>8, <1>9, <1>10, <1>11, <1>13
       DEF Inv, ReadInv, HasEvidence
<1>25. RetiredInv(r)'
    BY <1>1, <1>2, <1>3, <1>4, <1>5, <1>6, <1>7, <1>8, <1>9, <1>10, <1>11, <1>13
       DEF Inv, RetiredInv, Retired, EntryInv
<1>26. DeliveredInv(r)'
    BY <1>1, <1>2, <1>3, <1>4, <1>5, <1>6, <1>7, <1>8, <1>9, <1>10, <1>11, <1>13
       DEF Inv, DeliveredInv
<1>27. QED
    BY <1>14, <1>15, <1>16, <1>17, <1>18, <1>19, <1>20, <1>21, <1>22, <1>23, <1>24,
       <1>25, <1>26 DEF Inv

LEMMA LateCommitKeeps ==
    ASSUME Typed, NEW r \in Request, Inv(r), LateCommit(r)
    PROVE  Typed' /\ Inv(r)' /\ OthersSame(r)
<1> DEFINE f == flight[r]
<1>1. /\ RowOK(f) /\ Follows(exec[r], f) /\ f \in Execution /\ f # None
    BY DEF LateCommit, Inv, RowInv, FlightOK, Typed
<1>2. exec[r] \in Execution /\ Len(exec[r].attempts) \in Nat
      /\ Len(exec[r].attempts) <= Len(f.attempts)
    BY <1>1, RowIs, CustodyAssumption DEF Typed, Follows
<1>3. \A i \in sent[r] : i \in 1..Len(exec[r].attempts) /\ exec[r].attempts[i] \in Intent
    BY DEF Inv, SentInv
<1>4. \A i \in sent[r] : /\ f.attempts[i] \in Intent
                        
                         /\ exec[r].attempts[i] \in Observed => f.attempts[i] = exec[r].attempts[i]
                        
                         /\ exec[r].attempts[i] # "dispatched" => f.attempts[i] # "dispatched"
    BY <1>1, <1>3 DEF Follows, Closed, Intent, Observed
<1>5. \A i \in 1..MaxAttempts : seen[r][i] \in Observed \cup {None}
    BY DEF Typed
<1>6. exec[r].state = "succeeded" => f = exec[r]
    BY <1>1 DEF Follows, Outcome, Observed
<1>7. /\ UNCHANGED <<ref, phase, pipelineFailed, tracker, future, job, owned, queue,
                     generations, slots, leased, full, sent, seen, delivered>>
      /\ flight[r] = f
    BY DEF LateCommit, f, registry, history, process
<1>8. /\ exec' = [exec EXCEPT ![r] = f]
      /\ flight' = [flight EXCEPT ![r] = None]
    BY <1>1, <1>2, <1>3, <1>4, <1>5, <1>6 DEF LateCommit
<1> HIDE DEF f
<1>9. /\ exec'[r] = f
      /\ flight'[r] = None
    BY <1>8 DEF Typed
<1>10. Typed'
    BY <1>1, <1>2, <1>3, <1>4, <1>5, <1>6, <1>7, <1>8 DEF Typed
<1>11. OthersSame(r)
    BY <1>7, <1>8 DEF OthersSame, Same, Typed
<1>12. EntryInv(r)'
    BY <1>7 DEF Inv, EntryInv
<1>13. RowInv(r)'
    BY <1>7, <1>9, <1>1 DEF Inv, RowInv, FlightOK
<1>14. PhaseInv(r)'
    BY <1>7, <1>9, <1>1 DEF Inv, PhaseInv
<1>15. TrackerInv(r)'
    BY <1>7, <1>9, <1>1 DEF Inv, TrackerInv
<1>16. SentInv(r)'
    BY <1>7, <1>9, <1>1, <1>2, <1>3, <1>4 DEF Inv, SentInv
<1>17. SeenInv(r)'
    BY <1>7, <1>9, <1>4, <1>5 DEF Inv, SeenInv
<1>18. StoredInv(r)'
    BY <1>7, <1>9, <1>1 DEF Inv, StoredInv
<1>19. EvidenceInv(r)'
    BY <1>7, <1>9, <1>1 DEF Inv, EvidenceInv
<1>20. ReadInv(r)'
  <2>1. CASE job[r].at \notin {"read", "finish"}
    BY <2>1, <1>1, <1>2, <1>7, <1>9 DEF Inv, ReadInv, HasEvidence
  <2>2. CASE job[r].at \in {"read", "finish"}
    <3>1. future[r].at = "none" /\ \A i \in 1..MaxAttempts :
             seen[r][i] # None => exec[r].attempts[i] = seen[r][i]
        BY <2>2, ReadSeesAll
    <3>2. \A i \in sent[r] : f.attempts[i] # "dispatched"
        BY <2>2, <1>4 DEF Inv, ReadInv
    <3>3. \A i \in sent[r] : f.attempts[i] \in Observed => exec[r].attempts[i] \in Observed
      <4>1. TAKE i \in sent[r]
      <4>2. HAVE f.attempts[i] \in Observed
      <4>3. i \in 1..Len(f.attempts) /\ i \in 1..MaxAttempts
        BY <1>1, <1>2, <1>3, RowIs DEF Typed
      <4>4. f.attempts[i] = seen[r][i] /\ seen[r][i] # None
        BY <4>2, <4>3, <1>1, <1>7, CustodyAssumption DEF Inv, StoredInv, Observed
      <4>5. QED
        BY <3>1, <4>2, <4>3, <4>4
    <3>4. HasEvidence(r) => f.attempts[tracker[r].id] = tracker[r].evidence
      <4>1. HAVE HasEvidence(r)
      <4>2. /\ tracker[r].id \in 1..MaxAttempts /\ tracker[r].evidence \in Observed
            /\ exec[r].attempts[tracker[r].id] = tracker[r].evidence
        BY <4>1, <2>2, CustodyAssumption DEF Inv, ReadInv, HasEvidence, Typed, Tracker
      <4>3. tracker[r].id \in sent[r]
        BY <3>1, <4>1, <4>2 DEF Inv, EvidenceInv, SeenInv, HasEvidence
      <4>4. QED
        BY <4>2, <4>3, <1>4
    <3>5. QED
        BY <2>2, <3>2, <3>3, <3>4, <1>7, <1>9 DEF Inv, ReadInv, HasEvidence
  <2>3. QED
    BY <2>1, <2>2
<1>21. RetiredInv(r)'
    BY <1>7, <1>9, <1>1 DEF Inv, RetiredInv, Retired
<1>22. DeliveredInv(r)'
    BY <1>7, <1>9, <1>6 DEF Inv, DeliveredInv
<1>23. QED
    BY <1>10, <1>11, <1>12, <1>13, <1>14, <1>15, <1>16, <1>17, <1>18, <1>19, <1>20,
       <1>21, <1>22 DEF Inv

LEMMA LateRollbackKeeps ==
    ASSUME Typed, NEW r \in Request, Inv(r), LateRollback(r)
    PROVE  Typed' /\ Inv(r)' /\ OthersSame(r)
<1>1. /\ UNCHANGED <<ref, phase, pipelineFailed, tracker, future, job, owned, queue,
                     generations, slots, exec, leased, full, sent, seen, delivered>>
    BY DEF LateRollback, registry, history, process
<1>2. /\ flight' = [flight EXCEPT ![r] = None]
    BY DEF LateRollback
<1>3. /\ flight'[r] = None
    BY <1>2 DEF Typed
<1>4. Typed'
    BY <1>1, <1>2 DEF Typed
<1>5. OthersSame(r)
    BY <1>1, <1>2 DEF OthersSame, Same, Typed
<1>6. /\ EntryInv(r)' /\ SeenInv(r)' /\ ReadInv(r)' /\ DeliveredInv(r)'
    BY <1>1 DEF Inv, EntryInv, SeenInv, ReadInv, HasEvidence, DeliveredInv
<1>7. RowInv(r)'
    BY <1>1, <1>3 DEF Inv, RowInv, FlightOK
<1>8. PhaseInv(r)'
    BY <1>1, <1>3 DEF Inv, PhaseInv
<1>9. TrackerInv(r)'
    BY <1>1, <1>3 DEF Inv, TrackerInv
<1>10. SentInv(r)'
    BY <1>1, <1>3 DEF Inv, SentInv
<1>11. StoredInv(r)'
    BY <1>1, <1>3 DEF Inv, StoredInv
<1>12. EvidenceInv(r)'
    BY <1>1, <1>3 DEF Inv, EvidenceInv
<1>13. RetiredInv(r)'
    BY <1>1, <1>3 DEF Inv, RetiredInv, Retired
<1>14. QED
    BY <1>4, <1>5, <1>6, <1>7, <1>8, <1>9, <1>10, <1>11, <1>12, <1>13 DEF Inv

LEMMA RecoverKeeps ==
    ASSUME Typed, NEW r \in Request, Inv(r), Recover(r)
    PROVE  Typed' /\ Inv(r)' /\ OthersSame(r)
<1> DEFINE f == RecoveredRow(exec[r])
<1>1. exec[r] \in Execution /\ RowOK(exec[r]) /\ exec[r].state = "open"
      /\ Len(exec[r].attempts) \in Nat
    BY RowIs, CustodyAssumption DEF Typed, Inv, RowInv, Recover
<1>2. /\ Legal(exec[r], f) /\ f.state # "open" /\ Len(f.attempts) = Len(exec[r].attempts)
      /\ \A i \in 1..Len(exec[r].attempts) :
               f.attempts[i] \in Observed \/ exec[r].attempts[i] \in Observed
            => f.attempts[i] = exec[r].attempts[i]
    BY <1>1, RecoveredRowIs DEF Observed
<1>3. \A i \in sent[r] : /\ i \in 1..Len(exec[r].attempts) /\ exec[r].attempts[i] \in Intent
                         /\ f.attempts[i] \in Intent /\ f.attempts[i] # "dispatched"
                         /\ f.attempts[i] \in Observed <=> exec[r].attempts[i] \in Observed
                        
                         /\ exec[r].attempts[i] \in Observed => f.attempts[i] = exec[r].attempts[i]
    BY <1>1, <1>2, RecoveredRowIs DEF Inv, SentInv, Intent, Observed, RowOK, Closed
<1>4. \A i \in 1..MaxAttempts : seen[r][i] \in Observed \cup {None}
    BY DEF Typed
<1>5. sent[r] # {} => f.state \notin Unsent
    BY <1>1, <1>3, RecoveredRowIs DEF Unsent
<1>6. tracker[r].id # 0 => tracker[r].id \in 1..Len(exec[r].attempts)
    BY <1>1 DEF Inv, TrackerInv
<1>7. f.attempts = <<>> => exec[r].attempts = <<>>
    BY <1>1, <1>2 DEF Legal
<1>8. tracker[r].evidence \in Observed \cup {None}
    BY DEF Typed, Tracker
<1>9. /\ UNCHANGED <<ref, phase, pipelineFailed, tracker, future, job, owned, queue,
                     generations, slots, flight, leased, full, sent, seen, delivered>>
      /\ flight[r] = None
    BY DEF Recover, Commit, registry, history, process
<1>10. /\ exec' = [exec EXCEPT ![r] = f]
    BY <1>1, <1>2, <1>3, <1>4, <1>5, <1>6, <1>7, <1>8 DEF Recover, Commit
<1> HIDE DEF f
<1>11. /\ exec'[r] = f
    BY <1>10 DEF Typed
<1>12. Typed'
    BY <1>1, <1>2, <1>3, <1>4, <1>5, <1>6, <1>7, <1>8, <1>9, <1>10 DEF Typed, Legal
<1>13. OthersSame(r)
    BY <1>9, <1>10 DEF OthersSame, Same, Typed
<1>14. EntryInv(r)'
    BY <1>9 DEF Inv, EntryInv
<1>15. RowInv(r)'
    BY <1>9, <1>11, <1>2 DEF Inv, RowInv, FlightOK, Legal
<1>16. PhaseInv(r)'
    BY <1>9, <1>11, <1>1 DEF Inv, PhaseInv
<1>17. TrackerInv(r)'
    BY <1>9, <1>11, <1>2 DEF Inv, TrackerInv
<1>18. SentInv(r)'
    BY <1>9, <1>11, <1>2, <1>3, <1>5 DEF Inv, SentInv
<1>19. SeenInv(r)'
    BY <1>9, <1>11, <1>3, <1>4 DEF Inv, SeenInv
<1>20. StoredInv(r)'
    BY <1>9, <1>11, <1>2 DEF Inv, StoredInv
<1>21. EvidenceInv(r)'
    BY <1>9, <1>11, <1>1, <1>2, <1>6 DEF Inv, EvidenceInv, TrackerInv
<1>22. ReadInv(r)'
    BY <1>9, <1>11, <1>2, <1>3, <1>6, <1>7, <1>8 DEF Inv, ReadInv, HasEvidence
<1>23. RetiredInv(r)'
    BY <1>9, <1>11, <1>1, <1>2, <1>3, <1>4 DEF Inv, RetiredInv, Retired, SeenInv
<1>24. DeliveredInv(r)'
    BY <1>9, <1>11, <1>1 DEF Inv, DeliveredInv
<1>25. QED
    BY <1>12, <1>13, <1>14, <1>15, <1>16, <1>17, <1>18, <1>19, <1>20, <1>21, <1>22,
       <1>23, <1>24 DEF Inv

LEMMA ResolveKeeps ==
    ASSUME Typed, NEW r \in Request, Inv(r), Resolve(r)
    PROVE  Typed' /\ Inv(r)' /\ OthersSame(r)
<1> DEFINE f == ResolvedRow(exec[r])
<1>1. exec[r] \in Execution /\ RowOK(exec[r]) /\ exec[r].state = "unknown"
      /\ Len(exec[r].attempts) \in Nat
    BY RowIs, CustodyAssumption DEF Typed, Inv, RowInv, Resolve
<1>2. /\ Legal(exec[r], f) /\ f.state # "open" /\ Len(f.attempts) = Len(exec[r].attempts)
      /\ \A i \in 1..Len(exec[r].attempts) :
               f.attempts[i] \in Observed \/ exec[r].attempts[i] \in Observed
            => f.attempts[i] = exec[r].attempts[i]
    BY <1>1, ResolvedRowIs DEF Observed
<1>3. \A i \in sent[r] : /\ i \in 1..Len(exec[r].attempts) /\ exec[r].attempts[i] \in Intent
                         /\ f.attempts[i] \in Intent /\ f.attempts[i] # "dispatched"
                         /\ f.attempts[i] \in Observed <=> exec[r].attempts[i] \in Observed
                        
                         /\ exec[r].attempts[i] \in Observed => f.attempts[i] = exec[r].attempts[i]
    BY <1>1, <1>2, ResolvedRowIs DEF Inv, SentInv, Intent, Observed, RowOK, Closed
<1>4. \A i \in 1..MaxAttempts : seen[r][i] \in Observed \cup {None}
    BY DEF Typed
<1>5. sent[r] # {} => f.state \notin Unsent
    BY <1>1, <1>3, ResolvedRowIs DEF Unsent
<1>6. tracker[r].id # 0 => tracker[r].id \in 1..Len(exec[r].attempts)
    BY <1>1 DEF Inv, TrackerInv
<1>7. f.attempts = <<>> => exec[r].attempts = <<>>
    BY <1>1, <1>2 DEF Legal
<1>8. tracker[r].evidence \in Observed \cup {None}
    BY DEF Typed, Tracker
<1>9. /\ UNCHANGED <<ref, phase, pipelineFailed, tracker, future, job, owned, queue,
                     generations, slots, flight, leased, full, sent, seen, delivered>>
      /\ flight[r] = None
    BY DEF Resolve, Commit, registry, history, process
<1>10. /\ exec' = [exec EXCEPT ![r] = f]
    BY <1>1, <1>2, <1>3, <1>4, <1>5, <1>6, <1>7, <1>8 DEF Resolve, Commit
<1> HIDE DEF f
<1>11. /\ exec'[r] = f
    BY <1>10 DEF Typed
<1>12. Typed'
    BY <1>1, <1>2, <1>3, <1>4, <1>5, <1>6, <1>7, <1>8, <1>9, <1>10 DEF Typed, Legal
<1>13. OthersSame(r)
    BY <1>9, <1>10 DEF OthersSame, Same, Typed
<1>14. EntryInv(r)'
    BY <1>9 DEF Inv, EntryInv
<1>15. RowInv(r)'
    BY <1>9, <1>11, <1>2 DEF Inv, RowInv, FlightOK, Legal
<1>16. PhaseInv(r)'
    BY <1>9, <1>11, <1>1 DEF Inv, PhaseInv
<1>17. TrackerInv(r)'
    BY <1>9, <1>11, <1>2 DEF Inv, TrackerInv
<1>18. SentInv(r)'
    BY <1>9, <1>11, <1>2, <1>3, <1>5 DEF Inv, SentInv
<1>19. SeenInv(r)'
    BY <1>9, <1>11, <1>3, <1>4 DEF Inv, SeenInv
<1>20. StoredInv(r)'
    BY <1>9, <1>11, <1>2 DEF Inv, StoredInv
<1>21. EvidenceInv(r)'
    BY <1>9, <1>11, <1>1, <1>2, <1>6 DEF Inv, EvidenceInv, TrackerInv
<1>22. ReadInv(r)'
    BY <1>9, <1>11, <1>2, <1>3, <1>6, <1>7, <1>8 DEF Inv, ReadInv, HasEvidence
<1>23. RetiredInv(r)'
    BY <1>9, <1>11, <1>1, <1>2, <1>3, <1>4 DEF Inv, RetiredInv, Retired, SeenInv
<1>24. DeliveredInv(r)'
    BY <1>9, <1>11, <1>1 DEF Inv, DeliveredInv
<1>25. QED
    BY <1>12, <1>13, <1>14, <1>15, <1>16, <1>17, <1>18, <1>19, <1>20, <1>21, <1>22,
       <1>23, <1>24 DEF Inv

\* The head of the queue leaves it for a visit, or goes to the back.
LEMMA VisitKeeps ==
    ASSUME Typed, \A r \in Request : Inv(r), QueueInv, Visit
    PROVE  Typed' /\ \A r \in Request : Inv(r)'
<1> DEFINE h == Head(queue)
<1>1. h \in Request /\ Tail(queue) \in Seq(Request) /\ Rotated \in Seq(Request)
      /\ 1 \in 1..Len(queue) /\ h = queue[1]
    BY DEF Typed, Visit, Rotated
<1>2. UNCHANGED <<ref, phase, pipelineFailed, tracker, future, owned, generations, slots,
                  exec, flight, leased, full, sent, seen, delivered>>
    BY DEF Visit, history
<1>3. CASE ref[h] = "dropped"
  <2>1. job' = [job EXCEPT ![h] = [job[h] EXCEPT !.at = "start"]] /\ queue' = Tail(queue)
    BY <1>3, <1>1 DEF Visit, Quiescent, Enter, Typed
  <2>2. owned[h] # None /\ job[h].at = "idle" /\ job[h] \in Job
    BY <1>1, <1>3 DEF QueueInv, Queued, Typed
  <2> DEFINE j == [job[h] EXCEPT !.at = "start"]
  <2>3. j \in Job /\ j.at = "start" /\ j.success = job[h].success
    BY <2>2 DEF Job
  <2> HIDE DEF j
  <2>4. job' = [job EXCEPT ![h] = j] /\ job'[h] = j
    BY <1>1, <2>1 DEF Typed, j
  <2>5. Typed'
    BY <1>1, <1>2, <2>1, <2>3, <2>4 DEF Typed
  <2>6. OthersSame(h)
    BY <1>1, <1>2, <2>4 DEF OthersSame, Same, Typed
  <2>7. ASSUME NEW r \in Request, r = h
        PROVE  Inv(r)'
    <3>1. Inv(r) /\ ref[r] = "dropped" /\ job[r].at = "idle" /\ owned[r] # None
          /\ job'[r] = j
        BY <1>3, <2>2, <2>4, <2>7
    <3>2. RowInv(r)' /\ SentInv(r)' /\ SeenInv(r)' /\ StoredInv(r)' /\ EvidenceInv(r)'
          /\ RetiredInv(r)'
        BY <1>2, <3>1 DEF Inv, RowInv, FlightOK, SentInv, SeenInv, StoredInv, EvidenceInv,
           RetiredInv, Retired
    <3>3. PhaseInv(r)' /\ EntryInv(r)'
        BY <1>2, <3>1, <2>3, <2>7 DEF Inv, PhaseInv, EntryInv
    <3>4. TrackerInv(r)'
        BY <1>2, <3>1, <2>3 DEF Inv, TrackerInv
    <3>5. ReadInv(r)' /\ DeliveredInv(r)'
        BY <1>2, <3>1, <2>3 DEF Inv, ReadInv, DeliveredInv
    <3>6. QED
        BY <3>2, <3>3, <3>4, <3>5 DEF Inv
  <2>8. ASSUME NEW r \in Request, r # h
        PROVE  Inv(r)'
    BY <2>6, <2>8, SameKeeps DEF OthersSame
  <2>9. QED
    BY <2>5, <2>7, <2>8
<1>4. CASE ref[h] # "dropped"
  <2>1. UNCHANGED job /\ queue' = Rotated
    BY <1>4 DEF Visit, Quiescent
  <2>2. Typed'
    BY <1>1, <1>2, <2>1 DEF Typed
  <2>3. \A r \in Request : Same(r)
    BY <1>2, <2>1 DEF Same
  <2>4. QED
    BY <2>2, <2>3, SameKeeps
<1>5. QED
    BY <1>3, <1>4

\* The lease ends.
LEMMA ExpireKeeps ==
    ASSUME Typed, \A r \in Request : Inv(r), Expire
    PROVE  Typed' /\ \A r \in Request : Inv(r)'
<1>1. Typed' /\ \A r \in Request : Same(r)
    BY DEF Expire, Typed, Same, process, registry, history
<1>2. QED
    BY <1>1, SameKeeps

\* The backlog of an episode fills, or is projected.
LEMMA BacklogKeeps ==
    ASSUME Typed, \A r \in Request : Inv(r), NEW s \in Request, Fill(s) \/ Project(s)
    PROVE  Typed' /\ \A r \in Request : Inv(r)'
<1>1. Typed' /\ \A r \in Request : Same(r)
    BY DEF Fill, Project, Typed, Same, process, registry, history
<1>2. QED
    BY <1>1, SameKeeps

\* One request's step leaves the invariants of the others alone.
LEMMA RestKeeps ==
    ASSUME \A s \in Request : Inv(s), NEW r \in Request, Typed' /\ Inv(r)' /\ OthersSame(r)
    PROVE  Typed' /\ \A s \in Request : Inv(s)'
    BY SameKeeps DEF OthersSame

\* The invariant holds at first.
LEMMA InitKeeps ==
    ASSUME Init
    PROVE  Typed /\ \A r \in Request : Inv(r)
<1>1. Free \in Tracker /\ Free.occupied = FALSE /\ Free.id = 0 /\ Free.evidence = None
    BY CustodyAssumption DEF Free, Tracker
<1>2. NoFuture \in Future /\ NoFuture.at = "none"
    BY DEF NoFuture, Future
<1>3. Idle \in Job /\ Idle.at = "idle" /\ ~ Idle.success
    BY DEF Idle, Job
<1> DEFINE e == [state |-> "absent", attempts |-> <<>>]
<1>4. e \in Execution /\ e.state = "absent" /\ e.attempts = <<>> /\ Len(e.attempts) = 0
  <2>1. <<>> \in [1..0 -> AttemptState] /\ 0 \in 0..MaxAttempts
    BY CustodyAssumption
  <2>2. e \in Execution
    BY <2>1, MakeRow DEF State
  <2>3. QED
    BY <2>2
<1> HIDE DEF e
<1>5. Typed
  <2>1. [i \in 1..MaxAttempts |-> None] \in [1..MaxAttempts -> Observed \cup {None}]
    OBVIOUS
  <2>2. /\ ref \in [Request -> {"new", "held", "dropped"}]
        /\ phase \in [Request -> {"NotStarted", "UnknownAck", "Accepted", "NotAccepted"}]
        /\ pipelineFailed \in [Request -> BOOLEAN]
        /\ tracker \in [Request -> Tracker]
        /\ future \in [Request -> Future]
        /\ job \in [Request -> Job]
        /\ owned \in [Request -> Generation \cup {None}]
    BY <1>1, <1>2, <1>3 DEF Init
  <2>3. /\ queue \in Seq(Request)
        /\ generations \in [Generation -> Int]
        /\ slots \in Int
        /\ flight \in [Request -> Execution \cup {None}]
        /\ leased \in BOOLEAN /\ full \subseteq Episodic
        /\ sent \in [Request -> SUBSET (1..MaxAttempts)]
        /\ delivered \in SUBSET Request
    BY CustodyAssumption DEF Init
  <2>4. exec \in [Request -> Execution]
    BY <1>4 DEF Init, e
  <2>5. seen \in [Request -> [1..MaxAttempts -> Observed \cup {None}]]
    BY <2>1 DEF Init
  <2>6. QED
    BY <2>2, <2>3, <2>4, <2>5 DEF Typed
<1>6. ASSUME NEW r \in Request
      PROVE  Inv(r)
  <2>1. /\ ref[r] = "new" /\ phase[r] = "NotStarted" /\ tracker[r] = Free
        /\ future[r] = NoFuture /\ job[r] = Idle /\ owned[r] = None /\ exec[r] = e
        /\ flight[r] = None /\ sent[r] = {} /\ delivered = {}
    BY DEF Init, e
  <2>2. \A i \in 1..MaxAttempts : seen[r][i] = None
    BY DEF Init
  <2>3. RowInv(r) /\ PhaseInv(r) /\ EntryInv(r) /\ TrackerInv(r) /\ SentInv(r)
    BY <1>1, <1>2, <1>3, <1>4, <2>1
       DEF RowInv, FlightOK, RowOK, PhaseInv, EntryInv, TrackerInv, SentInv
  <2>4. SeenInv(r) /\ StoredInv(r) /\ EvidenceInv(r) /\ ReadInv(r) /\ RetiredInv(r)
        /\ DeliveredInv(r)
    BY <1>1, <1>2, <1>3, <1>4, <2>1, <2>2
       DEF SeenInv, StoredInv, EvidenceInv, ReadInv, RetiredInv, Retired, DeliveredInv
  <2>5. QED
    BY <2>3, <2>4 DEF Inv
<1>7. QED
    BY <1>5, <1>6

-----------------------------------------------------------------------------
\* The registry: the queue and the counters.

\* What a step of a request does to the registry: nothing, or it takes an
\* entry in, or puts it back into the queue, or gives it back.
EntryStep(r) ==
    \/ UNCHANGED registry /\ (Queued(r)' <=> Queued(r))
    \/ Reserve(r)
    \/ /\ ~ Queued(r) /\ Queued(r)'
       /\ Requeue(r)
       /\ UNCHANGED <<owned, generations, slots>>
    \/ owned[r] # None /\ ~ Queued(r) /\ Retire(r)

\* A job that gives up leaves the entry in the queue, or puts it back.
LEMMA GiveUpMoves ==
    ASSUME Typed, NEW r \in Request, Inv(r), job[r].at # "idle", GiveUp(r), UNCHANGED ref
    PROVE  EntryStep(r)
<1>1. owned[r] # None /\ ref[r] \in {"held", "dropped"} /\ job \in [Request -> Job]
    BY DEF Typed, Inv, EntryInv
<1>2. CASE ref[r] = "held"
  <2>1. UNCHANGED registry /\ UNCHANGED owned
    BY <1>2 DEF GiveUp, registry
  <2>2. QED
    BY <1>1, <1>2, <2>1 DEF EntryStep, Queued
<1>3. CASE ref[r] = "dropped"
  <2>1. /\ job' = [job EXCEPT ![r] = Idle] /\ Requeue(r)
        /\ UNCHANGED <<owned, generations, slots>>
    BY <1>3 DEF GiveUp
  <2>2. job'[r].at = "idle"
    BY <1>1, <2>1 DEF Idle
  <2>3. QED
    BY <1>1, <1>3, <2>1, <2>2 DEF EntryStep, Queued
<1>4. QED
    BY <1>1, <1>2, <1>3

\* A step that leaves the registry alone.
LEMMA EntryStays ==
    ASSUME Typed, NEW r \in Request, Inv(r), UNCHANGED registry,
           \/ ref'[r] = ref[r] /\ job'[r] = job[r]
           \/ ref[r] = "held" /\ (ref'[r] = "dropped" => job'[r].at = "idle")
           \/ UNCHANGED ref /\ job[r].at # "idle"
              /\ (ref[r] = "dropped" => job'[r].at # "idle")
    PROVE  EntryStep(r)
<1>1. UNCHANGED owned
    BY DEF registry
<1>2. QED
    BY <1>1 DEF EntryStep, Queued

\* A visitor gives the entry of its job back.
LEMMA EntryGoes ==
    ASSUME NEW r \in Request, Inv(r), job[r].at # "idle", ref[r] = "dropped", Retire(r)
    PROVE  EntryStep(r)
    BY DEF EntryStep, Queued, Inv, EntryInv

\* The steps of one request, of its jobs and of its row.
Step(r) ==
    \/ Reserve(r) \/ AdmitAccepted(r) \/ AdmitRefused(r) \/ AdmitUncertain(r)
    \/ Begin(r) \/ BeginFails(r)
    \/ Dispatch(r) \/ DispatchFails(r)
    \/ \E terminal \in Observed : Observe(r, terminal)
    \/ Persist(r) \/ PersistFails(r)
    \/ EndAttempt(r) \/ PipelineFails(r) \/ Drop(r)
    \/ ReconcileDispatch(r)
    \/ \E success \in BOOLEAN : FinishDelivery(r, success)
    \/ JobSucceeds(r) \/ JobFails(r)
    \/ TrackLost(r) \/ InterruptLost(r) \/ FinishLost(r)
    \/ LateCommit(r) \/ LateRollback(r)
    \/ Recover(r) \/ Resolve(r)

\* Every step of a request keeps its invariant and touches no other request.
LEMMA StepKeeps ==
    ASSUME Typed, NEW r \in Request, Inv(r), Step(r)
    PROVE  Typed' /\ Inv(r)' /\ OthersSame(r)
<1>1. CASE Reserve(r) \/ AdmitAccepted(r) \/ AdmitRefused(r) \/ AdmitUncertain(r)
    BY <1>1, ReserveKeeps, AdmitAcceptedKeeps, AdmitRefusedKeeps, AdmitUncertainKeeps
<1>2. CASE Begin(r) \/ BeginFails(r) \/ Dispatch(r) \/ DispatchFails(r)
    BY <1>2, BeginKeeps, BeginFailsKeeps, DispatchKeeps, DispatchFailsKeeps
<1>3. CASE \E terminal \in Observed : Observe(r, terminal)
    BY <1>3, ObserveKeeps
<1>4. CASE Persist(r) \/ PersistFails(r) \/ EndAttempt(r) \/ PipelineFails(r) \/ Drop(r)
    BY <1>4, PersistKeeps, PersistFailsKeeps, EndAttemptKeeps, PipelineFailsKeeps, DropKeeps
<1>5. CASE ReconcileDispatch(r) \/ \E success \in BOOLEAN : FinishDelivery(r, success)
    BY <1>5, ReconcileDispatchKeeps, FinishDeliveryKeeps
<1>6. CASE JobSucceeds(r)
    BY <1>6, StartKeeps, TrackKeeps, InterruptKeeps, ReadKeeps, FinishKeeps DEF JobSucceeds
<1>7. CASE JobFails(r) \/ TrackLost(r) \/ InterruptLost(r) \/ FinishLost(r)
    BY <1>7, JobFailsKeeps, TrackLostKeeps, InterruptLostKeeps, FinishLostKeeps
<1>8. CASE LateCommit(r) \/ LateRollback(r) \/ Recover(r) \/ Resolve(r)
    BY <1>8, LateCommitKeeps, LateRollbackKeeps, RecoverKeeps, ResolveKeeps
<1>9. QED
    BY <1>1, <1>2, <1>3, <1>4, <1>5, <1>6, <1>7, <1>8 DEF Step

\* What each action does to the registry.
LEMMA StepMoves ==
    ASSUME Typed, NEW r \in Request, Inv(r), Step(r)
    PROVE  EntryStep(r)
<1>1. ref \in [Request -> {"new", "held", "dropped"}] /\ job \in [Request -> Job]
    BY DEF Typed
<1>2. job[r].at # "idle" => ref[r] \in {"held", "dropped"}
    BY <1>1 DEF Inv, EntryInv
<1>3. CASE Reserve(r)
    BY <1>3 DEF EntryStep
<1>4. CASE \/ AdmitAccepted(r) \/ Begin(r) \/ BeginFails(r) \/ Dispatch(r) \/ DispatchFails(r)
           \/ Persist(r) \/ PersistFails(r) \/ EndAttempt(r) \/ PipelineFails(r)
           \/ \E terminal \in Observed : Observe(r, terminal)
  <2>1. UNCHANGED <<ref, job, registry>>
    BY <1>4 DEF AdmitAccepted, Begin, BeginFails, Dispatch, DispatchFails, Persist,
       PersistFails, EndAttempt, PipelineFails, Observe
  <2>2. UNCHANGED registry /\ ref'[r] = ref[r] /\ job'[r] = job[r]
    BY <2>1
  <2>3. QED
    BY <2>2, EntryStays
<1>5. CASE AdmitRefused(r) \/ AdmitUncertain(r) \/ Drop(r)
  <2>1. UNCHANGED registry /\ ref[r] = "held" /\ job'[r].at = "idle"
    BY <1>1, <1>5 DEF AdmitRefused, AdmitUncertain, Admitting, Held, Drop, Idle
  <2>2. QED
    BY <2>1, EntryStays
<1>6. CASE ReconcileDispatch(r) \/ \E success \in BOOLEAN : FinishDelivery(r, success)
  <2>1. UNCHANGED <<ref, registry>> /\ ref[r] = "held"
    BY <1>6 DEF ReconcileDispatch, FinishDelivery, Held
  <2>2. QED
    BY <2>1, EntryStays
<1>7. CASE Start(r)
  <2>1. UNCHANGED ref /\ ref[r] = "dropped" /\ job[r].at = "start"
    BY <1>1, <1>2, <1>7 DEF Start, Inv, EntryInv
  <2>2. Retire(r) \/ (Enter(r, "track") /\ UNCHANGED registry)
    BY <1>7 DEF Start
  <2>3. Enter(r, "track") => job'[r].at = "track"
    BY <1>1 DEF Enter, Job
  <2>4. QED
    BY <2>1, <2>2, <2>3, EntryGoes, EntryStays
<1>8. CASE Track(r)
  <2>1. UNCHANGED ref /\ UNCHANGED registry /\ job[r].at = "track"
    BY <1>8 DEF Track
  <2>2. ref[r] = "dropped" => Tracked(r) = "read"
    BY DEF Tracked
  <2>3. ref[r] = "dropped" => job'[r].at \in {"read", "interrupt"}
    BY <1>1, <1>8, <2>2 DEF Track, Enter, Job
  <2>4. QED
    BY <2>1, <2>3, EntryStays
<1>9. CASE Interrupt(r)
  <2>1. UNCHANGED ref /\ UNCHANGED registry /\ job[r].at = "interrupt"
    BY <1>9 DEF Interrupt
  <2>2. ref[r] = "dropped" => job'[r].at = "read"
    BY <1>1, <1>9 DEF Interrupt, Tracked, Job
  <2>3. QED
    BY <2>1, <2>2, EntryStays
<1>10. CASE Read(r)
  <2>1. UNCHANGED ref /\ job[r].at = "read"
    BY <1>10 DEF Read
  <2>2. \/ ref[r] = "dropped" /\ Retire(r)
        \/ job'[r].at \in {"done", "finish"} /\ UNCHANGED registry
    BY <1>1, <1>10 DEF Read, Job
  <2>3. QED
    BY <2>1, <2>2, EntryGoes, EntryStays
<1>11. CASE Finish(r)
  <2>1. UNCHANGED ref /\ job[r].at = "finish"
    BY <1>11 DEF Finish
  <2>2. \/ ref[r] = "held" /\ UNCHANGED registry
        \/ ref[r] = "dropped" /\ Retire(r)
    BY <1>2, <1>11, <2>1 DEF Finish
  <2>3. QED
    BY <2>1, <2>2, EntryGoes, EntryStays
<1>12. CASE JobFails(r) \/ TrackLost(r) \/ InterruptLost(r) \/ FinishLost(r)
  <2>1. UNCHANGED ref /\ GiveUp(r) /\ job[r].at # "idle"
    BY <1>12 DEF JobFails, TrackLost, InterruptLost, FinishLost
  <2>2. QED
    BY <2>1, GiveUpMoves
<1>13. CASE LateCommit(r) \/ LateRollback(r) \/ Recover(r) \/ Resolve(r)
  <2>1. UNCHANGED <<ref, job, registry>>
    BY <1>13 DEF LateCommit, LateRollback, Recover, Resolve, process
  <2>2. UNCHANGED registry /\ ref'[r] = ref[r] /\ job'[r] = job[r]
    BY <2>1
  <2>3. QED
    BY <2>2, EntryStays
<1>14. QED
    BY <1>3, <1>4, <1>5, <1>6, <1>7, <1>8, <1>9, <1>10, <1>11, <1>12, <1>13
       DEF Step, JobSucceeds

\* The queue and who belongs into it stay the same.
LEMMA QueueStays ==
    ASSUME QueueInv, NEW r \in Request, OthersSame(r), UNCHANGED queue, Queued(r)' <=> Queued(r)
    PROVE  QueueInv'
<1>1. \A s \in Request : Queued(s)' <=> Queued(s)
    BY DEF OthersSame, Same, Queued
<1>2. QED
    BY <1>1 DEF QueueInv, Queued

\* An entry that belongs into the queue is put at its end.
LEMMA QueueAppended ==
    ASSUME Typed, QueueInv, NEW r \in Request, OthersSame(r), queue' = Append(queue, r),
           ~ Queued(r), Queued(r)'
    PROVE  QueueInv'
<1> DEFINE n == Len(queue)
<1>1. /\ n \in Nat /\ Len(queue') = n + 1 /\ queue'[n + 1] = r
      /\ \A k \in 1..n : queue'[k] = queue[k]
    BY DEF Typed
<1>2. \A k \in 1..n : queue[k] # r
    BY DEF QueueInv, Queued
<1>3. \A j, k \in 1..Len(queue') : queue'[j] = queue'[k] => j = k
    BY <1>1, <1>2 DEF QueueInv
<1>4. ASSUME NEW s \in Request
      PROVE  (\E k \in 1..Len(queue') : queue'[k] = s) <=> Queued(s)'
  <2>1. CASE s = r
    BY <1>1, <2>1
  <2>2. CASE s # r
    <3>1. Queued(s)' <=> Queued(s)
        BY <2>2 DEF OthersSame, Same, Queued
    <3>2. Queued(s) <=> \E k \in 1..n : queue[k] = s
        BY DEF QueueInv, Queued
    <3>3. (\E k \in 1..Len(queue') : queue'[k] = s) <=> \E k \in 1..n : queue[k] = s
        BY <1>1, <2>2
    <3>4. QED
        BY <3>1, <3>2, <3>3
  <2>3. QED
    BY <2>1, <2>2
<1>5. QED
    BY <1>3, <1>4 DEF QueueInv, Queued

\* The head of the queue is with a visitor now.
LEMMA QueueTaken ==
    ASSUME Typed, QueueInv, queue # <<>>, NEW h \in Request, h = Head(queue), OthersSame(h),
           queue' = Tail(queue), ~ Queued(h)'
    PROVE  QueueInv'
<1> DEFINE n == Len(queue)
<1>1. /\ n \in Nat /\ n > 0 /\ Len(queue') = n - 1 /\ queue[1] = h
      /\ \A k \in 1..(n - 1) : queue'[k] = queue[k + 1]
    BY DEF Typed
<1>2. \A k \in 1..n : queue[k] = h => k = 1
    BY <1>1 DEF QueueInv
<1>3. \A j, k \in 1..Len(queue') : queue'[j] = queue'[k] => j = k
  <2>1. TAKE j, k \in 1..Len(queue')
  <2>2. j + 1 \in 1..n /\ k + 1 \in 1..n /\ queue'[j] = queue[j + 1]
        /\ queue'[k] = queue[k + 1]
    BY <1>1
  <2>3. queue[j + 1] = queue[k + 1] => j + 1 = k + 1
    BY <2>2 DEF QueueInv
  <2>4. QED
    BY <1>1, <2>2, <2>3
<1>4. ASSUME NEW s \in Request
      PROVE  (\E k \in 1..Len(queue') : queue'[k] = s) <=> Queued(s)'
  <2>1. CASE s = h
    <3>1. ASSUME NEW k \in 1..Len(queue'), queue'[k] = h
          PROVE  FALSE
      <4>1. k + 1 \in 1..n /\ queue[k + 1] = h /\ k + 1 # 1
        BY <1>1, <3>1
      <4>2. QED
        BY <1>2, <4>1
    <3>2. QED
        BY <2>1, <3>1
  <2>2. CASE s # h
    <3>1. Queued(s)' <=> Queued(s)
        BY <2>2 DEF OthersSame, Same, Queued
    <3>2. Queued(s) <=> \E k \in 1..n : queue[k] = s
        BY DEF QueueInv, Queued
    <3>3. ASSUME NEW k \in 1..Len(queue'), queue'[k] = s
          PROVE  \E i \in 1..n : queue[i] = s
      <4>1. k + 1 \in 1..n /\ queue[k + 1] = s
        BY <1>1, <3>3
      <4>2. QED
        BY <4>1
    <3>4. ASSUME NEW i \in 1..n, queue[i] = s
          PROVE  \E k \in 1..Len(queue') : queue'[k] = s
      <4>1. i # 1 /\ i - 1 \in 1..Len(queue') /\ (i - 1) + 1 = i
        BY <1>1, <2>2, <3>4
      <4>2. queue'[i - 1] = s
        BY <1>1, <3>4, <4>1
      <4>3. QED
        BY <4>1, <4>2
    <3>5. QED
        BY <3>1, <3>2, <3>3, <3>4
  <2>3. QED
    BY <2>1, <2>2
<1>5. QED
    BY <1>3, <1>4 DEF QueueInv, Queued

\* A live entry goes from the head to the end.
LEMMA QueueRotated ==
    ASSUME Typed, QueueInv, queue # <<>>, queue' = Rotated, \A s \in Request : Same(s)
    PROVE  QueueInv'
<1> DEFINE n == Len(queue)
           h == Head(queue)
<1>1. /\ n \in Nat /\ n > 0 /\ queue[1] = h /\ h \in Request
      /\ Tail(queue) \in Seq(Request) /\ Len(Tail(queue)) = n - 1
      /\ \A k \in 1..(n - 1) : Tail(queue)[k] = queue[k + 1]
    BY DEF Typed
<1>2. /\ Len(queue') = n /\ queue'[n] = h
      /\ \A k \in 1..(n - 1) : queue'[k] = queue[k + 1]
    BY <1>1 DEF Rotated
<1> HIDE DEF h
<1>3. n \in Nat /\ n > 0 /\ queue[1] = h
    BY <1>1
<1>4. \A k \in 1..n : k # n => k + 1 \in 1..n /\ k + 1 # 1 /\ k \in 1..(n - 1)
    BY <1>3
<1>5. \A j, k \in 1..n : queue'[j] = queue'[k] => j = k
  <2>1. TAKE j, k \in 1..n
  <2>2. j # n => j + 1 \in 1..n /\ queue'[j] = queue[j + 1] /\ j + 1 # 1
    BY <1>2, <1>4
  <2>3. k # n => k + 1 \in 1..n /\ queue'[k] = queue[k + 1] /\ k + 1 # 1
    BY <1>2, <1>4
  <2>4. 1 \in 1..n
    BY <1>1
  <2>5. \A a, b \in 1..n : queue[a] = queue[b] => a = b
    BY DEF QueueInv
  <2>6. QED
    BY <1>3, <1>2, <2>2, <2>3, <2>4, <2>5
<1>6. ASSUME NEW s \in Request
      PROVE  (\E k \in 1..n : queue'[k] = s) <=> Queued(s)'
  <2>1. Queued(s)' <=> Queued(s)
    BY DEF Same, Queued
  <2>2. Queued(s) <=> \E k \in 1..n : queue[k] = s
    BY DEF QueueInv, Queued
  <2>3. ASSUME NEW k \in 1..n, queue'[k] = s
        PROVE  \E i \in 1..n : queue[i] = s
    <3>1. CASE k = n
        BY <1>3, <1>2, <2>3, <3>1
    <3>2. CASE k # n
      <4>1. k + 1 \in 1..n /\ queue[k + 1] = s
        BY <1>2, <1>4, <2>3, <3>2
      <4>2. QED
        BY <4>1
    <3>3. QED
        BY <3>1, <3>2
  <2>4. ASSUME NEW i \in 1..n, queue[i] = s
        PROVE  \E k \in 1..n : queue'[k] = s
    <3>1. CASE i = 1
        BY <1>3, <1>2, <2>4, <3>1
    <3>2. CASE i # 1
      <4>1. i - 1 \in 1..(n - 1) /\ (i - 1) + 1 = i /\ i - 1 \in 1..n
        BY <1>1, <3>2
      <4>2. queue'[i - 1] = s
        BY <1>2, <2>4, <4>1
      <4>3. QED
        BY <4>1, <4>2
    <3>3. QED
        BY <3>1, <3>2
  <2>5. QED
    BY <2>1, <2>2, <2>3, <2>4
<1>7. QED
    BY <1>2, <1>5, <1>6 DEF QueueInv, Queued

\* The entries that a generation owns.
OwnedBy(g) == {r \in Request : owned[r] = g}

\* The counters of the registry.
Counted ==
    /\ IsFiniteSet(Entries)
    /\ slots \in Nat
    /\ slots + Cardinality(Entries) = Limit
    /\ \A g \in Generation : generations[g] = Cardinality(OwnedBy(g))

\* A generation owns finitely many entries.
LEMMA OwnedIsFinite ==
    ASSUME IsFiniteSet(Entries), NEW g \in Generation
    PROVE  /\ IsFiniteSet(OwnedBy(g)) /\ Cardinality(OwnedBy(g)) \in Nat
           /\ Cardinality(OwnedBy(g)) <= Cardinality(Entries)
<1>1. OwnedBy(g) \in SUBSET Entries
    BY CustodyAssumption DEF OwnedBy, Entries
<1>2. QED
    BY <1>1, FS_Subset, FS_CardinalityType

\* Nothing is counted.
LEMMA CountedStays ==
    ASSUME Counted, UNCHANGED <<owned, generations, slots>>
    PROVE  Counted'
    BY DEF Counted, Entries, OwnedBy

\* reserve_for takes a slot and counts the entry.
LEMMA CountedUp ==
    ASSUME Typed, Counted, NEW r \in Request, Inv(r), Reserve(r)
    PROVE  Counted'
<1> DEFINE g == GenerationOf[r]
<1>1. g \in Generation /\ g # None /\ owned[r] = None
    BY CustodyAssumption DEF Reserve, Inv, EntryInv
<1>2. owned' = [owned EXCEPT ![r] = g] /\ slots' = slots - 1
      /\ generations' = [generations EXCEPT ![g] = @ + 1]
    BY DEF Reserve
<1>3. slots' \in Nat
    BY DEF Reserve, Counted
<1> HIDE DEF g
<1>4. Entries' = Entries \cup {r} /\ r \notin Entries
    BY <1>1, <1>2 DEF Entries, Typed
<1>5. IsFiniteSet(Entries') /\ Cardinality(Entries') = Cardinality(Entries) + 1
      /\ Cardinality(Entries) \in Nat
    BY <1>4, FS_AddElement, FS_CardinalityType DEF Counted
<1>6. slots' + Cardinality(Entries') = Limit
    BY <1>2, <1>5, CustodyAssumption DEF Typed, Counted
<1>7. ASSUME NEW k \in Generation
      PROVE  generations'[k] = Cardinality(OwnedBy(k)')
  <2>1. IsFiniteSet(OwnedBy(k)) /\ generations[k] = Cardinality(OwnedBy(k))
    BY OwnedIsFinite DEF Counted
  <2>2. CASE k = g
    <3>1. OwnedBy(k)' = OwnedBy(k) \cup {r} /\ r \notin OwnedBy(k)
        BY <1>1, <1>2, <2>2 DEF OwnedBy, Typed
    <3>2. Cardinality(OwnedBy(k)') = Cardinality(OwnedBy(k)) + 1
        BY <2>1, <3>1, FS_AddElement
    <3>3. QED
        BY <1>1, <1>2, <2>1, <2>2, <3>2 DEF Typed
  <2>3. CASE k # g
    <3>1. OwnedBy(k)' = OwnedBy(k)
        BY <1>1, <1>2, <2>3, CustodyAssumption DEF OwnedBy, Typed
    <3>2. QED
        BY <1>1, <1>2, <2>1, <2>3, <3>1 DEF Typed
  <2>4. QED
    BY <2>2, <2>3
<1>8. QED
    BY <1>5, <1>6, <1>7, <1>3 DEF Counted

\* retire gives the slot back and counts the entry off.
LEMMA CountedDown ==
    ASSUME Typed, Counted, NEW r \in Request, owned[r] # None, Retire(r)
    PROVE  Counted'
<1> DEFINE g == owned[r]
<1>1. g \in Generation /\ g # None
    BY DEF Typed
<1>2. owned' = [owned EXCEPT ![r] = None] /\ slots' = slots + 1
      /\ generations' = [generations EXCEPT ![g] = @ - 1]
    BY DEF Retire
<1>3. slots' \in Nat
    BY <1>2 DEF Counted
<1>4. Entries' = Entries \ {r} /\ r \in Entries
    BY <1>1, <1>2 DEF Entries, Typed
<1>5. IsFiniteSet(Entries') /\ Cardinality(Entries') = Cardinality(Entries) - 1
      /\ Cardinality(Entries) \in Nat
    BY <1>4, FS_RemoveElement, FS_CardinalityType DEF Counted
<1>6. slots' + Cardinality(Entries') = Limit
    BY <1>2, <1>5, CustodyAssumption DEF Typed, Counted
<1>7. ASSUME NEW k \in Generation
      PROVE  generations'[k] = Cardinality(OwnedBy(k)')
  <2>1. IsFiniteSet(OwnedBy(k)) /\ generations[k] = Cardinality(OwnedBy(k))
    BY OwnedIsFinite DEF Counted
  <2>2. CASE k = g
    <3>1. OwnedBy(k)' = OwnedBy(k) \ {r} /\ r \in OwnedBy(k)
        BY <1>1, <1>2, <2>2 DEF OwnedBy, Typed
    <3>2. Cardinality(OwnedBy(k)') = Cardinality(OwnedBy(k)) - 1
        BY <2>1, <3>1, FS_RemoveElement
    <3>3. QED
        BY <1>1, <1>2, <2>1, <2>2, <3>2 DEF Typed
  <2>3. CASE k # g
    <3>1. OwnedBy(k)' = OwnedBy(k)
        BY <1>1, <1>2, <2>3, CustodyAssumption DEF OwnedBy, Typed
    <3>2. QED
        BY <1>1, <1>2, <2>1, <2>3, <3>1 DEF Typed
  <2>4. QED
    BY <2>2, <2>3
<1>8. QED
    BY <1>5, <1>6, <1>7, <1>3 DEF Counted

-----------------------------------------------------------------------------
\* The inductive invariant.

\* The inductive invariant of the specification.
Custody == Typed /\ (\A r \in Request : Inv(r)) /\ QueueInv /\ Counted

\* The invariant holds at first.
LEMMA CustodyInit == Init => Custody
<1> SUFFICES ASSUME Init PROVE Custody
    OBVIOUS
<1>1. Typed /\ \A r \in Request : Inv(r)
    BY InitKeeps
<1>2. QueueInv
  <2>1. Len(queue) = 0 /\ 1..0 = {} /\ \A r \in Request : owned[r] = None
    BY DEF Init
  <2>2. QED
    BY <2>1 DEF QueueInv, Queued
<1>3. Entries = {} /\ \A g \in Generation : OwnedBy(g) = {}
    BY CustodyAssumption DEF Init, Entries, OwnedBy
<1>4. slots = Limit /\ Limit \in Nat /\ \A g \in Generation : generations[g] = 0
    BY CustodyAssumption DEF Init
<1>5. Counted
    BY <1>3, <1>4, FS_EmptySet DEF Counted
<1>6. QED
    BY <1>1, <1>2, <1>5 DEF Custody

\* Every step keeps the invariant.
LEMMA CustodyStep == Custody /\ [Next]_vars => Custody'
<1> SUFFICES ASSUME Custody, [Next]_vars
             PROVE  Custody'
    OBVIOUS
<1>1. Typed /\ (\A r \in Request : Inv(r)) /\ QueueInv /\ Counted
    BY DEF Custody
<1>2. ASSUME NEW r \in Request, Step(r)
      PROVE  Custody'
  <2>1. Typed' /\ Inv(r)' /\ OthersSame(r) /\ EntryStep(r)
    BY <1>1, <1>2, StepKeeps, StepMoves
  <2>2. \A s \in Request : Inv(s)'
    BY <1>1, <2>1, RestKeeps
  <2>3. CASE UNCHANGED registry /\ (Queued(r)' <=> Queued(r))
    BY <1>1, <2>1, <2>2, <2>3, QueueStays, CountedStays DEF Custody, registry
  <2>4. CASE Reserve(r)
    <3>1. queue' = Append(queue, r) /\ ref[r] = "new"
        BY <2>4 DEF Reserve
    <3>2. owned[r] = None
        BY <1>1, <3>1 DEF Inv, EntryInv
    <3>3. /\ owned \in [Request -> Generation \cup {None}] /\ GenerationOf[r] # None
          /\ ref \in [Request -> {"new", "held", "dropped"}]
        BY <1>1, CustodyAssumption DEF Typed
    <3>4. owned'[r] # None /\ ref'[r] = "held"
        BY <2>4, <3>3 DEF Reserve
    <3>5. ~ Queued(r) /\ Queued(r)'
        BY <3>2, <3>4 DEF Queued
    <3>6. QED
        BY <1>1, <2>1, <2>2, <2>4, <3>1, <3>5, QueueAppended, CountedUp DEF Custody
  <2>5. CASE /\ ~ Queued(r) /\ Queued(r)' /\ Requeue(r)
             /\ UNCHANGED <<owned, generations, slots>>
    BY <1>1, <2>1, <2>2, <2>5, QueueAppended, CountedStays DEF Custody, Requeue
  <2>6. CASE owned[r] # None /\ ~ Queued(r) /\ Retire(r)
    <3>1. UNCHANGED queue /\ owned'[r] = None
        BY <1>1, <2>6 DEF Retire, Typed
    <3>2. ~ Queued(r)'
        BY <3>1 DEF Queued
    <3>3. QED
        BY <1>1, <2>1, <2>2, <2>6, <3>1, <3>2, QueueStays, CountedDown DEF Custody
  <2>7. QED
    BY <2>1, <2>3, <2>4, <2>5, <2>6 DEF EntryStep
<1>3. CASE Visit
  <2>1. Typed' /\ (\A r \in Request : Inv(r)') /\ UNCHANGED <<owned, generations, slots>>
    BY <1>1, <1>3, VisitKeeps DEF Visit
  <2>2. Counted'
    BY <1>1, <2>1, CountedStays
  <2>3. queue # <<>>
    BY <1>3 DEF Visit
  <2>4. UNCHANGED <<ref, phase, pipelineFailed, tracker, future, owned, exec, flight,
                    sent, seen, delivered>>
    BY <1>3 DEF Visit, history
  <2>5. PICK h \in Request : h = Head(queue)
    BY <1>1, <2>3 DEF Typed
  <2>6. CASE ref[h] = "dropped"
    <3>1. queue' = Tail(queue) /\ Enter(h, "start")
        BY <1>3, <2>5, <2>6 DEF Visit, Quiescent
    <3>2. job \in [Request -> Job]
        BY <1>1 DEF Typed
    <3>3. job' = [job EXCEPT ![h] = [job[h] EXCEPT !.at = "start"]] /\ job[h] \in Job
        BY <2>3, <3>1, <3>2 DEF Enter
    <3>4. [job[h] EXCEPT !.at = "start"].at = "start"
        BY <3>3 DEF Job
    <3>5. job'[h].at = "start" /\ \A s \in Request : s # h => job'[s] = job[s]
        BY <2>3, <3>2, <3>3, <3>4
    <3>6. OthersSame(h) /\ ~ Queued(h)'
        BY <2>3, <2>4, <2>6, <3>5 DEF OthersSame, Same, Queued
    <3>7. QED
        BY <1>1, <2>1, <2>2, <2>3, <2>5, <3>1, <3>6, QueueTaken DEF Custody
  <2>7. CASE ref[h] # "dropped"
    <3>1. queue' = Rotated /\ UNCHANGED job
        BY <1>3, <2>5, <2>7 DEF Visit, Quiescent
    <3>2. \A s \in Request : Same(s)
        BY <2>4, <3>1 DEF Same
    <3>3. QED
        BY <1>1, <2>1, <2>2, <2>3, <3>1, <3>2, QueueRotated DEF Custody
  <2>8. QED
    BY <2>6, <2>7
<1>4. CASE Expire
  <2>1. UNCHANGED <<ref, job, owned, queue, generations, slots>>
    BY <1>4 DEF Expire, process, registry
  <2>2. QueueInv' /\ Counted'
    BY <1>1, <2>1, CountedStays DEF QueueInv, Queued
  <2>3. QED
    BY <1>1, <1>4, <2>2, ExpireKeeps DEF Custody
<1>5. ASSUME NEW s \in Request, Fill(s) \/ Project(s)
      PROVE  Custody'
  <2>1. UNCHANGED <<ref, job, owned, queue, generations, slots>>
    BY <1>5 DEF Fill, Project, process, registry
  <2>2. QueueInv' /\ Counted'
    BY <1>1, <2>1, CountedStays DEF QueueInv, Queued
  <2>3. QED
    BY <1>1, <1>5, <2>2, BacklogKeeps DEF Custody
<1>6. CASE UNCHANGED vars
  <2>1. Typed' /\ (\A r \in Request : Same(r)) /\ QueueInv' /\ Counted'
    BY <1>1, <1>6, CountedStays
       DEF vars, process, registry, history, Typed, Same, QueueInv, Queued
  <2>2. QED
    BY <1>1, <2>1, SameKeeps DEF Custody
<1>7. QED
    BY <1>2, <1>3, <1>4, <1>5, <1>6 DEF Next, Step

\* Every reachable state satisfies the inductive invariant.
THEOREM CustodyHolds == Spec => []Custody
    BY CustodyInit, CustodyStep, PTL DEF Spec

\* A slot is only given back when nothing can change the execution any more:
\* it is not open, and a transaction in flight would store the same row
\* (ownership.rs, reconcile).
THEOREM RetiredIsSettledHolds == Spec => []RetiredIsSettled
<1>1. Custody => RetiredIsSettled
    BY DEF Custody, Inv, RetiredInv, RetiredIsSettled
<1>2. QED
    BY <1>1, CustodyHolds, PTL

\* Whatever future was dropped and whichever reply was lost, a terminal that
\* the provider reported is in the row of an entry that was given back
\* (dispatched.rs, Drop for Attempt).
THEOREM EvidenceKeptHolds == Spec => []EvidenceKept
<1>1. Custody => EvidenceKept
    BY DEF Custody, Inv, RetiredInv, EvidenceKept
<1>2. QED
    BY <1>1, CustodyHolds, PTL

\* No order of visits, lost replies and recoveries records an attempt that was
\* sent, or its execution, as unsent (attempts.rs, interrupt_attempts).
THEOREM SentIsNeverUnsentHolds == Spec => []SentIsNeverUnsent
<1>1. Custody => SentIsNeverUnsent
    BY DEF Custody, Inv, SentInv, SentIsNeverUnsent, Intent, Observed, Unsent
<1>2. QED
    BY <1>1, CustodyHolds, PTL

\* Success that was shown to the client is durable (admitted.rs,
\* finish_delivery).
THEOREM DeliveredIsDurableHolds == Spec => []DeliveredIsDurable
<1>1. Custody => DeliveredIsDurable
    BY DEF Custody, Typed, Inv, DeliveredInv, DeliveredIsDurable
<1>2. QED
    BY <1>1, CustodyHolds, PTL

\* An entry is in the queue once or not at all.
LEMMA CountedOnce ==
    ASSUME Custody, NEW r \in Request
    PROVE  Cardinality({k \in DOMAIN queue : queue[k] = r}) = IF Queued(r) THEN 1 ELSE 0
<1> DEFINE at == {k \in DOMAIN queue : queue[k] = r}
<1>1. DOMAIN queue = 1..Len(queue)
    BY DEF Custody, Typed
<1>2. CASE Queued(r)
  <2>1. PICK k \in 1..Len(queue) : queue[k] = r
    BY <1>2 DEF Custody, QueueInv, Queued
  <2>2. at = {k}
    BY <1>1, <2>1 DEF Custody, QueueInv
  <2>3. QED
    BY <1>2, <2>2, FS_Singleton
<1>3. CASE ~ Queued(r)
  <2>1. at = {}
    BY <1>1, <1>3 DEF Custody, QueueInv, Queued
  <2>2. QED
    BY <1>3, <2>1, FS_EmptySet
<1>4. QED
    BY <1>2, <1>3

\* The registry never loses or doubles an entry: each one holds one slot, is
\* counted for its generation, and is in the queue once or with one visitor
\* (ownership.rs, reserve_for, Candidate).
THEOREM EntryAccountingHolds == Spec => []EntryAccounting
<1>1. Custody => EntryAccounting
  <2> SUFFICES ASSUME Custody PROVE EntryAccounting
    OBVIOUS
  <2>1. slots + Cardinality(Entries) = Limit
    BY DEF Custody, Counted
  <2>2. \A g \in Generation : generations[g] = Cardinality({r \in Request : owned[r] = g})
    BY DEF Custody, Counted, OwnedBy
  <2>3. \A r \in Request :
          Cardinality({k \in DOMAIN queue : queue[k] = r}) =
              IF owned[r] = None \/ (ref[r] = "dropped" /\ job[r].at # "idle") THEN 0 ELSE 1
    BY CountedOnce DEF Queued
  <2>4. QED
    BY <2>1, <2>2, <2>3 DEF EntryAccounting
<1>2. QED
    BY <1>1, CustodyHolds, PTL

\* Type correctness; that the counters of the registry never go below zero
\* follows from the accounting.
THEOREM TypeCorrect == Spec => []TypeOK
<1>1. Custody => TypeOK
  <2> SUFFICES ASSUME Custody PROVE TypeOK
    OBVIOUS
  <2>1. Cardinality(Entries) \in Nat
    BY FS_CardinalityType DEF Custody, Counted
  <2>2. slots \in 0..Limit
    BY <2>1, CustodyAssumption DEF Custody, Counted
  <2>3. generations \in [Generation -> Nat]
    BY OwnedIsFinite DEF Custody, Counted, Typed
  <2>4. QED
    BY <2>2, <2>3 DEF Custody, Typed, TypeOK
<1>2. QED
    BY <1>1, CustodyHolds, PTL

-----------------------------------------------------------------------------
\* What becomes of a row in one step.

\* Each step leaves a row alone or takes it one legal step on.
LEMMA RowStep ==
    ASSUME Typed, NEW r \in Request, Inv(r), Step(r)
    PROVE  exec'[r] = exec[r] \/ Follows(exec[r], exec'[r])
<1>1. exec[r] \in Execution /\ RowOK(exec[r]) /\ exec \in [Request -> Execution]
    BY DEF Typed, Inv, RowInv
<1>2. ASSUME NEW row, Commit(r, row), Legal(exec[r], row)
      PROVE  Follows(exec[r], exec'[r])
    BY <1>1, <1>2 DEF Commit, Legal
<1>3. CASE AdmitAccepted(r)
  <2>1. exec[r].state = "absent" /\ Commit(r, Accepted)
    BY <1>3 DEF AdmitAccepted, Admitting, Inv, PhaseInv
  <2>2. QED
    BY <1>1, <1>2, <2>1, AcceptedRow
<1>4. CASE Begin(r)
    BY <1>1, <1>2, <1>4, PreparedRow DEF Begin
<1>5. CASE Dispatch(r)
  <2>1. tracker[r].id \in 1..Len(exec[r].attempts)
    BY <1>1, <1>5, RowIs DEF Dispatch, Inv, TrackerInv
  <2>2. QED
    BY <1>1, <1>2, <1>5, <2>1, DispatchedRow DEF Dispatch
<1>6. CASE Persist(r)
  <2>1. /\ tracker[r].id = Len(exec[r].attempts) /\ tracker[r].id # 0
        /\ future[r].terminal \in Observed
    BY <1>6 DEF Persist, Persisting, Inv, TrackerInv, Typed, Future
  <2>2. QED
    BY <1>1, <1>2, <1>6, <2>1, GuardsAre, RecordedRow DEF Persist
<1>7. CASE Track(r)
  <2>1. CASE tracker[r].occupied /\ tracker[r].dropped /\ HasEvidence(r)
    <3>1. /\ tracker[r].id = Len(exec[r].attempts) /\ tracker[r].id # 0
          /\ tracker[r].evidence \in Observed
        BY <2>1 DEF HasEvidence, Inv, TrackerInv, Typed, Tracker
    <3>2. QED
        BY <1>1, <1>2, <1>7, <2>1, <3>1, GuardsAre, RecordedRow DEF Track
  <2>2. CASE ~ (tracker[r].occupied /\ tracker[r].dropped /\ HasEvidence(r))
    BY <1>7, <2>2 DEF Track
  <2>3. QED
    BY <2>1, <2>2
<1>8. CASE Interrupt(r)
  <2>1. MayInterrupt(r) /\ Commit(r, Interrupted(r))
    BY <1>8 DEF Interrupt
  <2>2. Len(exec[r].attempts) # 0
    BY <1>1, <1>8, RowIs DEF Interrupt, Inv, ReadInv
  <2>3. QED
    BY <1>1, <1>2, <2>1, <2>2, InterruptedRow
<1>9. CASE Finish(r)
  <2>1. job[r].outcome \in Outcome
    BY <1>9 DEF Finish, Inv, EntryInv
  <2>2. QED
    BY <1>1, <1>2, <1>9, <2>1, GuardsAre, FinalizedRow DEF Finish
<1>10. CASE LateCommit(r)
    BY <1>1, <1>10 DEF LateCommit, Inv, RowInv, FlightOK
<1>11. CASE Recover(r)
    BY <1>1, <1>2, <1>11, RecoveredRowIs DEF Recover
<1>12. CASE Resolve(r)
    BY <1>1, <1>2, <1>12, ResolvedRowIs DEF Resolve
<1>13. CASE \/ Reserve(r) \/ AdmitRefused(r) \/ AdmitUncertain(r) \/ BeginFails(r)
            \/ DispatchFails(r) \/ PersistFails(r) \/ EndAttempt(r) \/ PipelineFails(r)
            \/ Drop(r) \/ ReconcileDispatch(r) \/ LateRollback(r)
            \/ \E terminal \in Observed : Observe(r, terminal)
            \/ \E success \in BOOLEAN : FinishDelivery(r, success)
    BY <1>13 DEF Reserve, AdmitRefused, AdmitUncertain, BeginFails, DispatchFails,
       PersistFails, EndAttempt, PipelineFails, Drop, ReconcileDispatch, LateRollback,
       Observe, FinishDelivery, Lose
<1>14. CASE \/ Start(r) \/ Read(r) \/ JobFails(r) \/ TrackLost(r) \/ InterruptLost(r)
            \/ FinishLost(r)
    BY <1>14 DEF Start, Read, JobFails, TrackLost, InterruptLost, FinishLost, Lose
<1>15. QED
    BY <1>3, <1>4, <1>5, <1>6, <1>7, <1>8, <1>9, <1>10, <1>11, <1>12, <1>13, <1>14
       DEF Step, JobSucceeds

\* No transaction, acknowledged or lost, of the request, of a visitor, of
\* another instance or of the operator takes a dispatch intent back
\* (attempts.rs, interrupt_attempts and abandon_prepared).
THEOREM IntentStandsHolds == Spec => IntentStands
<1>1. Custody /\ [Next]_vars =>
          [\A r \in Request : \A i \in DOMAIN exec[r].attempts :
              exec[r].attempts[i] \in {"dispatched", "unknown"} =>
                  exec'[r].attempts[i] \in Observed \cup {"dispatched", "unknown", "resolved"}]_vars
  <2> SUFFICES ASSUME Custody, Next, NEW s \in Request
               PROVE  \A i \in DOMAIN exec[s].attempts :
                         exec[s].attempts[i] \in {"dispatched", "unknown"} =>
                            exec'[s].attempts[i] \in Observed \cup {"dispatched", "unknown", "resolved"}
    OBVIOUS
  <2>1. exec'[s] = exec[s] \/ Follows(exec[s], exec'[s])
    <3>1. ASSUME NEW r \in Request, Step(r)
          PROVE  exec'[s] = exec[s] \/ Follows(exec[s], exec'[s])
        BY <3>1, StepKeeps, RowStep DEF Custody, OthersSame, Same
    <3>2. CASE Visit \/ Expire \/ \E r \in Request : Fill(r) \/ Project(r)
        BY <3>2 DEF Visit, Expire, Fill, Project
    <3>3. QED
        BY <3>1, <3>2 DEF Next, Step
  <2>2. DOMAIN exec[s].attempts = 1..Len(exec[s].attempts)
    BY RowIs DEF Custody, Typed
  <2>3. QED
    BY <2>1, <2>2 DEF Follows, Intent, Observed
<1>2. QED
    BY <1>1, CustodyHolds, PTL DEF Spec, IntentStands
=============================================================================
