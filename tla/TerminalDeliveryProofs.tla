------------------------ MODULE TerminalDeliveryProofs ------------------------
(***************************************************************************)
(* Proofs about TerminalDelivery, for any number of workers and events,    *)
(* any polling interval and any number of failures.                        *)
(***************************************************************************)
EXTENDS TerminalDelivery, TLAPS

\* Receipts exist for published events only, and an acknowledged event has both
\* of its durable phases behind it.
RowsInOrder ==
    \A ev \in Event :
       /\ receipts[ev] # "none" => outbox[ev].published
       /\ outbox[ev].acknowledged => receipts[ev] = "delivered"

\* What a worker knows of the event it claimed.
WorkerKnows ==
    \A w \in Worker :
       /\ Working(w) => worker[w].event \in Event /\ outbox[worker[w].event].published
       /\ worker[w].phase = "complete" => receipts[worker[w].event] # "none"
       /\ worker[w].phase = "acknowledge" => receipts[worker[w].event] = "delivered"

\* The time that the lease outlasts the timeout of the current phase by.
Margin(w) == IF worker[w].phase \in {"project", "complete"} THEN 3 ELSE 2

\* A worker that is not held up holds a lease that outlasts its timeout.
LeaseOutlasts ==
    \A w \in Worker : Working(w) /\ ~ worker[w].held =>
       /\ outbox[worker[w].event].holder = w
       /\ outbox[worker[w].event].left >= worker[w].timer + Margin(w)

\* The inductive invariant.
DeliveryInv == TypeOK /\ RowsInOrder /\ WorkerKnows /\ EffectsOnce /\ LeaseOutlasts

\* Counting down stays within the bounds.
LEMMA LessType ==
    /\ \A m \in Nat : \A n \in 0..m : Less(n) \in 0..m
    /\ \A n \in Nat : Less(n) \in Nat
  BY DEF Less

\* The delay of a retry is at least the lease.
LEMMA DelayType == RetryDelay \in Nat /\ LeaseBudget \in 0..RetryDelay /\ 0 \in 0..RetryDelay
  BY DeliveryAssumption DEF RetryDelay, LeaseBudget

\* The invariant holds initially.
LEMMA DeliveryInit == Init => DeliveryInv
<1> SUFFICES ASSUME Init PROVE DeliveryInv
  OBVIOUS
<1>1. NoRow \in Row /\ Idle \in WorkerRow
  BY DelayType DEF NoRow, Row, Idle, WorkerRow, Phase, LeaseBudget
<1>2. TypeOK
  BY <1>1, DeliveryAssumption DEF Init, TypeOK
<1>3. RowsInOrder /\ WorkerKnows /\ EffectsOnce /\ LeaseOutlasts
  BY DEF Init, NoRow, Idle, RowsInOrder, WorkerKnows, EffectsOnce, LeaseOutlasts, Working
<1> QED BY <1>2, <1>3 DEF DeliveryInv

\* Every step keeps the type.
LEMMA DeliveryTypeStep == DeliveryInv /\ [Next]_vars => TypeOK'
<1> SUFFICES ASSUME DeliveryInv, [Next]_vars PROVE TypeOK'
  OBVIOUS
<1> USE DeliveryAssumption, DelayType DEF DeliveryInv
<1>1. CASE Tick
  <2>1. outbox' \in [Event -> Row]
    <3>1. LeaseBudget \in Nat
      BY DEF LeaseBudget
    <3>2. ASSUME NEW ev \in Event
          PROVE  [outbox[ev] EXCEPT !.left = Less(outbox[ev].left),
                                    !.wait = Less(outbox[ev].wait)] \in Row
      <4>1. outbox[ev] \in Row
        BY DEF TypeOK
      <4>2. Less(outbox[ev].left) \in 0..LeaseBudget /\ Less(outbox[ev].wait) \in 0..RetryDelay
        BY <3>1, <4>1, LessType DEF Row
      <4> QED BY <4>1, <4>2 DEF Row
    <3> QED BY <1>1, <3>2 DEF Tick
  <2>2. worker' \in [Worker -> WorkerRow]
    BY <1>1, LessType DEF Tick, TypeOK, WorkerRow
  <2> QED BY <1>1, <2>1, <2>2 DEF Tick, TypeOK
<1>2. ASSUME NEW ev \in Event, Publish(ev) PROVE TypeOK'
  BY <1>2 DEF Publish, TypeOK, Row
<1>3. ASSUME NEW ev \in Event, ProjectIn(ev)
      PROVE  receipts' \in [Event -> {"none", "projected", "delivered"}]
             /\ metered' \in [Event -> Nat]
  BY <1>3 DEF ProjectIn, TypeOK
<1>4. ASSUME NEW ev \in Event, CatchUp(ev) PROVE TypeOK'
  BY <1>3, <1>4 DEF CatchUp, TypeOK
<1>5. ASSUME Fail PROVE failures' \in 0..MaxFailures
  BY <1>5 DEF Fail, TypeOK
<1>6. ASSUME NEW w \in Worker, LoseLease(w) \/ HoldUp(w) PROVE TypeOK'
  <2>1. CASE LoseLease(w)
    BY <2>1 DEF LoseLease, TypeOK
  <2>2. CASE HoldUp(w)
    <3>1. worker' \in [Worker -> WorkerRow]
      BY <2>2 DEF HoldUp, TypeOK, WorkerRow
    <3> QED BY <1>5, <2>2, <3>1 DEF HoldUp, TypeOK
  <2> QED BY <1>6, <2>1, <2>2
<1>7. ASSUME NEW w \in Worker, Stop(w) PROVE TypeOK'
  <2>1. [Idle EXCEPT !.phase = "stopped"] \in WorkerRow
    BY DEF Idle, WorkerRow, Phase
  <2> QED BY <1>7, <2>1 DEF Stop, TypeOK
<1>8. ASSUME NEW w \in Worker, NEW ev \in Event, Claim(w, ev) PROVE TypeOK'
  <2>1. outbox' \in [Event -> Row]
    <3>1. outbox[ev] \in Row /\ LeaseBudget \in 0..LeaseBudget
      BY DEF TypeOK, LeaseBudget
    <3>2. [outbox[ev] EXCEPT !.holder = w, !.left = LeaseBudget, !.wait = LeaseBudget] \in Row
      BY <3>1 DEF Row
    <3> QED BY <1>8, <3>2 DEF Claim, TypeOK
  <2>2. worker' \in [Worker -> WorkerRow]
    <3>1. [phase |-> "project", event |-> ev,
           timer |-> ClaimBudget + DeliveryBudget, held |-> FALSE] \in WorkerRow
      BY DEF WorkerRow, Phase, ClaimBudget, DeliveryBudget
    <3> QED BY <1>8, <3>1 DEF Claim, TypeOK
  <2> QED BY <1>5, <1>8, <2>1, <2>2 DEF Claim, TypeOK
<1>9. ASSUME NEW w \in Worker, NEW phase \in Phase, NEW budget \in Nat,
             Enter(w, phase, budget) \/ Rest(w)
      PROVE  worker' \in [Worker -> WorkerRow]
  <2>1. Idle \in WorkerRow
    BY DEF Idle, WorkerRow, Phase
  <2>2. [worker[w] EXCEPT !.phase = phase, !.timer = budget] \in WorkerRow
    BY DEF TypeOK, WorkerRow
  <2> QED BY <1>9, <2>1, <2>2 DEF Enter, Rest, TypeOK
<1>10. ASSUME NEW w \in Worker, Project(w) PROVE TypeOK'
  <2>1. worker[w].event \in Event /\ worker[w].timer \in Nat
    BY <1>10 DEF Project, WorkerKnows, Working, TypeOK, WorkerRow
  <2>2. "complete" \in Phase
    BY DEF Phase
  <2>3. worker' \in [Worker -> WorkerRow]
    BY <1>9, <1>10, <2>1, <2>2 DEF Project
  <2> QED BY <1>3, <1>10, <2>1, <2>3 DEF Project, TypeOK
<1>11. ASSUME NEW w \in Worker, Complete(w) PROVE TypeOK'
  <2>1. worker[w].event \in Event
    BY <1>11 DEF Complete, WorkerKnows, Working
  <2>2. TransactionBudget \in Nat /\ AfterFailure \in Phase /\ "acknowledge" \in Phase
    BY DEF TransactionBudget, AfterFailure, Phase
  <2>3. worker' \in [Worker -> WorkerRow]
    BY <1>9, <1>11, <2>2 DEF Complete
  <2> QED BY <1>5, <1>11, <2>1, <2>3 DEF Complete, TypeOK
<1>12. ASSUME NEW w \in Worker, DeliveryFails(w) \/ AcknowledgeFails(w) \/ RetryFails(w)
       PROVE  TypeOK'
  <2>1. TransactionBudget \in Nat /\ AfterFailure \in Phase
    BY DEF TransactionBudget, AfterFailure, Phase
  <2>2. worker' \in [Worker -> WorkerRow]
    BY <1>9, <1>12, <2>1 DEF DeliveryFails, AcknowledgeFails, RetryFails
  <2> QED BY <1>5, <1>12, <2>2 DEF DeliveryFails, AcknowledgeFails, RetryFails, TypeOK
<1>13. ASSUME NEW w \in Worker, Acknowledge(w) \/ Retry(w) PROVE TypeOK'
  <2>1. worker' \in [Worker -> WorkerRow]
    BY <1>9, <1>13 DEF Acknowledge, Retry, Phase
  <2>2. outbox' \in [Event -> Row]
    <3>1. [published |-> TRUE, holder |-> None, left |-> 0, wait |-> RetryDelay,
           acknowledged |-> FALSE] \in Row
      BY DEF Row, LeaseBudget
    <3>2. ASSUME NEW ev \in Event
          PROVE  [outbox[ev] EXCEPT !.acknowledged = TRUE, !.wait = 0] \in Row
      BY DEF Row, TypeOK
    <3>3. worker[w].event \in Event
      BY <1>13 DEF Acknowledge, Retry, WorkerKnows, Working
    <3> QED BY <1>13, <3>1, <3>2, <3>3 DEF Acknowledge, Retry, TypeOK
  <2> QED BY <1>13, <2>1, <2>2 DEF Acknowledge, Retry, TypeOK
<1>14. CASE UNCHANGED vars
  BY <1>14 DEF vars, TypeOK
<1> QED
  BY <1>1, <1>2, <1>4, <1>6, <1>7, <1>8, <1>10, <1>11, <1>12, <1>13, <1>14
  DEF Next, Progress

\* Every step keeps the order of the durable phases, what the workers know and
\* the count of effects.
LEMMA DeliveryDataStep ==
    DeliveryInv /\ [Next]_vars => (RowsInOrder /\ WorkerKnows /\ EffectsOnce)'
<1> SUFFICES ASSUME DeliveryInv, [Next]_vars
             PROVE  (RowsInOrder /\ WorkerKnows /\ EffectsOnce)'
  OBVIOUS
<1> USE DEF DeliveryInv, Working
<1>1. CASE Tick
  <2>1. \A ev \in Event : /\ outbox'[ev].published = outbox[ev].published
                          /\ outbox'[ev].acknowledged = outbox[ev].acknowledged
    BY <1>1 DEF Tick, TypeOK, Row
  <2>2. \A w \in Worker : /\ worker'[w].phase = worker[w].phase
                          /\ worker'[w].event = worker[w].event
    BY <1>1 DEF Tick, TypeOK, WorkerRow
  <2>3. UNCHANGED <<receipts, metered, admitted>>
    BY <1>1 DEF Tick
  <2>4. (RowsInOrder /\ EffectsOnce)'
    BY <2>1, <2>3 DEF RowsInOrder, EffectsOnce
  <2>5. WorkerKnows'
    BY <2>1, <2>2, <2>3 DEF WorkerKnows
  <2> QED BY <2>4, <2>5
<1>2. ASSUME NEW ev \in Event, Publish(ev) PROVE (RowsInOrder /\ WorkerKnows /\ EffectsOnce)'
  BY <1>2 DEF Publish, TypeOK, Row, RowsInOrder, WorkerKnows, EffectsOnce
<1>3. ASSUME NEW ev \in Event, ProjectIn(ev)
      PROVE  /\ EffectsOnce \/ UNCHANGED admitted
             /\ receipts'[ev] # "none"
             /\ \A x \in Event : receipts[x] # "none" => receipts'[x] = receipts[x]
             /\ \A x \in Event : x # ev => receipts'[x] = receipts[x]
             /\ \A x \in Event : metered'[x] = IF receipts'[x] = "none" THEN 0 ELSE 1
             /\ \A x \in Event : receipts'[x] = "delivered" <=> receipts[x] = "delivered"
  BY <1>3 DEF ProjectIn, TypeOK, EffectsOnce
<1>4. ASSUME NEW ev \in Event, CatchUp(ev) PROVE (RowsInOrder /\ WorkerKnows /\ EffectsOnce)'
  <2>1. ProjectIn(ev) /\ outbox[ev].published /\ UNCHANGED <<outbox, admitted, worker>>
    BY <1>4 DEF CatchUp
  <2> QED
    BY <1>3, <2>1 DEF RowsInOrder, WorkerKnows, EffectsOnce
<1>5. ASSUME NEW w \in Worker, LoseLease(w) \/ HoldUp(w) \/ Stop(w)
      PROVE  (RowsInOrder /\ WorkerKnows /\ EffectsOnce)'
  BY <1>5 DEF LoseLease, HoldUp, Stop, Idle, TypeOK, WorkerRow, RowsInOrder, WorkerKnows,
              EffectsOnce
<1>6. ASSUME NEW w \in Worker, NEW ev \in Event, Claim(w, ev)
      PROVE  (RowsInOrder /\ WorkerKnows /\ EffectsOnce)'
  <2>1. \A x \in Event : /\ outbox'[x].published = outbox[x].published
                         /\ outbox'[x].acknowledged = outbox[x].acknowledged
    BY <1>6 DEF Claim, TypeOK, Row
  <2>2. UNCHANGED <<receipts, metered, admitted>> /\ outbox[ev].published
    BY <1>6 DEF Claim, Claimable
  <2>3. WorkerKnows'
    BY <1>6, <2>1, <2>2 DEF Claim, TypeOK, WorkerRow, WorkerKnows
  <2> QED BY <2>1, <2>2, <2>3 DEF RowsInOrder, EffectsOnce
<1>7. ASSUME NEW w \in Worker, Project(w) PROVE (RowsInOrder /\ WorkerKnows /\ EffectsOnce)'
  <2> DEFINE ev == worker[w].event
  <2>1. ev \in Event /\ outbox[ev].published /\ ProjectIn(ev) /\ UNCHANGED <<outbox, admitted>>
    BY <1>7 DEF Project, WorkerKnows
  <2>2. /\ worker'[w].phase = "complete" /\ worker'[w].event = ev
        /\ \A v \in Worker : v # w => worker'[v] = worker[v]
    BY <1>7 DEF Project, Enter, TypeOK, WorkerRow
  <2>3. (RowsInOrder /\ EffectsOnce)'
    BY <1>3, <2>1 DEF RowsInOrder, EffectsOnce
  <2>4. WorkerKnows'
    BY <1>3, <2>1, <2>2 DEF WorkerKnows
  <2> QED BY <2>3, <2>4
<1>8. ASSUME NEW w \in Worker, Complete(w) PROVE (RowsInOrder /\ WorkerKnows /\ EffectsOnce)'
  <2> DEFINE ev == worker[w].event
  <2>1. ev \in Event /\ outbox[ev].published /\ UNCHANGED <<outbox, metered>>
    BY <1>8 DEF Complete, WorkerKnows
  <2>2. /\ worker'[w].event = ev
        /\ \A v \in Worker : v # w => worker'[v] = worker[v]
    BY <1>8 DEF Complete, Enter, TypeOK, WorkerRow
  <2>3. worker'[w].phase \in {"acknowledge", "retry"}
    BY <1>8 DEF Complete, Enter, AfterFailure, TypeOK, WorkerRow
  <2>4. /\ receipts[ev] # "none" /\ receipts'[ev] = "delivered"
        /\ \A x \in Event : x # ev => receipts'[x] = receipts[x] /\ admitted'[x] = admitted[x]
    BY <1>8, <2>1 DEF Complete, TypeOK
  <2>5. admitted'[ev] = 1
    BY <1>8, <2>1 DEF Complete, TypeOK, EffectsOnce
  <2>6. (RowsInOrder /\ EffectsOnce)'
    BY <2>1, <2>4, <2>5 DEF RowsInOrder, EffectsOnce
  <2>7. WorkerKnows'
    BY <2>1, <2>2, <2>3, <2>4 DEF WorkerKnows
  <2> QED BY <2>6, <2>7
<1>9. ASSUME NEW w \in Worker, DeliveryFails(w) \/ AcknowledgeFails(w) \/ RetryFails(w)
      PROVE  (RowsInOrder /\ WorkerKnows /\ EffectsOnce)'
  <2>1. UNCHANGED <<outbox, receipts, metered, admitted>>
    BY <1>9 DEF DeliveryFails, AcknowledgeFails, RetryFails
  <2>2. /\ worker'[w].phase = "idle" \/ worker'[w].phase = "retry"
        /\ worker'[w].phase = "retry" => Working(w) /\ worker'[w].event = worker[w].event
        /\ \A v \in Worker : v # w => worker'[v] = worker[v]
    BY <1>9 DEF DeliveryFails, AcknowledgeFails, RetryFails, Enter, Rest, Idle,
                AfterFailure, TypeOK, WorkerRow
  <2> QED BY <2>1, <2>2 DEF RowsInOrder, WorkerKnows, EffectsOnce
<1>10. ASSUME NEW w \in Worker, Acknowledge(w) \/ Retry(w)
       PROVE  (RowsInOrder /\ WorkerKnows /\ EffectsOnce)'
  <2> DEFINE ev == worker[w].event
  <2>1. UNCHANGED <<receipts, metered, admitted>> /\ ev \in Event /\ outbox[ev].published
    BY <1>10 DEF Acknowledge, Retry, WorkerKnows
  <2>2. /\ worker'[w].phase = "idle"
        /\ \A v \in Worker : v # w => worker'[v] = worker[v]
    BY <1>10 DEF Acknowledge, Retry, Rest, Idle, TypeOK
  <2>3. /\ outbox'[ev].published
        /\ outbox'[ev].acknowledged => receipts[ev] = "delivered"
        /\ \A x \in Event : x # ev => outbox'[x] = outbox[x]
    BY <1>10, <2>1 DEF Acknowledge, Retry, TypeOK, Row, WorkerKnows
  <2> QED BY <2>1, <2>2, <2>3 DEF RowsInOrder, WorkerKnows, EffectsOnce
<1>11. CASE UNCHANGED vars
  BY <1>11 DEF vars, RowsInOrder, WorkerKnows, EffectsOnce
<1> QED
  BY <1>1, <1>2, <1>4, <1>5, <1>6, <1>7, <1>8, <1>9, <1>10, <1>11 DEF Next, Progress

\* Every step keeps the lease ahead of the timeouts.
LEMMA DeliveryTimeStep == DeliveryInv /\ [Next]_vars => LeaseOutlasts'
<1> SUFFICES ASSUME DeliveryInv, [Next]_vars,
                    NEW v \in Worker, Working(v)', ~ worker'[v].held
             PROVE  /\ outbox'[worker'[v].event].holder = v
                    /\ outbox'[worker'[v].event].left >= worker'[v].timer + Margin(v)'
  BY DEF LeaseOutlasts
<1> DEFINE Ahead == /\ outbox'[worker'[v].event].holder = v
                    /\ outbox'[worker'[v].event].left >= worker'[v].timer + Margin(v)'
<1> USE DEF DeliveryInv, Working
<1>0. ASSUME Working(v), ~ worker[v].held
      PROVE  /\ worker[v].event \in Event
             /\ outbox[worker[v].event].holder = v
             /\ outbox[worker[v].event].left \in Nat
             /\ worker[v].timer \in Nat
             /\ outbox[worker[v].event].left >= worker[v].timer + Margin(v)
  <2>1. worker[v].event \in Event
    BY <1>0 DEF WorkerKnows
  <2>2. outbox[worker[v].event].left \in Nat /\ worker[v].timer \in Nat
    BY <2>1 DEF TypeOK, Row, WorkerRow, LeaseBudget
  <2>3. /\ outbox[worker[v].event].holder = v
        /\ outbox[worker[v].event].left >= worker[v].timer + Margin(v)
    BY <1>0 DEF LeaseOutlasts
  <2> QED BY <2>1, <2>2, <2>3
<1>1. ASSUME worker'[v] = worker[v],
             Working(v) /\ ~ worker[v].held =>
                /\ outbox'[worker[v].event].holder = outbox[worker[v].event].holder
                /\ outbox'[worker[v].event].left = outbox[worker[v].event].left
      PROVE  Ahead
  <2>1. Working(v) /\ ~ worker[v].held /\ Margin(v)' = Margin(v)
    BY <1>1 DEF Margin
  <2> QED BY <1>0, <1>1, <2>1
<1>2. CASE Tick
  <2>1. /\ worker'[v].phase = worker[v].phase /\ worker'[v].held = worker[v].held
        /\ worker'[v].event = worker[v].event /\ worker'[v].timer = Less(worker[v].timer)
    BY <1>2 DEF Tick, TypeOK, WorkerRow
  <2>2. Working(v) /\ ~ worker[v].held /\ worker[v].timer > 0
    BY <1>2, <2>1 DEF Tick
  <2>3. /\ outbox'[worker[v].event].holder = outbox[worker[v].event].holder
        /\ outbox'[worker[v].event].left = Less(outbox[worker[v].event].left)
    BY <1>0, <1>2, <2>2 DEF Tick, TypeOK, Row
  <2> QED
    BY <1>0, <2>1, <2>2, <2>3 DEF Less, Margin
<1>3. ASSUME NEW ev \in Event, Publish(ev) \/ CatchUp(ev) PROVE Ahead
  BY <1>0, <1>1, <1>3 DEF Publish, CatchUp, TypeOK, Row
<1>4. ASSUME NEW w \in Worker, LoseLease(w) \/ HoldUp(w) \/ Stop(w) PROVE Ahead
  BY <1>1, <1>4 DEF LoseLease, HoldUp, Stop, Idle, TypeOK, WorkerRow
<1>5. ASSUME NEW w \in Worker, NEW ev \in Event, Claim(w, ev) PROVE Ahead
  <2>1. CASE v = w
    <3>1. worker'[v] = [phase |-> "project", event |-> ev,
                        timer |-> ClaimBudget + DeliveryBudget, held |-> FALSE]
      BY <1>5, <2>1 DEF Claim, TypeOK
    <3>2. outbox'[ev].holder = v /\ outbox'[ev].left = LeaseBudget
      BY <1>5, <2>1 DEF Claim, TypeOK, Row
    <3> QED
      BY <3>1, <3>2 DEF Margin, ClaimBudget, DeliveryBudget, LeaseBudget
  <2>2. CASE v # w
    <3>1. worker'[v] = worker[v] /\ outbox[ev].left = 0
      BY <1>5, <2>2 DEF Claim, Claimable, TypeOK
    <3>2. worker[v].event # ev /\ worker[v].event \in Event
      BY <1>0, <3>1 DEF Margin
    <3> QED
      BY <1>1, <1>5, <3>1, <3>2 DEF Claim, TypeOK
  <2> QED BY <2>1, <2>2
<1>6. ASSUME NEW w \in Worker, Project(w) PROVE Ahead
  <2>1. UNCHANGED outbox
    BY <1>6 DEF Project
  <2>2. CASE v = w
    <3>1. /\ worker[v].phase = "project" /\ worker'[v].phase = "complete"
          /\ worker'[v].event = worker[v].event /\ worker'[v].timer = worker[v].timer
          /\ worker'[v].held = worker[v].held
      BY <1>6, <2>2 DEF Project, Enter, TypeOK, WorkerRow
    <3> QED BY <1>0, <2>1, <3>1 DEF Margin
  <2>3. CASE v # w
    BY <1>1, <1>6, <2>1, <2>3 DEF Project, Enter, TypeOK
  <2> QED BY <2>2, <2>3
<1>7. ASSUME NEW w \in Worker, Complete(w) \/ DeliveryFails(w) PROVE Ahead
  <2>1. UNCHANGED outbox
    BY <1>7 DEF Complete, DeliveryFails
  <2>2. CASE v = w
    <3>1. /\ worker[v].phase \in {"project", "complete"}
          /\ worker'[v].phase \in {"acknowledge", "retry"}
          /\ worker'[v].event = worker[v].event /\ worker'[v].timer = 1
          /\ worker'[v].held = worker[v].held
      BY <1>7, <2>2 DEF Complete, DeliveryFails, Enter, AfterFailure, TransactionBudget,
                        TypeOK, WorkerRow
    <3> QED BY <1>0, <2>1, <3>1 DEF Margin
  <2>3. CASE v # w
    BY <1>1, <1>7, <2>1, <2>3 DEF Complete, DeliveryFails, Enter, TypeOK
  <2> QED BY <2>2, <2>3
<1>8. ASSUME NEW w \in Worker, AcknowledgeFails(w) \/ RetryFails(w) PROVE Ahead
  BY <1>1, <1>8 DEF AcknowledgeFails, RetryFails, Rest, Idle, TypeOK
<1>9. ASSUME NEW w \in Worker, Acknowledge(w) \/ Retry(w) PROVE Ahead
  <2>1. v # w /\ worker'[v] = worker[v]
    BY <1>9 DEF Acknowledge, Retry, Rest, Idle, TypeOK
  <2>2. CASE Acknowledge(w)
    BY <1>0, <1>1, <2>1, <2>2 DEF Acknowledge, TypeOK, Row
  <2>3. CASE Retry(w)
    <3>1. outbox[worker[w].event].holder = w /\ worker[w].event \in Event
      BY <2>3 DEF Retry, MayRetry, Holds, WorkerKnows
    <3>2. worker[v].event # worker[w].event
      BY <1>0, <2>1, <3>1
    <3> QED
      BY <1>0, <1>1, <2>1, <2>3, <3>2 DEF Retry, TypeOK
  <2> QED BY <1>9, <2>2, <2>3
<1>10. CASE UNCHANGED vars
  BY <1>1, <1>10 DEF vars
<1> QED
  BY <1>2, <1>3, <1>4, <1>5, <1>6, <1>7, <1>8, <1>9, <1>10 DEF Next, Progress

\* The invariant holds always.
LEMMA DeliveryCorrect == Spec => []DeliveryInv
<1>1. DeliveryInv /\ [Next]_vars => DeliveryInv'
  BY DeliveryTypeStep, DeliveryDataStep, DeliveryTimeStep DEF DeliveryInv
<1> QED BY DeliveryInit, <1>1, PTL DEF Spec

\* Delivery by several workers has each of its effects once (coordinator.rs,
\* project_in, and complete.rs, complete_projection).
THEOREM EffectsOnceHolds == Spec => []EffectsOnce
<1>1. DeliveryInv => EffectsOnce
  BY DEF DeliveryInv
<1> QED BY DeliveryCorrect, <1>1, PTL

\* The lease that Budget::new grants covers the timeouts it hands out.
THEOREM LeaseCoversDeliveryHolds == Spec => []LeaseCoversDelivery
<1>1. DeliveryInv => LeaseCoversDelivery
  BY DEF DeliveryInv, LeaseOutlasts, LeaseCoversDelivery, Holds, Margin, TypeOK, Row,
         WorkerRow, WorkerKnows, Working, LeaseBudget
<1> QED BY DeliveryCorrect, <1>1, PTL

\* Delivery implements the promise of EventDelivery: published, projected,
\* delivered and acknowledged follow each other and none is taken back.
THEOREM DeliversInOrderHolds == Spec => DeliversInOrder
<1> USE DEF Abstract!Advance, Abstract!Publish, Abstract!Project, Abstract!Complete,
            Abstract!Acknowledge
<1>1. Init => Abstract!Init
  BY DEF Init, NoRow, StageOf, Abstract!Init
<1>2. ASSUME TypeOK, RowsInOrder, WorkerKnows, [Next]_vars
      PROVE  [Abstract!Next]_[ev \in Event |-> StageOf(ev)]
  <2> USE <1>2
  <2> DEFINE Still(x) == StageOf(x)' = StageOf(x)
             Stays == \A x \in Event : Still(x)
  <2>0. ASSUME Stays PROVE UNCHANGED [ev \in Event |-> StageOf(ev)]
    BY <2>0
  <2>1. ASSUME NEW ev \in Event, \A x \in Event : x # ev => Still(x),
               \/ StageOf(ev) = "absent" /\ StageOf(ev)' = "published"
               \/ StageOf(ev) = "published" /\ StageOf(ev)' = "projected"
               \/ StageOf(ev) = "projected" /\ StageOf(ev)' = "delivered"
               \/ StageOf(ev) = "delivered" /\ StageOf(ev)' = "acknowledged"
        PROVE  Abstract!Next
    BY <2>1 DEF Abstract!Next
  <2>2. CASE Tick
    <3>1. \A x \in Event : /\ outbox'[x].published = outbox[x].published
                           /\ outbox'[x].acknowledged = outbox[x].acknowledged
      BY <2>2 DEF Tick, TypeOK, Row
    <3>2. UNCHANGED receipts
      BY <2>2 DEF Tick
    <3> QED BY <2>0, <3>1, <3>2 DEF StageOf
  <2>3. ASSUME NEW ev \in Event, Publish(ev) PROVE Abstract!Next
    <3>1. StageOf(ev) = "absent" /\ StageOf(ev)' = "published"
      BY <2>3 DEF Publish, StageOf, RowsInOrder, TypeOK, Row
    <3>2. \A x \in Event : x # ev => Still(x)
      BY <2>3 DEF Publish, StageOf, TypeOK
    <3> QED BY <2>1, <3>1, <3>2
  <2>4. ASSUME NEW ev \in Event, outbox[ev].published, ProjectIn(ev), UNCHANGED outbox
        PROVE  Abstract!Next \/ Stays
    <3>1. CASE receipts[ev] = "none"
      <4>1. StageOf(ev) = "published" /\ StageOf(ev)' = "projected"
        BY <2>4, <3>1 DEF ProjectIn, StageOf, RowsInOrder, TypeOK
      <4>2. \A x \in Event : x # ev => Still(x)
        BY <2>4, <3>1 DEF ProjectIn, StageOf, TypeOK
      <4> QED BY <2>1, <4>1, <4>2
    <3>2. CASE receipts[ev] # "none"
      BY <2>4, <3>2 DEF ProjectIn, StageOf
    <3> QED BY <3>1, <3>2
  <2>5. ASSUME NEW ev \in Event, CatchUp(ev) PROVE Abstract!Next \/ Stays
    BY <2>4, <2>5 DEF CatchUp
  <2>6. ASSUME NEW w \in Worker, Project(w) PROVE Abstract!Next \/ Stays
    <3>1. worker[w].event \in Event /\ outbox[worker[w].event].published
      BY <2>6 DEF Project, WorkerKnows, Working
    <3> QED BY <2>4, <2>6, <3>1 DEF Project
  <2>7. ASSUME NEW w \in Worker, Complete(w) PROVE Abstract!Next \/ Stays
    <3>0. PICK ev \in Event : ev = worker[w].event
      BY <2>7 DEF Complete, WorkerKnows, Working
    <3>1. ev \in Event /\ receipts[ev] # "none" /\ UNCHANGED outbox
      BY <2>7, <3>0 DEF Complete, WorkerKnows, Working
    <3>2. CASE receipts[ev] = "delivered"
      BY <2>7, <3>0, <3>1, <3>2 DEF Complete, StageOf
    <3>3. CASE receipts[ev] # "delivered"
      <4>1. receipts[ev] = "projected" /\ receipts' = [receipts EXCEPT ![ev] = "delivered"]
        BY <2>7, <3>0, <3>1, <3>3 DEF Complete, TypeOK
      <4>2. StageOf(ev) = "projected" /\ StageOf(ev)' = "delivered"
        <5>1. ~ outbox[ev].acknowledged
          BY <3>1, <3>3 DEF RowsInOrder
        <5>2. receipts'[ev] = "delivered"
          BY <3>1, <4>1 DEF TypeOK
        <5> QED BY <3>1, <4>1, <5>1, <5>2 DEF StageOf
      <4>3. \A x \in Event : x # ev => Still(x)
        BY <3>1, <4>1 DEF StageOf, TypeOK
      <4> QED BY <2>1, <3>1, <4>2, <4>3
    <3> QED BY <3>2, <3>3
  <2>8. ASSUME NEW w \in Worker, Acknowledge(w) PROVE Abstract!Next \/ Stays
    <3>0. PICK ev \in Event : ev = worker[w].event
      BY <2>8 DEF Acknowledge, WorkerKnows, Working
    <3>1. /\ ev \in Event /\ receipts[ev] = "delivered" /\ UNCHANGED receipts
          /\ outbox' = [outbox EXCEPT ![ev].acknowledged = TRUE, ![ev].wait = 0]
      BY <2>8, <3>0 DEF Acknowledge, WorkerKnows, Working
    <3>2. outbox'[ev].acknowledged /\ \A x \in Event : x # ev => outbox'[x] = outbox[x]
      BY <3>1 DEF TypeOK, Row
    <3>3. \A x \in Event : x # ev => Still(x)
      BY <3>1, <3>2 DEF StageOf
    <3>4. StageOf(ev)' = "acknowledged"
      BY <3>2 DEF StageOf
    <3>5. CASE outbox[ev].acknowledged
      <4>1. StageOf(ev) = "acknowledged"
        BY <3>5 DEF StageOf
      <4>2. Stays
        BY <3>3, <3>4, <4>1
      <4> QED BY <4>2
    <3>6. CASE ~ outbox[ev].acknowledged
      <4>1. StageOf(ev) = "delivered"
        BY <3>1, <3>6 DEF StageOf
      <4>2. Abstract!Next
        BY <2>1, <3>1, <3>3, <3>4, <4>1
      <4> QED BY <4>2
    <3> QED BY <3>5, <3>6
  <2>9. ASSUME NEW w \in Worker, Retry(w) PROVE Stays
    <3>0. PICK ev \in Event : ev = worker[w].event
      BY <2>9 DEF Retry, WorkerKnows, Working
    <3>1. /\ ev \in Event /\ outbox[ev].published /\ ~ outbox[ev].acknowledged
          /\ UNCHANGED receipts
      BY <2>9, <3>0 DEF Retry, MayRetry, WorkerKnows, Working
    <3>2. /\ outbox'[ev].published /\ ~ outbox'[ev].acknowledged
          /\ \A x \in Event : x # ev => outbox'[x] = outbox[x]
      BY <2>9, <3>0, <3>1 DEF Retry, TypeOK
    <3> QED BY <3>1, <3>2 DEF StageOf
  <2>10. ASSUME NEW w \in Worker, NEW ev \in Event, Claim(w, ev) PROVE Stays
    <3>1. \A x \in Event : /\ outbox'[x].published = outbox[x].published
                           /\ outbox'[x].acknowledged = outbox[x].acknowledged
      BY <2>10 DEF Claim, TypeOK, Row
    <3>2. UNCHANGED receipts
      BY <2>10 DEF Claim
    <3> QED BY <3>1, <3>2 DEF StageOf
  <2>11. CASE UNCHANGED <<outbox, receipts>>
    BY <2>0, <2>11 DEF StageOf
  <2> QED
    BY <2>0, <2>2, <2>3, <2>5, <2>6, <2>7, <2>8, <2>9, <2>10, <2>11
    DEF Next, Progress, vars, LoseLease, HoldUp, Stop, DeliveryFails, AcknowledgeFails,
        RetryFails
<1> QED
  <2>1. DeliveryInv /\ [Next]_vars => [Abstract!Next]_[ev \in Event |-> StageOf(ev)]
    BY <1>2 DEF DeliveryInv
  <2> QED BY <1>1, <2>1, DeliveryCorrect, PTL DEF Spec, DeliversInOrder, Abstract!Spec

\* The outbox rows, receipts and workers keep their types under every claim,
\* delivery, acknowledgement, retry, pause and death (outbox.rs, deliver).
THEOREM TypeCorrect == Spec => []TypeOK
  BY DeliveryCorrect, PTL DEF DeliveryInv
=============================================================================
