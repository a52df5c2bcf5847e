------------------- MODULE ContinuationPublicationProofs -------------------
(* Proofs about the publication of a continuation: the row of a delivered    *)
(* response stays, a marker is given up only with its row, and a resolution  *)
(* never finds a row before its terminal was committed, for any number of    *)
(* publications and processes, whatever is lost, crashes or expires.         *)
(*                                                                           *)
(* The inductive invariant, Publication, relates how far the task and the    *)
(* delivery of a publication are (TaskInv), what its marker may claim        *)
(* (MarkerInv), what the operation that holds the identity lock knows        *)
(* (HeldInv), and what the row and a lost transaction can still do           *)
(* (StoreInv, ActiveInv, ClearedInv).                                        *)
EXTENDS ContinuationPublication, Integers, TLAPS

-----------------------------------------------------------------------------
\* A lost transaction that may still write the row of p.
InFlight(p) == flight # None /\ flight.row # None /\ flight.row.pub = p

\* The row of p was not inserted and cannot appear from a lost transaction.
Unborn(p) == p \notin born /\ ~ InFlight(p)

\* Every row was inserted by its publication; a lost transaction that meets no
\* row inserts a new one.
StoreInv ==
    /\ row # None => row.pub \in born
    /\ flight # None /\ row = None => flight.row # None /\ flight.row.pub \notin born

\* How far the task and the delivery future of p are, together.
TaskInv(p) ==
    /\ task[p] \in {"new", "bind", "prepared", "dropped"} => client[p] = "none"
    /\ task[p] = "opening" => client[p] \in {"pending", "failing", "gone"}
    /\ task[p] = "ack" => client[p] \in {"pending", "failing", "acked", "gone"}
    /\ task[p] = "activating" => client[p] \in {"acked", "gone"}
    /\ task[p] = "commit" => client[p] \in {"released", "gone", "done"}
    /\ task[p] = "new" => marker[p] = None
    /\ task[p] \in {"new", "bind"} => Unborn(p)
    /\ task[p] \in {"undo", "last"} /\ marker[p] # None => marker[p].reason = RollbackRequired

\* What the marker of p records is true.
MarkerInv(p) ==
    marker[p] # None =>
       /\ marker[p].watched <=> client[p] # "none"
       /\ marker[p].disposition = "existing" => Unborn(p)
       /\ marker[p].disposition = "owned" => p \in born
       /\ marker[p].reason = RollbackRequired => client[p] \notin {"released", "done"}

\* The operation that holds the identity lock of P.
HeldInv(P) ==
    held[P] # None =>
       /\ ProducerOf[held[P].pub] = P
       /\ marker[held[P].pub] = None => client[held[P].pub] = "done"
       /\ held[P].op = "bind" =>
             /\ held[P].by = "task" /\ task[held[P].pub] = "bind"
             /\ marker[held[P].pub] # None
             /\ marker[held[P].pub].disposition = "reserved"
       /\ held[P].op \in {"verify", "move"} => held[P].by = "task"
       /\ held[P].op \in {"verify", "renew", "move"} /\ held[P].by = "task" =>
             /\ task[held[P].pub] \in {"opening", "activating"}
             /\ marker[held[P].pub] # None
             /\ marker[held[P].pub].reason # RollbackRequired
       /\ held[P].op = "verify" => marker[held[P].pub].disposition = "existing"
       /\ held[P].op \in {"renew", "move", "claim", "finish"} /\ marker[held[P].pub] # None =>
             marker[held[P].pub].disposition # "existing"
       /\ held[P].op \in {"claim", "finish"} /\ held[P].authority # "closed" =>
             held[P].pub \in born
       /\ held[P].authority = "cancelled" => client[held[P].pub] \notin {"released", "done"}

\* From its activation on the row of p stays as it is until its retention ends.
ActiveInv(p) ==
    client[p] \in {"released", "done"} /\ p \notin ended =>
       IF p \in born
       THEN row # None /\ row.pub = p /\ row.state = "active" /\ flight = None
       ELSE ~ InFlight(p)

\* Without its marker p has no row that anyone could find.
ClearedInv(p) ==
    ProducerOf[p] \in alive /\ marker[p] = None /\ client[p] # "done" =>
       /\ IntentOwns(p) => row.state \in {"cleanup", "expired"} \/ p \in ended
       /\ InFlight(p) => flight.row.state \notin Forward

\* The inductive invariant.
Publication ==
    /\ TypeOK /\ StoreInv
    /\ \A p \in Pub : TaskInv(p) /\ MarkerInv(p) /\ ActiveInv(p) /\ ClearedInv(p)
    /\ \A P \in Producer : HeldInv(P)

-----------------------------------------------------------------------------
\* Steps that concern one publication, or none.

\* The publications other than p, and the processes other than p's, are as before.
Elsewhere(p) ==
    /\ \A q \in Pub \ {p} : /\ marker'[q] = marker[q]
                            /\ task'[q] = task[q]
                            /\ client'[q] = client[q]
    /\ \A Q \in Producer \ {ProducerOf[p]} : held'[Q] = held[Q]

\* A step of p keeps the invariant if it keeps it for p, its process and the store.
LEMMA OneMoves ==
    ASSUME Publication, NEW p \in Pub, Elsewhere(p),
           born \subseteq born', TypeOK', StoreInv',
           \A q \in Pub \ {p} : Unborn(q) => Unborn(q)',
           \A q \in Pub \ {p} : ActiveInv(q)' /\ ClearedInv(q)',
           TaskInv(p)', MarkerInv(p)', ActiveInv(p)', ClearedInv(p)', HeldInv(ProducerOf[p])'
    PROVE  Publication'
<1>1. ASSUME NEW q \in Pub \ {p}
      PROVE  TaskInv(q)' /\ MarkerInv(q)'
    <2>1. TaskInv(q) /\ MarkerInv(q)
        BY DEF Publication
    <2>2. /\ marker'[q] = marker[q] /\ task'[q] = task[q] /\ client'[q] = client[q]
          /\ Unborn(q) => Unborn(q)'
        BY DEF Elsewhere
    <2>3. TaskInv(q)'
        BY <2>1, <2>2 DEF TaskInv
    <2>4. MarkerInv(q)'
        BY <2>1, <2>2 DEF MarkerInv
    <2>5. QED
        BY <2>3, <2>4
<1>2. ASSUME NEW Q \in Producer \ {ProducerOf[p]}
      PROVE  HeldInv(Q)'
    <2>1. HeldInv(Q) /\ held'[Q] = held[Q]
        BY DEF Publication, Elsewhere
    <2>2. CASE held[Q] = None
        BY <2>1, <2>2 DEF HeldInv
    <2>3. CASE held[Q] # None
        <3>1. held[Q] \in Held /\ held[Q].pub \in Pub
            BY <2>3 DEF Publication, TypeOK, Held
        <3>2. PICK q \in Pub : q = held[Q].pub
            BY <3>1
        <3>3. q # p
            BY <2>1, <2>3, <3>2 DEF HeldInv
        <3>4. marker'[q] = marker[q] /\ task'[q] = task[q] /\ client'[q] = client[q]
            BY <3>3 DEF Elsewhere
        <3>5. QED
            BY <2>1, <2>3, <3>2, <3>4 DEF HeldInv
    <2>4. QED
        BY <2>2, <2>3
<1>3. QED
    BY <1>1, <1>2 DEF Publication

\* The same for a step that leaves the store and the processes alone.
LEMMA OneMovesLocally ==
    ASSUME Publication, NEW p \in Pub, Elsewhere(p),
           UNCHANGED store, UNCHANGED alive, TypeOK',
           TaskInv(p)', MarkerInv(p)', ActiveInv(p)', ClearedInv(p)', HeldInv(ProducerOf[p])'
    PROVE  Publication'
<1>1. UNCHANGED <<row, flight, ended, born>>
    BY DEF store
<1>2. StoreInv' /\ \A q \in Pub : Unborn(q) => Unborn(q)'
    BY <1>1 DEF Publication, StoreInv, Unborn, InFlight
<1>3. ASSUME NEW q \in Pub \ {p}
      PROVE  ActiveInv(q)' /\ ClearedInv(q)'
    BY <1>1 DEF Elsewhere, Publication, ActiveInv, ClearedInv, InFlight, IntentOwns
<1>4. QED
    BY <1>1, <1>2, <1>3, OneMoves

\* A step of the store alone.
LEMMA StoreMoves ==
    ASSUME Publication, UNCHANGED <<held, marker, task, client>>,
           born \subseteq born', TypeOK', StoreInv',
           \A q \in Pub : Unborn(q) => Unborn(q)',
           \A q \in Pub : ActiveInv(q)' /\ ClearedInv(q)'
    PROVE  Publication'
<1>1. ASSUME NEW q \in Pub
      PROVE  TaskInv(q)' /\ MarkerInv(q)'
    <2>1. TaskInv(q)'
        BY DEF Publication, TaskInv
    <2>2. MarkerInv(q)'
        BY DEF Publication, MarkerInv
    <2>3. QED
        BY <2>1, <2>2
<1>2. ASSUME NEW Q \in Producer
      PROVE  HeldInv(Q)'
    BY DEF Publication, HeldInv
<1>3. QED
    BY <1>1, <1>2 DEF Publication

\* An operation on another publication is not disturbed.
LEMMA HeldAside ==
    ASSUME Publication, NEW p \in Pub, Elsewhere(p), UNCHANGED held, born \subseteq born',
           held[ProducerOf[p]] = None \/ held[ProducerOf[p]].pub # p
    PROVE  HeldInv(ProducerOf[p])'
<1>1. ProducerOf[p] \in Producer /\ HeldInv(ProducerOf[p])
    BY PubAssumption DEF Publication
<1>2. CASE held[ProducerOf[p]] = None
    BY <1>2 DEF HeldInv
<1>3. CASE held[ProducerOf[p]] # None
    <2>1. held[ProducerOf[p]].pub \in Pub
        BY <1>1, <1>3 DEF Publication, TypeOK, Held
    <2>2. PICK q \in Pub \ {p} : q = held[ProducerOf[p]].pub
        BY <1>3, <2>1
    <2>3. marker'[q] = marker[q] /\ task'[q] = task[q] /\ client'[q] = client[q]
        BY DEF Elsewhere
    <2>4. QED
        BY <1>1, <1>3, <2>2, <2>3 DEF HeldInv
<1>4. QED
    BY <1>2, <1>3

-----------------------------------------------------------------------------
\* The operators on markers.

\* Strengthening changes nothing but the reason.
LEMMA StrongerIs ==
    ASSUME NEW m \in Marker \cup {None}, NEW k \in Open..RollbackRequired
    PROVE  /\ Stronger(m, k) \in Marker \cup {None}
           /\ Stronger(m, k) = None <=> m = None
           /\ m # None => /\ Stronger(m, k).disposition = m.disposition
                          /\ Stronger(m, k).of = m.of
                          /\ Stronger(m, k).watched <=> m.watched
                          /\ Stronger(m, k).reason = IF m.reason < k THEN k ELSE m.reason
<1>1. CASE m = None
    BY <1>1 DEF Stronger
<1>2. CASE m # None
    <2>1. m \in Marker /\ m.reason \in Open..RollbackRequired
        BY <1>2 DEF Marker
    <2>2. Stronger(m, k) = [m EXCEPT !.reason = IF m.reason < k THEN k ELSE m.reason]
        BY <1>2 DEF Stronger
    <2>3. (IF m.reason < k THEN k ELSE m.reason) \in Open..RollbackRequired
        BY <2>1
    <2>4. Stronger(m, k) \in Marker
        BY <2>1, <2>2, <2>3 DEF Marker
    <2>5. QED
        BY <1>2, <2>1, <2>2, <2>4, PubAssumption DEF Marker
<1>3. QED
    BY <1>1, <1>2

\* The stages of a task, and the states of a delivery.
TaskStage == {"new", "bind", "prepared", "dropped", "opening", "ack",
              "activating", "commit", "undo", "last", "over"}

\* A marker that is kept: its reason may get stronger, and its task may turn back.
Recedes(p) ==
    /\ marker' \in [Pub -> Marker \cup {None}]
    /\ task' \in [Pub -> TaskStage]
    /\ \A q \in Pub \ {p} : marker'[q] = marker[q] /\ task'[q] = task[q]
    /\ task'[p] \in {task[p], "undo", "last", "over"}
    /\ marker'[p] = None <=> marker[p] = None
    /\ marker[p] # None =>
          /\ marker'[p].disposition = marker[p].disposition
          /\ marker'[p].watched <=> marker[p].watched
          /\ marker[p].reason = RollbackRequired => marker'[p].reason = RollbackRequired
          /\ marker'[p].reason = RollbackRequired =>
                marker[p].reason = RollbackRequired \/ client[p] \notin {"released", "done"}
          /\ task'[p] \in {"undo", "last"} => marker'[p].reason = RollbackRequired

\* What Recedes needs of a strengthened marker.
Firmer(n, m) ==
    /\ n \in Marker \cup {None}
    /\ n = None <=> m = None
    /\ m # None =>
          /\ n.disposition = m.disposition
          /\ n.watched <=> m.watched
          /\ m.reason = RollbackRequired => n.reason = RollbackRequired

\* A marker is as firm as itself.
LEMMA FirmerSelf ==
    ASSUME NEW m \in Marker \cup {None}
    PROVE  Firmer(m, m)
    BY DEF Firmer

\* Strengthening keeps or records the cancellation.
LEMMA FirmerStronger ==
    ASSUME NEW m \in Marker \cup {None}
    PROVE  /\ Firmer(Stronger(m, Uncertain), m)
           /\ m # None => (Stronger(m, Uncertain).reason = RollbackRequired
                              <=> m.reason = RollbackRequired)
           /\ Firmer(Stronger(m, Retiring), m)
           /\ m # None => (Stronger(m, Retiring).reason = RollbackRequired
                              <=> m.reason = RollbackRequired)
           /\ Firmer(Stronger(m, RollbackRequired), m)
           /\ m # None => Stronger(m, RollbackRequired).reason = RollbackRequired
<1>1. /\ Uncertain \in Open..RollbackRequired /\ RollbackRequired \in Open..RollbackRequired
      /\ Retiring \in Open..RollbackRequired
    BY DEF Uncertain, RollbackRequired, Open, Retiring
<1>2. m # None => m.reason \in Open..RollbackRequired
    BY DEF Marker
<1>3. /\ Stronger(m, Uncertain) \in Marker \cup {None}
      /\ Stronger(m, Uncertain) = None <=> m = None
      /\ m # None => /\ Stronger(m, Uncertain).disposition = m.disposition
                     /\ Stronger(m, Uncertain).watched <=> m.watched
                     /\ Stronger(m, Uncertain).reason =
                           IF m.reason < Uncertain THEN Uncertain ELSE m.reason
    BY <1>1, StrongerIs
<1>4. /\ Stronger(m, RollbackRequired) \in Marker \cup {None}
      /\ Stronger(m, RollbackRequired) = None <=> m = None
      /\ m # None => /\ Stronger(m, RollbackRequired).disposition = m.disposition
                     /\ Stronger(m, RollbackRequired).watched <=> m.watched
                     /\ Stronger(m, RollbackRequired).reason =
                           IF m.reason < RollbackRequired THEN RollbackRequired ELSE m.reason
    BY <1>1, StrongerIs
<1>5. /\ Stronger(m, Retiring) \in Marker \cup {None}
      /\ Stronger(m, Retiring) = None <=> m = None
      /\ m # None => /\ Stronger(m, Retiring).disposition = m.disposition
                     /\ Stronger(m, Retiring).watched <=> m.watched
                     /\ Stronger(m, Retiring).reason =
                           IF m.reason < Retiring THEN Retiring ELSE m.reason
    BY <1>1, StrongerIs
<1>6. Firmer(Stronger(m, Uncertain), m)
    BY <1>2, <1>3 DEF Firmer, Uncertain, RollbackRequired, Open
<1>7. Firmer(Stronger(m, RollbackRequired), m)
    BY <1>2, <1>4 DEF Firmer, RollbackRequired, Open
<1>8. Firmer(Stronger(m, Retiring), m)
    BY <1>2, <1>5 DEF Firmer, Retiring, RollbackRequired, Open
<1>9. m # None => Stronger(m, RollbackRequired).reason = RollbackRequired
    BY <1>2, <1>4 DEF RollbackRequired, Open
<1>10. m # None => /\ Stronger(m, Uncertain).reason = RollbackRequired
                         <=> m.reason = RollbackRequired
                   /\ Stronger(m, Retiring).reason = RollbackRequired
                         <=> m.reason = RollbackRequired
    BY <1>2, <1>3, <1>5 DEF Uncertain, RollbackRequired, Open, Retiring
<1>11. QED
    BY <1>6, <1>7, <1>8, <1>9, <1>10

\* A rollback records the cancellation unless the terminal was committed.
LEMMA RollbackRecedes ==
    ASSUME TypeOK, NEW p \in Pub, NEW n, NEW stage \in {"undo", "last"},
           Firmer(n, marker[p]), Rollback(p, n, stage),
           n # None => (n.reason = RollbackRequired <=> marker[p].reason = RollbackRequired),
           client[p] \notin {"released", "done"}
    PROVE  Recedes(p) /\ task'[p] \in {"undo", "last", "over"}
<1>1. /\ marker \in [Pub -> Marker \cup {None}]
      /\ task \in [Pub -> TaskStage]
      /\ n \in Marker \cup {None}
    BY DEF TypeOK, TaskStage, Firmer
<1>2. Witness(p) # "success"
    BY DEF Witness
<1>3. CASE n = None
    <2>1. marker' = [marker EXCEPT ![p] = n] /\ task' = [task EXCEPT ![p] = "over"]
        BY <1>3 DEF Rollback
    <2>2. /\ marker'[p] = None /\ marker[p] = None /\ task'[p] = "over"
          /\ marker' \in [Pub -> Marker \cup {None}]
          /\ task' \in [Pub -> TaskStage]
          /\ \A q \in Pub \ {p} : marker'[q] = marker[q] /\ task'[q] = task[q]
        BY <1>1, <1>3, <2>1 DEF TaskStage, Firmer
    <2>3. QED
        BY <2>2 DEF Recedes
<1>4. CASE n # None
    <2>1. PICK k : k = Stronger(n, RollbackRequired)
        OBVIOUS
    <2>2. Firmer(k, n) /\ k.reason = RollbackRequired
        BY <1>1, <1>4, <2>1, FirmerStronger
    <2>3. marker' = [marker EXCEPT ![p] = k] /\ task' = [task EXCEPT ![p] = stage]
        BY <1>2, <1>4, <2>1 DEF Rollback
    <2>4. k \in Marker \cup {None} /\ stage \in TaskStage
        BY <2>2 DEF Firmer, TaskStage
    <2>5. /\ marker' \in [Pub -> Marker \cup {None}]
          /\ task' \in [Pub -> TaskStage]
          /\ marker'[p] = k /\ task'[p] = stage
          /\ \A q \in Pub \ {p} : marker'[q] = marker[q] /\ task'[q] = task[q]
        BY <1>1, <2>3, <2>4
    <2>6. QED
        BY <1>4, <2>2, <2>5 DEF Recedes, Firmer
<1>5. QED
    BY <1>3, <1>4

\* An attempt at a rollback ends: the task goes on to its last attempt, or is over.
LEMMA AttemptIs ==
    ASSUME TypeOK, NEW p \in Pub, NEW by, NEW resolved \in BOOLEAN,
           task' = AfterAttempt(p, by, resolved)
    PROVE  /\ task' \in [Pub -> TaskStage]
           /\ \A q \in Pub \ {p} : task'[q] = task[q]
           /\ task'[p] \in {task[p], "last", "over"}
           /\ task'[p] = "last" => task[p] \in {"undo", "last"}
<1>1. task \in [Pub -> TaskStage]
    BY DEF TypeOK, TaskStage
<1>2. CASE by = "worker"
    BY <1>1, <1>2 DEF AfterAttempt
<1>3. CASE by # "worker"
    <2>1. task' = [task EXCEPT ![p] = IF task[p] = "undo" /\ ~ resolved THEN "last" ELSE "over"]
        BY <1>3 DEF AfterAttempt
    <2>2. QED
        BY <1>1, <2>1 DEF TaskStage
<1>4. QED
    BY <1>2, <1>3

\* The invariant of a publication that recedes, whatever happens to the store.
LEMMA RecedeInv ==
    ASSUME Publication, NEW p \in Pub, Recedes(p), client' = client, born \subseteq born',
           Unborn(p) /\ (\/ task'[p] \in {"new", "bind"}
                         \/ marker[p] # None /\ marker[p].disposition = "existing") => Unborn(p)'
    PROVE  TaskInv(p)' /\ MarkerInv(p)'
<1>1. TaskInv(p) /\ MarkerInv(p)
    BY DEF Publication
<1>2. TaskInv(p)'
    BY <1>1 DEF Recedes, TaskInv
<1>3. MarkerInv(p)'
    BY <1>1 DEF Recedes, MarkerInv
<1>4. QED
    BY <1>2, <1>3

\* The lock is let go, or is held by nobody who needs the task where it was.
LetGo(p) ==
    /\ held' \in [Producer -> Held \cup {None}]
    /\ \A Q \in Producer \ {ProducerOf[p]} : held'[Q] = held[Q]
    /\ \/ held'[ProducerOf[p]] = None
       \/ /\ UNCHANGED held
          /\ held[ProducerOf[p]].pub = p /\ held[ProducerOf[p]].by = "task" =>
                task[p] \notin {"bind", "opening", "activating"}

\* The operation of p's process after p has receded.
LEMMA RecedeHeld ==
    ASSUME Publication, NEW p \in Pub, Recedes(p), client' = client, LetGo(p),
           born \subseteq born', Elsewhere(p)
    PROVE  HeldInv(ProducerOf[p])'
<1>1. ProducerOf[p] \in Producer /\ HeldInv(ProducerOf[p])
    BY PubAssumption DEF Publication
<1>2. CASE held'[ProducerOf[p]] = None
    BY <1>2 DEF HeldInv
<1>3. CASE held'[ProducerOf[p]] # None
    <2>1. /\ UNCHANGED held
          /\ held[ProducerOf[p]].pub = p /\ held[ProducerOf[p]].by = "task" =>
                task[p] \notin {"bind", "opening", "activating"}
        BY <1>3 DEF LetGo
    <2>2. CASE held[ProducerOf[p]].pub # p
        BY <2>1, <2>2, HeldAside
    <2>3. CASE held[ProducerOf[p]].pub = p
        BY <1>1, <1>3, <2>1, <2>3 DEF HeldInv, Recedes
    <2>4. QED
        BY <2>2, <2>3
<1>4. QED
    BY <1>2, <1>3

\* The workers are where a worker can be.
Staffed == worker \in [Producer -> {"unstarted", "running", "ended"}]

\* Whether or not a worker is started.
LEMMA StaffedStarts ==
    ASSUME Publication, NEW P, StartReconciler(P) \/ UNCHANGED worker
    PROVE  Staffed'
<1>1. worker \in [Producer -> {"unstarted", "running", "ended"}]
    BY DEF Publication, TypeOK
<1>2. QED
    BY <1>1 DEF Staffed, StartReconciler

\* A step that only recedes, and may start a worker.
LEMMA RecedeBeside ==
    ASSUME Publication, NEW p \in Pub, Recedes(p), LetGo(p), Staffed',
           UNCHANGED <<store, records, client>>
    PROVE  Publication'
<1>1. UNCHANGED <<row, flight, ended, born, closed, closure, alive, accepting, client>>
    BY DEF store, records
<1>2. TypeOK /\ ActiveInv(p) /\ ClearedInv(p)
    BY DEF Publication
<1>3. Elsewhere(p)
    BY <1>1 DEF Elsewhere, Recedes, LetGo
<1>4. TypeOK'
    BY <1>1, <1>2 DEF TypeOK, Staffed, Recedes, LetGo, TaskStage
<1>5. Unborn(p) => Unborn(p)'
    BY <1>1 DEF Unborn, InFlight
<1>6. TaskInv(p)' /\ MarkerInv(p)'
    BY <1>1, <1>5, RecedeInv
<1>7. HeldInv(ProducerOf[p])'
    BY <1>1, <1>3, RecedeHeld
<1>8. ActiveInv(p)'
    BY <1>1, <1>2 DEF ActiveInv, InFlight
<1>9. ClearedInv(p)'
    BY <1>1, <1>2 DEF ClearedInv, InFlight, IntentOwns, Recedes
<1>10. QED
    BY <1>1, <1>3, <1>4, <1>6, <1>7, <1>8, <1>9, OneMovesLocally DEF store

\* A step that only recedes.
LEMMA RecedeLocally ==
    ASSUME Publication, NEW p \in Pub, Recedes(p), LetGo(p),
           UNCHANGED <<store, process, client>>
    PROVE  Publication'
<1>1. UNCHANGED <<store, records, client>> /\ UNCHANGED worker
    BY DEF process
<1>2. Staffed'
    BY <1>1, StaffedStarts
<1>3. QED
    BY <1>1, <1>2, RecedeBeside

-----------------------------------------------------------------------------
\* Steps of the settlement task and of the delivery.

\* A marker is reserved and the bind begins.
LEMMA ReserveKeeps ==
    ASSUME Publication, NEW p \in Pub, Reserve(p)
    PROVE  Publication'
<1>1. /\ TypeOK /\ StoreInv /\ TaskInv(p) /\ MarkerInv(p) /\ ActiveInv(p) /\ ClearedInv(p)
      /\ HeldInv(ProducerOf[p]) /\ ProducerOf[p] \in Producer
    BY PubAssumption DEF Publication
<1>2. UNCHANGED <<row, flight, ended, born, closed, closure, alive, accepting, worker,
                  client>>
    BY DEF Reserve, store, process, records, Release
<1>3. task[p] = "new" /\ held[ProducerOf[p]] = None
    BY <1>1 DEF TypeOK, Release, Reserve
<1>4. client[p] = "none"
    BY <1>1, <1>2, <1>3 DEF TaskInv
<1>5. [disposition |-> "reserved", of |-> p, reason |-> Open, watched |-> FALSE] \in Marker
    BY <1>1, <1>2, <1>3, <1>4, PubAssumption DEF Marker, Open, RollbackRequired
<1>6. [by |-> "task", pub |-> p, op |-> "bind", authority |-> "none"] \in Held
    BY <1>1, <1>2, <1>3, <1>4, <1>5, PubAssumption DEF Held, Op, Authority
<1>7. /\ task'[p] = "bind"
      /\ marker'[p] = [disposition |-> "reserved", of |-> p, reason |-> Open, watched |-> FALSE]
      /\ held'[ProducerOf[p]] = [by |-> "task", pub |-> p, op |-> "bind", authority |-> "none"]
    BY <1>1, <1>2, <1>3, <1>4, <1>5, <1>6 DEF TypeOK, Reserve
<1>8. marker'[p] # None /\ held'[ProducerOf[p]] # None
    BY <1>1, <1>2, <1>3, <1>4, <1>5, <1>6, <1>7, PubAssumption
<1>9. TypeOK'
    BY <1>1, <1>2, <1>3, <1>4, <1>5, <1>6, <1>7, <1>8 DEF TypeOK, Reserve, Release
<1>10. Elsewhere(p)
    BY <1>1, <1>2, <1>3, <1>4, <1>5, <1>6, <1>7, <1>8
       DEF Elsewhere, TypeOK, Reserve, Release
<1>11. TaskInv(p)'
    BY <1>1, <1>2, <1>3, <1>4, <1>5, <1>6, <1>7, <1>8 DEF TaskInv, Unborn, InFlight
<1>12. MarkerInv(p)'
    BY <1>1, <1>2, <1>3, <1>4, <1>5, <1>6, <1>7, <1>8
       DEF MarkerInv, Unborn, InFlight, Open, RollbackRequired
<1>13. ActiveInv(p)'
    BY <1>1, <1>2, <1>3, <1>4, <1>5, <1>6, <1>7, <1>8 DEF ActiveInv, InFlight
<1>14. ClearedInv(p)'
    BY <1>1, <1>2, <1>3, <1>4, <1>5, <1>6, <1>7, <1>8 DEF ClearedInv, IntentOwns, InFlight
<1>15. HeldInv(ProducerOf[p])'
    BY <1>1, <1>2, <1>3, <1>4, <1>5, <1>6, <1>7, <1>8, <1>10
       DEF HeldInv, Elsewhere, TypeOK, Held
<1>16. QED
    BY <1>9, <1>10, <1>11, <1>12, <1>13, <1>14, <1>15, <1>2, OneMovesLocally DEF store

\* A registry that does not accept refuses.
LEMMA ReserveRefusedKeeps ==
    ASSUME Publication, NEW p \in Pub, ReserveRefused(p)
    PROVE  Publication'
<1>1. /\ TypeOK /\ StoreInv /\ TaskInv(p) /\ MarkerInv(p) /\ ActiveInv(p) /\ ClearedInv(p)
      /\ HeldInv(ProducerOf[p]) /\ ProducerOf[p] \in Producer
    BY PubAssumption DEF Publication
<1>2. UNCHANGED <<row, flight, ended, born, closed, closure, alive, accepting, worker, held,
                  marker, client>>
    BY DEF ReserveRefused, store, process, records, Release
<1>3. task[p] = "new" /\ task'[p] = "over"
    BY <1>1 DEF TypeOK, Release, ReserveRefused
<1>4. TypeOK'
    BY <1>1, <1>2, <1>3 DEF TypeOK, ReserveRefused, Release
<1>5. Elsewhere(p)
    BY <1>1, <1>2, <1>3 DEF Elsewhere, TypeOK, ReserveRefused, Release
<1>6. TaskInv(p)'
    BY <1>1, <1>2, <1>3 DEF TaskInv, Unborn, InFlight
<1>7. MarkerInv(p)'
    BY <1>1, <1>2, <1>3 DEF MarkerInv, Unborn, InFlight
<1>8. ActiveInv(p)'
    BY <1>1, <1>2, <1>3 DEF ActiveInv, InFlight
<1>9. ClearedInv(p)'
    BY <1>1, <1>2, <1>3 DEF ClearedInv, IntentOwns, InFlight
<1>10. HeldInv(ProducerOf[p])'
    BY <1>1, <1>2, <1>3, <1>5 DEF HeldInv, Elsewhere, TypeOK, Held
<1>11. QED
    BY <1>4, <1>5, <1>6, <1>7, <1>8, <1>9, <1>10, <1>2, OneMovesLocally DEF store

\* A prepared response is dropped.
LEMMA DroppedKeeps ==
    ASSUME Publication, NEW p \in Pub, Dropped(p)
    PROVE  Publication'
<1>1. /\ TypeOK /\ StoreInv /\ TaskInv(p) /\ MarkerInv(p) /\ ActiveInv(p) /\ ClearedInv(p)
      /\ HeldInv(ProducerOf[p]) /\ ProducerOf[p] \in Producer
    BY PubAssumption DEF Publication
<1>2. UNCHANGED <<row, flight, ended, born, closed, closure, alive, accepting, worker, held,
                  marker, client>>
    BY DEF Dropped, store, process, records, Release
<1>3. task[p] = "prepared" /\ task'[p] = "dropped"
    BY <1>1 DEF TypeOK, Release, Dropped
<1>4. TypeOK'
    BY <1>1, <1>2, <1>3 DEF TypeOK, Dropped, Release
<1>5. Elsewhere(p)
    BY <1>1, <1>2, <1>3 DEF Elsewhere, TypeOK, Dropped, Release
<1>6. TaskInv(p)'
    BY <1>1, <1>2, <1>3 DEF TaskInv, Unborn, InFlight
<1>7. MarkerInv(p)'
    BY <1>1, <1>2, <1>3 DEF MarkerInv, Unborn, InFlight
<1>8. ActiveInv(p)'
    BY <1>1, <1>2, <1>3 DEF ActiveInv, InFlight
<1>9. ClearedInv(p)'
    BY <1>1, <1>2, <1>3 DEF ClearedInv, IntentOwns, InFlight
<1>10. HeldInv(ProducerOf[p])'
    BY <1>1, <1>2, <1>3, <1>5 DEF HeldInv, Elsewhere, TypeOK, Held
<1>11. QED
    BY <1>4, <1>5, <1>6, <1>7, <1>8, <1>9, <1>10, <1>2, OneMovesLocally DEF store

\* A rollback finds its marker cleared.
LEMMA NothingToUndoKeeps ==
    ASSUME Publication, NEW p \in Pub, NothingToUndo(p)
    PROVE  Publication'
<1>1. /\ TypeOK /\ StoreInv /\ TaskInv(p) /\ MarkerInv(p) /\ ActiveInv(p) /\ ClearedInv(p)
      /\ HeldInv(ProducerOf[p]) /\ ProducerOf[p] \in Producer
    BY PubAssumption DEF Publication
<1>2. UNCHANGED <<row, flight, ended, born, closed, closure, alive, accepting, worker, held,
                  marker, client>>
    BY DEF NothingToUndo, store, process, records, Release
<1>3. /\ task[p] \in {"undo", "last"} /\ task'[p] = "over"
      /\ marker[p] = None /\ held[ProducerOf[p]] = None
    BY <1>1 DEF TypeOK, Release, NothingToUndo
<1>4. TypeOK'
    BY <1>1, <1>2, <1>3 DEF TypeOK, NothingToUndo, Release
<1>5. Elsewhere(p)
    BY <1>1, <1>2, <1>3 DEF Elsewhere, TypeOK, NothingToUndo, Release
<1>6. TaskInv(p)'
    BY <1>1, <1>2, <1>3 DEF TaskInv, Unborn, InFlight
<1>7. MarkerInv(p)'
    BY <1>1, <1>2, <1>3 DEF MarkerInv, Unborn, InFlight
<1>8. ActiveInv(p)'
    BY <1>1, <1>2, <1>3 DEF ActiveInv, InFlight
<1>9. ClearedInv(p)'
    BY <1>1, <1>2, <1>3 DEF ClearedInv, IntentOwns, InFlight
<1>10. HeldInv(ProducerOf[p])'
    BY <1>1, <1>2, <1>3, <1>5 DEF HeldInv, Elsewhere, TypeOK, Held
<1>11. QED
    BY <1>4, <1>5, <1>6, <1>7, <1>8, <1>9, <1>10, <1>2, OneMovesLocally DEF store

\* The client acknowledges.
LEMMA AcknowledgeKeeps ==
    ASSUME Publication, NEW p \in Pub, Acknowledge(p)
    PROVE  Publication'
<1>1. /\ TypeOK /\ StoreInv /\ TaskInv(p) /\ MarkerInv(p) /\ ActiveInv(p) /\ ClearedInv(p)
      /\ HeldInv(ProducerOf[p]) /\ ProducerOf[p] \in Producer
    BY PubAssumption DEF Publication
<1>2. UNCHANGED <<row, flight, ended, born, closed, closure, alive, accepting, worker, held,
                  marker, task>>
    BY DEF Acknowledge, store, process, records, Release
<1>3. /\ client[p] = "pending" /\ task[p] = "ack"
      /\ client'[p] = "acked"
    BY <1>1 DEF TypeOK, Release, Acknowledge
<1>4. TypeOK'
    BY <1>1, <1>2, <1>3 DEF TypeOK, Acknowledge, Release
<1>5. Elsewhere(p)
    BY <1>1, <1>2, <1>3 DEF Elsewhere, TypeOK, Acknowledge, Release
<1>6. TaskInv(p)'
    BY <1>1, <1>2, <1>3 DEF TaskInv, Unborn, InFlight
<1>7. MarkerInv(p)'
    BY <1>1, <1>2, <1>3 DEF MarkerInv, Unborn, InFlight
<1>8. ActiveInv(p)'
    BY <1>1, <1>2, <1>3 DEF ActiveInv, InFlight
<1>9. ClearedInv(p)'
    BY <1>1, <1>2, <1>3 DEF ClearedInv, IntentOwns, InFlight
<1>10. HeldInv(ProducerOf[p])'
    BY <1>1, <1>2, <1>3, <1>5 DEF HeldInv, Elsewhere, TypeOK, Held
<1>11. QED
    BY <1>4, <1>5, <1>6, <1>7, <1>8, <1>9, <1>10, <1>2, OneMovesLocally DEF store

\* Rendering fails.
LEMMA RenderFailsKeeps ==
    ASSUME Publication, NEW p \in Pub, RenderFails(p)
    PROVE  Publication'
<1>1. /\ TypeOK /\ StoreInv /\ TaskInv(p) /\ MarkerInv(p) /\ ActiveInv(p) /\ ClearedInv(p)
      /\ HeldInv(ProducerOf[p]) /\ ProducerOf[p] \in Producer
    BY PubAssumption DEF Publication
<1>2. UNCHANGED <<row, flight, ended, born, closed, closure, alive, accepting, worker, held,
                  marker, task>>
    BY DEF RenderFails, store, process, records, Release
<1>3. client[p] = "pending" /\ client'[p] = "failing"
    BY <1>1 DEF TypeOK, Release, RenderFails
<1>4. TypeOK'
    BY <1>1, <1>2, <1>3 DEF TypeOK, RenderFails, Release
<1>5. Elsewhere(p)
    BY <1>1, <1>2, <1>3 DEF Elsewhere, TypeOK, RenderFails, Release
<1>6. TaskInv(p)'
    BY <1>1, <1>2, <1>3 DEF TaskInv, Unborn, InFlight
<1>7. MarkerInv(p)'
    BY <1>1, <1>2, <1>3 DEF MarkerInv, Unborn, InFlight
<1>8. ActiveInv(p)'
    BY <1>1, <1>2, <1>3 DEF ActiveInv, InFlight
<1>9. ClearedInv(p)'
    BY <1>1, <1>2, <1>3 DEF ClearedInv, IntentOwns, InFlight
<1>10. HeldInv(ProducerOf[p])'
    BY <1>1, <1>2, <1>3, <1>5 DEF HeldInv, Elsewhere, TypeOK, Held
<1>11. QED
    BY <1>4, <1>5, <1>6, <1>7, <1>8, <1>9, <1>10, <1>2, OneMovesLocally DEF store

\* The delivery future is dropped.
LEMMA DisconnectKeeps ==
    ASSUME Publication, NEW p \in Pub, Disconnect(p)
    PROVE  Publication'
<1>1. /\ TypeOK /\ StoreInv /\ TaskInv(p) /\ MarkerInv(p) /\ ActiveInv(p) /\ ClearedInv(p)
      /\ HeldInv(ProducerOf[p]) /\ ProducerOf[p] \in Producer
    BY PubAssumption DEF Publication
<1>2. UNCHANGED <<row, flight, ended, born, closed, closure, alive, accepting, worker, held,
                  marker, task>>
    BY DEF Disconnect, store, process, records, Release
<1>3. /\ client[p] \in {"pending", "failing", "acked", "released"}
      /\ client'[p] = "gone"
    BY <1>1 DEF TypeOK, Release, Disconnect
<1>4. TypeOK'
    BY <1>1, <1>2, <1>3 DEF TypeOK, Disconnect, Release
<1>5. Elsewhere(p)
    BY <1>1, <1>2, <1>3 DEF Elsewhere, TypeOK, Disconnect, Release
<1>6. TaskInv(p)'
    BY <1>1, <1>2, <1>3 DEF TaskInv, Unborn, InFlight
<1>7. MarkerInv(p)'
    BY <1>1, <1>2, <1>3 DEF MarkerInv, Unborn, InFlight
<1>8. ActiveInv(p)'
    BY <1>1, <1>2, <1>3 DEF ActiveInv, InFlight
<1>9. ClearedInv(p)'
    BY <1>1, <1>2, <1>3 DEF ClearedInv, IntentOwns, InFlight
<1>10. HeldInv(ProducerOf[p])'
    BY <1>1, <1>2, <1>3, <1>5 DEF HeldInv, Elsewhere, TypeOK, Held
<1>11. QED
    BY <1>4, <1>5, <1>6, <1>7, <1>8, <1>9, <1>10, <1>2, OneMovesLocally DEF store

\* The terminal is committed.
LEMMA CommitKeeps ==
    ASSUME Publication, NEW p \in Pub, Commit(p)
    PROVE  Publication'
<1>1. /\ TypeOK /\ StoreInv /\ TaskInv(p) /\ MarkerInv(p) /\ ActiveInv(p) /\ ClearedInv(p)
      /\ HeldInv(ProducerOf[p]) /\ ProducerOf[p] \in Producer
    BY PubAssumption DEF Publication
<1>2. UNCHANGED <<row, flight, ended, born, closed, closure, alive, accepting, worker, held,
                  marker, task>>
    BY DEF Commit, store, process, records, Release
<1>3. /\ client[p] = "released" /\ task[p] = "commit"
      /\ client'[p] = "done"
    BY <1>1 DEF TypeOK, Release, Commit
<1>4. TypeOK'
    BY <1>1, <1>2, <1>3 DEF TypeOK, Commit, Release
<1>5. Elsewhere(p)
    BY <1>1, <1>2, <1>3 DEF Elsewhere, TypeOK, Commit, Release
<1>6. TaskInv(p)'
    BY <1>1, <1>2, <1>3 DEF TaskInv, Unborn, InFlight
<1>7. MarkerInv(p)'
    BY <1>1, <1>2, <1>3 DEF MarkerInv, Unborn, InFlight
<1>8. ActiveInv(p)'
    BY <1>1, <1>2, <1>3 DEF ActiveInv, InFlight
<1>9. ClearedInv(p)'
    BY <1>1, <1>2, <1>3 DEF ClearedInv, IntentOwns, InFlight
<1>10. HeldInv(ProducerOf[p])'
    BY <1>1, <1>2, <1>3, <1>5 DEF HeldInv, Elsewhere, TypeOK, Held
<1>11. QED
    BY <1>4, <1>5, <1>6, <1>7, <1>8, <1>9, <1>10, <1>2, OneMovesLocally DEF store

\* The delivery of a prepared response begins.
LEMMA BeginDeliveryKeeps ==
    ASSUME Publication, NEW p \in Pub, BeginDelivery(p)
    PROVE  Publication'
<1>1. /\ TypeOK /\ StoreInv /\ TaskInv(p) /\ MarkerInv(p) /\ ActiveInv(p) /\ ClearedInv(p)
      /\ HeldInv(ProducerOf[p]) /\ ProducerOf[p] \in Producer
    BY PubAssumption DEF Publication
<1>2. UNCHANGED <<row, flight, ended, born, closed, closure, alive, accepting, worker, held>>
    BY DEF BeginDelivery, store, process, records, Release
<1>3. task[p] = "prepared" /\ client'[p] = "pending" /\ task'[p] = "opening"
    BY <1>1 DEF TypeOK, Release, BeginDelivery
<1>4. client[p] = "none"
    BY <1>1, <1>2, <1>3 DEF TaskInv
<1>5. marker'[p] = IF marker[p] = None THEN None ELSE [marker[p] EXCEPT !.watched = TRUE]
    BY <1>1, <1>2, <1>3, <1>4 DEF TypeOK, BeginDelivery
<1>6. marker[p] # None => [marker[p] EXCEPT !.watched = TRUE] \in Marker
    BY <1>1, <1>2, <1>3, <1>4, <1>5 DEF TypeOK, Marker
<1>7. /\ marker'[p] \in Marker \cup {None}
      /\ marker'[p] = None <=> marker[p] = None
    BY <1>1, <1>2, <1>3, <1>4, <1>5, <1>6, PubAssumption
<1>8. marker[p] # None =>
          /\ marker'[p].disposition = marker[p].disposition
          /\ marker'[p].reason = marker[p].reason
          /\ marker'[p].watched
    BY <1>1, <1>2, <1>3, <1>4, <1>5, <1>6, <1>7 DEF TypeOK, Marker
<1>9. TypeOK'
    BY <1>1, <1>2, <1>3, <1>4, <1>5, <1>6, <1>7, <1>8 DEF TypeOK, BeginDelivery, Release
<1>10. Elsewhere(p)
    BY <1>1, <1>2, <1>3, <1>4, <1>5, <1>6, <1>7, <1>8
       DEF Elsewhere, TypeOK, BeginDelivery, Release
<1>11. TaskInv(p)'
    BY <1>1, <1>2, <1>3, <1>4, <1>7, <1>8 DEF TaskInv, Unborn, InFlight
<1>12. MarkerInv(p)'
    BY <1>1, <1>2, <1>3, <1>4, <1>7, <1>8 DEF MarkerInv, Unborn, InFlight
<1>13. ActiveInv(p)'
    BY <1>1, <1>2, <1>3, <1>4, <1>7, <1>8 DEF ActiveInv, InFlight
<1>14. ClearedInv(p)'
    BY <1>1, <1>2, <1>3, <1>4, <1>7, <1>8 DEF ClearedInv, IntentOwns, InFlight
<1>15. HeldInv(ProducerOf[p])'
    <2>1. CASE held[ProducerOf[p]] = None \/ held[ProducerOf[p]].pub # p
        BY <2>1, <1>1, <1>2, <1>10, HeldAside
    <2>2. CASE held[ProducerOf[p]] # None /\ held[ProducerOf[p]].pub = p
        BY <2>2, <1>1, <1>2, <1>3, <1>4, <1>7, <1>8 DEF HeldInv
    <2>3. QED
        BY <2>1, <2>2
<1>16. QED
    BY <1>9, <1>10, <1>11, <1>12, <1>13, <1>14, <1>15, <1>2, OneMovesLocally DEF store

\* The forward path takes the identity lock.
LEMMA ShareForwardTakesKeeps ==
    ASSUME Publication, NEW p \in Pub, ShareForward(p), Forwardable(p)
    PROVE  Publication'
<1>1. /\ TypeOK /\ StoreInv /\ TaskInv(p) /\ MarkerInv(p) /\ ActiveInv(p) /\ ClearedInv(p)
      /\ HeldInv(ProducerOf[p]) /\ ProducerOf[p] \in Producer
    BY PubAssumption DEF Publication
<1>2. UNCHANGED <<row, flight, ended, born, closed, closure, alive, accepting, worker,
                  marker, task, client>>
    BY DEF ShareForward, store, process, records, Release
<1>3. /\ task[p] \in {"opening", "activating"} /\ held[ProducerOf[p]] = None
    BY <1>1 DEF TypeOK, Release, ShareForward
<1>4. marker[p] # None /\ marker[p].reason # RollbackRequired
    BY <1>1, <1>2, <1>3 DEF Forwardable, Open, RollbackRequired
<1>5. PICK h : h = [by |-> "task", pub |-> p, authority |-> "none",
                      op |-> IF marker[p].disposition = "existing" THEN "verify" ELSE "renew"]
    OBVIOUS
<1>6. h \in Held /\ h # None
    BY <1>1, <1>2, <1>3, <1>4, <1>5, PubAssumption DEF Held, Op, Authority
<1>7. /\ h.by = "task" /\ h.pub = p /\ h.authority = "none"
      /\ h.op = IF marker[p].disposition = "existing" THEN "verify" ELSE "renew"
    BY <1>1, <1>2, <1>3, <1>4, <1>5, <1>6
<1>8. held' = [held EXCEPT ![ProducerOf[p]] = h]
    BY <1>1, <1>2, <1>3, <1>4, <1>5, <1>6, <1>7 DEF ShareForward
<1>9. held'[ProducerOf[p]] = h
    BY <1>1, <1>2, <1>3, <1>4, <1>5, <1>6, <1>7, <1>8 DEF TypeOK
<1>10. TypeOK'
    BY <1>1, <1>2, <1>3, <1>4, <1>5, <1>6, <1>7, <1>8, <1>9 DEF TypeOK
<1>11. Elsewhere(p)
    BY <1>1, <1>2, <1>3, <1>4, <1>5, <1>6, <1>7, <1>8, <1>9 DEF Elsewhere, TypeOK
<1>12. TaskInv(p)'
    BY <1>1, <1>2, <1>3, <1>4, <1>6, <1>7, <1>9 DEF TaskInv, Unborn, InFlight
<1>13. MarkerInv(p)'
    BY <1>1, <1>2, <1>3, <1>4, <1>6, <1>7, <1>9 DEF MarkerInv, Unborn, InFlight
<1>14. ActiveInv(p)'
    BY <1>1, <1>2, <1>3, <1>4, <1>6, <1>7, <1>9 DEF ActiveInv, InFlight
<1>15. ClearedInv(p)'
    BY <1>1, <1>2, <1>3, <1>4, <1>6, <1>7, <1>9 DEF ClearedInv, IntentOwns, InFlight
<1>16. HeldInv(ProducerOf[p])'
    BY <1>1, <1>2, <1>3, <1>4, <1>6, <1>7, <1>9, <1>11
       DEF HeldInv, Elsewhere, TypeOK, Held
<1>17. QED
    BY <1>10, <1>11, <1>12, <1>13, <1>14, <1>15, <1>16, <1>2, OneMovesLocally DEF store

\* The task learns of the acknowledgement.
LEMMA DeliveryKnownAckedKeeps ==
    ASSUME Publication, NEW p \in Pub, DeliveryKnown(p), client[p] = "acked"
    PROVE  Publication'
<1>1. /\ TypeOK /\ StoreInv /\ TaskInv(p) /\ MarkerInv(p) /\ ActiveInv(p) /\ ClearedInv(p)
      /\ HeldInv(ProducerOf[p]) /\ ProducerOf[p] \in Producer
    BY PubAssumption DEF Publication
<1>2. UNCHANGED <<row, flight, ended, born, closed, closure, alive, accepting, worker, held,
                  marker, client>>
    BY DEF DeliveryKnown, store, process, records, Release
<1>3. task[p] = "ack" /\ task'[p] = "activating"
    BY <1>1 DEF TypeOK, Release, DeliveryKnown
<1>4. TypeOK'
    BY <1>1, <1>2, <1>3 DEF TypeOK, DeliveryKnown, Release
<1>5. Elsewhere(p)
    BY <1>1, <1>2, <1>3 DEF Elsewhere, TypeOK, DeliveryKnown, Release
<1>6. TaskInv(p)'
    BY <1>1, <1>2, <1>3 DEF TaskInv, Unborn, InFlight
<1>7. MarkerInv(p)'
    BY <1>1, <1>2, <1>3 DEF MarkerInv, Unborn, InFlight
<1>8. ActiveInv(p)'
    BY <1>1, <1>2, <1>3 DEF ActiveInv, InFlight
<1>9. ClearedInv(p)'
    BY <1>1, <1>2, <1>3 DEF ClearedInv, IntentOwns, InFlight
<1>10. HeldInv(ProducerOf[p])'
    <2>1. CASE held[ProducerOf[p]] = None \/ held[ProducerOf[p]].pub # p
        BY <2>1, <1>1, <1>2, <1>5, HeldAside
    <2>2. CASE held[ProducerOf[p]] # None /\ held[ProducerOf[p]].pub = p
        BY <2>2, <1>1, <1>2, <1>3 DEF HeldInv
    <2>3. QED
        BY <2>1, <2>2
<1>11. QED
    BY <1>4, <1>5, <1>6, <1>7, <1>8, <1>9, <1>10, <1>2, OneMovesLocally DEF store

\* The task learns that the terminal was committed.
LEMMA DeliveryKnownDoneKeeps ==
    ASSUME Publication, NEW p \in Pub, DeliveryKnown(p), client[p] = "done"
    PROVE  Publication'
<1>1. /\ TypeOK /\ StoreInv /\ TaskInv(p) /\ MarkerInv(p) /\ ActiveInv(p) /\ ClearedInv(p)
      /\ HeldInv(ProducerOf[p]) /\ ProducerOf[p] \in Producer
    BY PubAssumption DEF Publication
<1>2. UNCHANGED <<row, flight, ended, born, closed, closure, alive, accepting, worker, held,
                  client>>
    BY DEF DeliveryKnown, store, process, records, Release
<1>3. task[p] = "commit" /\ task'[p] = "over" /\ marker'[p] = None
    BY <1>1 DEF TypeOK, Release, DeliveryKnown
<1>4. TypeOK'
    BY <1>1, <1>2, <1>3 DEF TypeOK, DeliveryKnown, Release
<1>5. Elsewhere(p)
    BY <1>1, <1>2, <1>3 DEF Elsewhere, TypeOK, DeliveryKnown, Release
<1>6. TaskInv(p)'
    BY <1>1, <1>2, <1>3 DEF TaskInv, Unborn, InFlight
<1>7. MarkerInv(p)'
    BY <1>1, <1>2, <1>3 DEF MarkerInv, Unborn, InFlight
<1>8. ActiveInv(p)'
    BY <1>1, <1>2, <1>3 DEF ActiveInv, InFlight
<1>9. ClearedInv(p)'
    BY <1>1, <1>2, <1>3 DEF ClearedInv, IntentOwns, InFlight
<1>10. HeldInv(ProducerOf[p])'
    <2>1. CASE held[ProducerOf[p]] = None \/ held[ProducerOf[p]].pub # p
        BY <2>1, <1>1, <1>2, <1>5, HeldAside
    <2>2. CASE held[ProducerOf[p]] # None /\ held[ProducerOf[p]].pub = p
        BY <2>2, <1>1, <1>2, <1>3 DEF HeldInv
    <2>3. QED
        BY <2>1, <2>2
<1>11. QED
    BY <1>4, <1>5, <1>6, <1>7, <1>8, <1>9, <1>10, <1>2, OneMovesLocally DEF store

\* A dropped publication is taken back.
LEMMA UndoDroppedKeeps ==
    ASSUME Publication, NEW p \in Pub, UndoDropped(p)
    PROVE  Publication'
<1>1. TypeOK /\ TaskInv(p) /\ marker[p] \in Marker \cup {None}
    BY DEF Publication, TypeOK
<1>2. task[p] = "dropped" /\ Rollback(p, marker[p], "last")
    BY DEF UndoDropped
<1>3. client[p] = "none"
    BY <1>1, <1>2 DEF TaskInv
<1>4. Recedes(p)
    BY <1>1, <1>2, <1>3, FirmerSelf, RollbackRecedes
<1>5. LetGo(p) /\ UNCHANGED <<store, process, client>>
    BY <1>1, <1>2 DEF UndoDropped, LetGo, TypeOK
<1>6. QED
    BY <1>4, <1>5, RecedeLocally

\* A forward step that may not go on takes the publication back.
LEMMA ShareForwardTurnsKeeps ==
    ASSUME Publication, NEW p \in Pub, ShareForward(p), ~ Forwardable(p)
    PROVE  Publication'
<1>1. TypeOK /\ TaskInv(p) /\ marker[p] \in Marker \cup {None}
    BY DEF Publication, TypeOK
<1>2. /\ task[p] \in {"opening", "activating"} /\ held[ProducerOf[p]] = None
      /\ Rollback(p, Stronger(marker[p], Uncertain), UndoStage(p))
      /\ UNCHANGED <<store, process, client, held>>
    BY DEF ShareForward
<1>3. client[p] \notin {"released", "done"}
    BY <1>1, <1>2 DEF TaskInv
<1>4. UndoStage(p) \in {"undo", "last"}
    BY DEF UndoStage
<1>5. PICK n : n = Stronger(marker[p], Uncertain)
    OBVIOUS
<1>6. /\ Firmer(n, marker[p])
      /\ n # None => (n.reason = RollbackRequired <=> marker[p].reason = RollbackRequired)
    BY <1>1, <1>5, FirmerStronger DEF Firmer
<1>7. Recedes(p)
    BY <1>1, <1>2, <1>3, <1>4, <1>5, <1>6, RollbackRecedes
<1>8. LetGo(p)
    BY <1>1, <1>2 DEF LetGo, TypeOK
<1>9. QED
    BY <1>2, <1>7, <1>8, RecedeLocally

\* A failed delivery takes the publication back.
LEMMA DeliveryKnownFailedKeeps ==
    ASSUME Publication, NEW p \in Pub, DeliveryKnown(p), client[p] \in {"failing", "gone"}
    PROVE  Publication'
<1>1. TypeOK /\ TaskInv(p) /\ marker[p] \in Marker \cup {None}
    BY DEF Publication, TypeOK
<1>2. task[p] \in {"ack", "commit"} /\ Rollback(p, marker[p], "undo")
    BY DEF DeliveryKnown
<1>3. client[p] \notin {"released", "done"}
    OBVIOUS
<1>4. Recedes(p)
    BY <1>1, <1>2, <1>3, FirmerSelf, RollbackRecedes
<1>5. LetGo(p) /\ UNCHANGED <<store, process, client>>
    BY <1>1, <1>2 DEF DeliveryKnown, LetGo, TypeOK
<1>6. QED
    BY <1>4, <1>5, RecedeLocally

\* The evidence at hand decides, or an operation on the row begins.
LEMMA ReconcileKeeps ==
    ASSUME Publication, NEW p \in Pub, NEW by \in {"task", "worker"}, Reconcile(p, by)
    PROVE  Publication'
<1>1. /\ TypeOK /\ StoreInv /\ TaskInv(p) /\ MarkerInv(p) /\ ActiveInv(p) /\ ClearedInv(p)
      /\ ProducerOf[p] \in Producer
    BY PubAssumption DEF Publication
<1>2. /\ marker[p] # None /\ marker[p] \in Marker
      /\ held[ProducerOf[p]] = None
      /\ by = "task" => task[p] \in {"undo", "last"}
      /\ UNCHANGED <<store, process, client>>
    BY <1>1 DEF Reconcile, TypeOK
<1>3. PICK m : m = IF Observed(p) = "failed" THEN Stronger(marker[p], RollbackRequired)
                   ELSE marker[p]
    OBVIOUS
<1>4. Observed(p) = "failed" => client[p] \notin {"released", "done"}
    BY DEF Observed, Witness
<1>5. /\ Firmer(m, marker[p])
      /\ m.reason = RollbackRequired =>
            marker[p].reason = RollbackRequired \/ client[p] \notin {"released", "done"}
    BY <1>2, <1>3, <1>4, FirmerSelf, FirmerStronger
<1>6. /\ m \in Marker /\ m # None /\ m.disposition = marker[p].disposition
      /\ m.watched <=> marker[p].watched
      /\ marker[p].reason = RollbackRequired => m.reason = RollbackRequired
    BY <1>2, <1>5 DEF Firmer
<1>7. \/ /\ client[p] = "done" \/ m.disposition = "existing"
         /\ marker' = [marker EXCEPT ![p] = None]
         /\ task' = AfterAttempt(p, by, TRUE)
         /\ UNCHANGED held
      \/ /\ marker' = [marker EXCEPT ![p] = m]
         /\ task' = AfterAttempt(p, by, FALSE)
         /\ UNCHANGED held
      \/ /\ m.disposition # "existing"
         /\ marker' = [marker EXCEPT ![p] = m]
         /\ held' = [held EXCEPT ![ProducerOf[p]] =
                [by |-> by, pub |-> p,
                 op |-> IF m.reason = Open THEN "renew" ELSE "claim",
                 authority |-> IF m.reason = Open THEN "none"
                               ELSE CleanupAuthority(p, m.reason)]]
         /\ UNCHANGED task
    BY <1>3 DEF Reconcile, Observed, Witness
<1>8. CASE /\ client[p] = "done" \/ m.disposition = "existing"
           /\ marker' = [marker EXCEPT ![p] = None]
           /\ task' = AfterAttempt(p, by, TRUE)
           /\ UNCHANGED held
    <2>1. /\ task' \in [Pub -> TaskStage]
          /\ \A q \in Pub \ {p} : task'[q] = task[q]
          /\ task'[p] \in {task[p], "last", "over"}
        BY <1>1, <1>8, AttemptIs
    <2>2. /\ marker' \in [Pub -> Marker \cup {None}]
          /\ marker'[p] = None
          /\ \A q \in Pub \ {p} : marker'[q] = marker[q]
        BY <1>1, <1>8 DEF TypeOK
    <2>3. UNCHANGED <<row, flight, ended, born, closed, closure, alive, accepting, worker,
                      client, held>>
        BY <1>2, <1>8 DEF store, process, records
    <2>4. TypeOK'
        BY <1>1, <2>1, <2>2, <2>3 DEF TypeOK, TaskStage
    <2>5. Elsewhere(p)
        BY <2>1, <2>2, <2>3 DEF Elsewhere
    <2>6. TaskInv(p)'
        BY <1>1, <2>1, <2>2, <2>3 DEF TaskInv, Unborn, InFlight
    <2>7. MarkerInv(p)' /\ HeldInv(ProducerOf[p])'
        BY <1>2, <2>2, <2>3 DEF MarkerInv, HeldInv
    <2>8. ActiveInv(p)'
        BY <1>1, <2>3 DEF ActiveInv, InFlight
    <2>9. client[p] # "done" => Unborn(p)
        BY <1>1, <1>2, <1>6, <1>8 DEF MarkerInv
    <2>10. ClearedInv(p)'
        BY <1>1, <2>3, <2>9 DEF ClearedInv, Unborn, InFlight, IntentOwns, StoreInv
    <2>11. QED
        BY <1>2, <2>3, <2>4, <2>5, <2>6, <2>7, <2>8, <2>10, OneMovesLocally
<1>9. CASE /\ marker' = [marker EXCEPT ![p] = m]
           /\ task' = AfterAttempt(p, by, FALSE)
           /\ UNCHANGED held
    <2>1. /\ task' \in [Pub -> TaskStage]
          /\ \A q \in Pub \ {p} : task'[q] = task[q]
          /\ task'[p] \in {task[p], "last", "over"}
          /\ task'[p] = "last" => task[p] \in {"undo", "last"}
        BY <1>1, <1>9, AttemptIs
    <2>2. /\ marker' \in [Pub -> Marker \cup {None}]
          /\ marker'[p] = m
          /\ \A q \in Pub \ {p} : marker'[q] = marker[q]
        BY <1>1, <1>6, <1>9 DEF TypeOK
    <2>3. task'[p] \in {"undo", "last"} => m.reason = RollbackRequired
        BY <1>1, <1>2, <1>6, <2>1 DEF TaskInv
    <2>4. Recedes(p)
        BY <1>2, <1>5, <1>6, <2>1, <2>2, <2>3 DEF Recedes
    <2>5. LetGo(p)
        BY <1>1, <1>2, <1>9 DEF LetGo, TypeOK
    <2>6. QED
        BY <1>2, <2>4, <2>5, RecedeLocally
<1>10. CASE /\ m.disposition # "existing"
            /\ marker' = [marker EXCEPT ![p] = m]
            /\ held' = [held EXCEPT ![ProducerOf[p]] =
                   [by |-> by, pub |-> p,
                    op |-> IF m.reason = Open THEN "renew" ELSE "claim",
                    authority |-> IF m.reason = Open THEN "none"
                                  ELSE CleanupAuthority(p, m.reason)]]
            /\ UNCHANGED task
    <2>1. PICK a : a = IF m.reason = Open THEN "none" ELSE CleanupAuthority(p, m.reason)
        OBVIOUS
    <2>2. /\ a \in Authority
          /\ a = "cancelled" => m.reason = RollbackRequired
          /\ m.reason # Open /\ a # "closed" => m.disposition # "reserved"
        BY <1>6, <2>1 DEF Authority, CleanupAuthority
    <2>3. PICK h : h = [by |-> by, pub |-> p,
                        op |-> IF m.reason = Open THEN "renew" ELSE "claim", authority |-> a]
        OBVIOUS
    <2>4. h \in Held /\ h # None
        BY <2>2, <2>3, PubAssumption DEF Held, Op
    <2>5. /\ h.by = by /\ h.pub = p /\ h.authority = a
          /\ h.op = IF m.reason = Open THEN "renew" ELSE "claim"
        BY <2>3
    <2>6. held' = [held EXCEPT ![ProducerOf[p]] = h]
        BY <1>10, <2>1, <2>3
    <2>7. /\ held' \in [Producer -> Held \cup {None}]
          /\ held'[ProducerOf[p]] = h
          /\ \A Q \in Producer \ {ProducerOf[p]} : held'[Q] = held[Q]
        BY <1>1, <2>4, <2>6 DEF TypeOK
    <2>8. /\ marker' \in [Pub -> Marker \cup {None}]
          /\ marker'[p] = m
          /\ \A q \in Pub \ {p} : marker'[q] = marker[q]
        BY <1>1, <1>6, <1>10 DEF TypeOK
    <2>9. /\ UNCHANGED <<row, flight, ended, born, closed, closure, alive, accepting, worker,
                        client>>
          /\ UNCHANGED task
        BY <1>2, <1>10 DEF store, process, records
    <2>10. TypeOK'
        BY <1>1, <2>7, <2>8, <2>9 DEF TypeOK
    <2>11. Elsewhere(p)
        BY <2>7, <2>8, <2>9 DEF Elsewhere
    <2>12. task[p] \in {"undo", "last"} => m.reason = RollbackRequired
        BY <1>1, <1>2, <1>6 DEF TaskInv
    <2>13. Recedes(p)
        BY <1>1, <1>2, <1>5, <1>6, <2>8, <2>9, <2>12 DEF Recedes, TypeOK, TaskStage
    <2>14. TaskInv(p)' /\ MarkerInv(p)'
        BY <2>9, <2>13, RecedeInv DEF Unborn, InFlight
    <2>15. by = "task" => h.op = "claim"
        BY <1>2, <2>5, <2>12 DEF Open, RollbackRequired
    <2>16. h.op = "claim" /\ h.authority # "closed" => p \in born
        BY <1>1, <1>2, <1>6, <1>10, <2>2, <2>5 DEF MarkerInv, Marker
    <2>17. h.authority = "cancelled" => client[p] \notin {"released", "done"}
        BY <1>1, <1>2, <1>5, <2>2, <2>5 DEF MarkerInv
    <2>18. HeldInv(ProducerOf[p])'
        BY <1>6, <1>10, <2>4, <2>5, <2>7, <2>8, <2>9, <2>15, <2>16, <2>17 DEF HeldInv
    <2>19. ActiveInv(p)'
        BY <1>1, <2>9 DEF ActiveInv, InFlight
    <2>20. ClearedInv(p)'
        BY <1>6, <2>8 DEF ClearedInv
    <2>21. QED
        BY <1>2, <2>9, <2>10, <2>11, <2>14, <2>18, <2>19, <2>20, OneMovesLocally
<1>11. QED
    BY <1>7, <1>8, <1>9, <1>10

-----------------------------------------------------------------------------
\* Answers of the database.

\* The operation that holds the lock of P, and its publication.
LEMMA HolderIs ==
    ASSUME Publication, NEW P \in Producer, held[P] # None
    PROVE  /\ held[P] \in Held /\ held[P].pub \in Pub
           /\ ProducerOf[held[P].pub] = P
           /\ HeldInv(P)
<1>1. held[P] \in Held /\ HeldInv(P)
    BY DEF Publication, TypeOK
<1>2. QED
    BY <1>1 DEF Held, HeldInv

\* A publication whose marker and task stay as they are.
LEMMA StillRecedes ==
    ASSUME Publication, NEW p \in Pub, UNCHANGED <<marker, task>>
    PROVE  Recedes(p)
    BY DEF Publication, TypeOK, TaskInv, Recedes, TaskStage

\* An attempt that resolved nothing.
LEMMA AttemptRecedes ==
    ASSUME Publication, NEW p \in Pub, NEW by, UNCHANGED marker,
           task' = AfterAttempt(p, by, FALSE)
    PROVE  Recedes(p)
<1>1. /\ task' \in [Pub -> TaskStage]
      /\ \A q \in Pub \ {p} : task'[q] = task[q]
      /\ task'[p] \in {task[p], "last", "over"}
      /\ task'[p] = "last" => task[p] \in {"undo", "last"}
    BY AttemptIs DEF Publication
<1>2. TaskInv(p) /\ marker \in [Pub -> Marker \cup {None}]
    BY DEF Publication, TypeOK
<1>3. QED
    BY <1>1, <1>2 DEF Recedes, TaskInv

\* The identity lock is given back.
LEMMA ReleaseLetsGo ==
    ASSUME Publication, NEW p \in Pub, Release(ProducerOf[p])
    PROVE  LetGo(p)
    BY PubAssumption DEF Publication, TypeOK, Release, LetGo

\* A worker's renewal found the row live.
LEMMA RenewedByWorkerKeeps ==
    ASSUME Publication, NEW P \in Producer, Renewed(P), held[P].by = "worker"
    PROVE  Publication'
<1>1. held[P] # None /\ Release(P) /\ UNCHANGED <<store, process, marker, task, client>>
    BY DEF Renewed, Holds
<1>2. PICK p \in Pub : p = held[P].pub /\ ProducerOf[p] = P
    BY <1>1, HolderIs
<1>3. Recedes(p) /\ LetGo(p)
    BY <1>1, <1>2, StillRecedes, ReleaseLetsGo
<1>4. QED
    BY <1>1, <1>3, RecedeLocally

\* A task goes on from the renewal to move the row.
LEMMA RenewedByTaskKeeps ==
    ASSUME Publication, NEW P \in Producer, Renewed(P), held[P].by = "task"
    PROVE  Publication'
<1>1. held[P] # None /\ held[P].pub \in Pub /\ held[P] \in Held
    BY PubAssumption DEF Renewed, Publication, TypeOK, Held, Holds
<1>2. PICK p \in Pub : p = held[P].pub
    BY <1>1
<1>3. ProducerOf[p] = P
    BY <1>1, <1>2 DEF Publication, HeldInv
<1>4. /\ TypeOK /\ StoreInv /\ TaskInv(p) /\ MarkerInv(p) /\ ActiveInv(p) /\ ClearedInv(p)
      /\ HeldInv(ProducerOf[p]) /\ ProducerOf[p] \in Producer
    BY PubAssumption DEF Publication
<1>5. UNCHANGED <<row, flight, ended, born, closed, closure, alive, accepting, worker,
                  marker, task, client>>
    BY DEF Renewed, store, process, records, Release
<1>6. held[P].op = "renew"
    BY <1>1, <1>2, <1>3, <1>4, <1>5 DEF Renewed, Holds
<1>7. PICK h : h = [held[P] EXCEPT !.op = "move"]
    OBVIOUS
<1>8. h \in Held /\ h # None
    BY <1>1, <1>2, <1>3, <1>4, <1>5, <1>6, <1>7, PubAssumption DEF Held, Op
<1>9. /\ h.by = "task" /\ h.pub = p /\ h.op = "move"
      /\ h.authority = held[P].authority
    BY <1>1, <1>2, <1>3, <1>4, <1>5, <1>6, <1>7, <1>8 DEF Held
<1>10. held' = [held EXCEPT ![P] = h]
    BY <1>1, <1>2, <1>3, <1>4, <1>5, <1>6, <1>7, <1>8, <1>9 DEF Renewed, TypeOK
<1>11. held'[P] = h
    BY <1>1, <1>2, <1>3, <1>4, <1>5, <1>6, <1>7, <1>8, <1>9, <1>10 DEF TypeOK
<1>12. TypeOK'
    BY <1>1, <1>2, <1>3, <1>4, <1>5, <1>6, <1>7, <1>8, <1>9, <1>10, <1>11 DEF TypeOK
<1>13. Elsewhere(p)
    BY <1>1, <1>2, <1>3, <1>4, <1>5, <1>6, <1>7, <1>8, <1>9, <1>10, <1>11
       DEF Elsewhere, TypeOK
<1>14. TaskInv(p)'
    BY <1>1, <1>2, <1>3, <1>4, <1>5, <1>6, <1>8, <1>9, <1>11 DEF TaskInv, Unborn, InFlight
<1>15. MarkerInv(p)'
    BY <1>1, <1>2, <1>3, <1>4, <1>5, <1>6, <1>8, <1>9, <1>11
       DEF MarkerInv, Unborn, InFlight
<1>16. ActiveInv(p)'
    BY <1>1, <1>2, <1>3, <1>4, <1>5, <1>6, <1>8, <1>9, <1>11 DEF ActiveInv, InFlight
<1>17. ClearedInv(p)'
    BY <1>1, <1>2, <1>3, <1>4, <1>5, <1>6, <1>8, <1>9, <1>11
       DEF ClearedInv, IntentOwns, InFlight
<1>18. HeldInv(ProducerOf[p])'
    BY <1>1, <1>2, <1>3, <1>4, <1>5, <1>6, <1>8, <1>9, <1>11, <1>13
       DEF HeldInv, Elsewhere, TypeOK, Held
<1>19. QED
    BY <1>12, <1>13, <1>14, <1>15, <1>16, <1>17, <1>18, <1>5, OneMovesLocally DEF store

\* The marker of a rejected bind goes with the error.
LEMMA BindRejectedKeeps ==
    ASSUME Publication, NEW P \in Producer, BindRejected(P)
    PROVE  Publication'
<1>1. held[P] # None /\ held[P].pub \in Pub /\ held[P] \in Held
    BY PubAssumption DEF BindRejected, Publication, TypeOK, Held, Holds
<1>2. PICK p \in Pub : p = held[P].pub
    BY <1>1
<1>3. ProducerOf[p] = P
    BY <1>1, <1>2 DEF Publication, HeldInv
<1>4. /\ TypeOK /\ StoreInv /\ TaskInv(p) /\ MarkerInv(p) /\ ActiveInv(p) /\ ClearedInv(p)
      /\ HeldInv(ProducerOf[p]) /\ ProducerOf[p] \in Producer
    BY PubAssumption DEF Publication
<1>5. UNCHANGED <<row, flight, ended, born, closed, closure, alive, accepting, worker,
                  client>>
    BY DEF BindRejected, store, process, records, Release
<1>6. held[P].op = "bind"
    BY <1>1, <1>2, <1>3, <1>4, <1>5 DEF BindRejected, Holds
<1>7. task[p] = "bind"
    BY <1>1, <1>2, <1>3, <1>4, <1>5, <1>6 DEF HeldInv
<1>8. Unborn(p)
    BY <1>1, <1>2, <1>3, <1>4, <1>5, <1>6, <1>7 DEF TaskInv
<1>9. marker'[p] = None /\ task'[p] = "over" /\ held'[P] = None
    BY <1>1, <1>2, <1>3, <1>4, <1>5, <1>6, <1>7, <1>8 DEF BindRejected, TypeOK, Release
<1>10. TypeOK'
    BY <1>1, <1>2, <1>3, <1>4, <1>5, <1>6, <1>7, <1>8, <1>9
       DEF TypeOK, BindRejected, Release
<1>11. Elsewhere(p)
    BY <1>1, <1>2, <1>3, <1>4, <1>5, <1>6, <1>7, <1>8, <1>9
       DEF Elsewhere, TypeOK, BindRejected, Release
<1>12. TaskInv(p)'
    BY <1>1, <1>2, <1>3, <1>4, <1>5, <1>6, <1>7, <1>8, <1>9 DEF TaskInv, Unborn, InFlight
<1>13. MarkerInv(p)'
    BY <1>1, <1>2, <1>3, <1>4, <1>5, <1>6, <1>7, <1>8, <1>9
       DEF MarkerInv, Unborn, InFlight
<1>14. ActiveInv(p)'
    BY <1>1, <1>2, <1>3, <1>4, <1>5, <1>6, <1>7, <1>8, <1>9 DEF ActiveInv, InFlight
<1>15. ClearedInv(p)'
    BY <1>1, <1>2, <1>3, <1>4, <1>5, <1>6, <1>7, <1>8, <1>9
       DEF ClearedInv, IntentOwns, InFlight, Unborn, StoreInv
<1>16. HeldInv(ProducerOf[p])'
    BY <1>1, <1>2, <1>3, <1>4, <1>5, <1>6, <1>7, <1>8, <1>9, <1>11
       DEF HeldInv, Elsewhere, TypeOK, Held
<1>17. QED
    BY <1>10, <1>11, <1>12, <1>13, <1>14, <1>15, <1>16, <1>5, OneMovesLocally DEF store

\* The row is inserted.
LEMMA BoundNewKeeps ==
    ASSUME Publication, NEW P \in Producer, Bound(P), row = None
    PROVE  Publication'
<1>1. held[P] # None /\ held[P].pub \in Pub /\ held[P] \in Held
    BY PubAssumption DEF Bound, Publication, TypeOK, Held, Holds
<1>2. PICK p \in Pub : p = held[P].pub
    BY <1>1
<1>3. ProducerOf[p] = P
    BY <1>1, <1>2 DEF Publication, HeldInv
<1>4. /\ TypeOK /\ StoreInv /\ TaskInv(p) /\ MarkerInv(p) /\ ActiveInv(p) /\ ClearedInv(p)
      /\ HeldInv(ProducerOf[p]) /\ ProducerOf[p] \in Producer
    BY PubAssumption DEF Publication
<1>5. UNCHANGED <<flight, ended, closed, closure, alive, accepting, client>>
    BY DEF Bound, BeginBind, Unlocked, store, records, Release
<1>6. held[P].op = "bind" /\ flight = None
    BY <1>1, <1>2, <1>3, <1>4, <1>5 DEF Bound, Holds, BeginBind, Unlocked
<1>7. task[p] = "bind" /\ marker[p] # None
    BY <1>1, <1>2, <1>3, <1>4, <1>5, <1>6 DEF HeldInv
<1>8. Unborn(p) /\ client[p] = "none"
    BY <1>1, <1>2, <1>3, <1>4, <1>5, <1>6, <1>7 DEF TaskInv
<1>9. PICK m : m = [marker[p] EXCEPT !.disposition = "owned"]
    OBVIOUS
<1>10. marker[p] \in Marker
    BY <1>1, <1>2, <1>3, <1>4, <1>5, <1>6, <1>7, <1>8, <1>9 DEF TypeOK
<1>11. m \in Marker /\ m # None
    BY <1>1, <1>2, <1>3, <1>4, <1>5, <1>6, <1>7, <1>8, <1>9, <1>10, PubAssumption
       DEF Marker
<1>12. /\ m.disposition = "owned" /\ m.reason = marker[p].reason
       /\ m.watched = marker[p].watched
    BY <1>1, <1>2, <1>3, <1>4, <1>5, <1>6, <1>7, <1>8, <1>9, <1>10, <1>11 DEF Marker
<1>13. marker' = [marker EXCEPT ![p] = m]
    BY <1>1, <1>2, <1>3, <1>4, <1>5, <1>6, <1>7, <1>8, <1>9, <1>10, <1>11, <1>12
       DEF Bound, TypeOK
<1>14. /\ task' = [task EXCEPT ![p] = "prepared"] /\ held' = [held EXCEPT ![P] = None]
    BY <1>1, <1>2, <1>3, <1>4, <1>5, <1>6, <1>7, <1>8, <1>9, <1>10, <1>11, <1>12, <1>13
       DEF Bound, Release
<1>15. /\ row' = NewRow(p) /\ born' = born \cup {p}
    BY <1>1, <1>2, <1>3, <1>4, <1>5, <1>6, <1>7, <1>8, <1>9, <1>10, <1>11, <1>12, <1>13,
       <1>14 DEF Bound
<1>16. NewRow(p) \in Row /\ NewRow(p).pub = p
    BY DEF NewRow, Row, State
<1>17. row' \in Row /\ row' # None /\ row'.pub = p
    BY <1>1, <1>2, <1>3, <1>4, <1>5, <1>6, <1>7, <1>8, <1>9, <1>10, <1>11, <1>12, <1>13,
       <1>14, <1>15, <1>16, PubAssumption
<1>18. /\ marker'[p] = m /\ task'[p] = "prepared" /\ held'[P] = None
    BY <1>1, <1>2, <1>3, <1>4, <1>5, <1>6, <1>7, <1>8, <1>9, <1>10, <1>11, <1>12, <1>13,
       <1>14, <1>15, <1>16, <1>17 DEF TypeOK
<1>19. TypeOK'
    <2>1. Staffed'
        BY StaffedStarts DEF Bound
    <2>2. QED
        BY <1>1, <1>2, <1>3, <1>4, <1>5, <1>6, <1>7, <1>8, <1>9, <1>10, <1>11, <1>12, <1>13,
           <1>14, <1>15, <1>16, <1>17, <1>18, <2>1 DEF TypeOK, Staffed
<1>20. Elsewhere(p)
    BY <1>1, <1>2, <1>3, <1>4, <1>5, <1>6, <1>7, <1>8, <1>9, <1>10, <1>11, <1>12, <1>13,
       <1>14, <1>15, <1>16, <1>17, <1>18 DEF Elsewhere, TypeOK
<1>21. StoreInv'
    BY <1>1, <1>2, <1>3, <1>4, <1>5, <1>6, <1>7, <1>8, <1>10, <1>11, <1>12, <1>15, <1>16,
       <1>17, <1>18 DEF StoreInv, TypeOK
<1>22. TaskInv(p)'
    BY <1>1, <1>2, <1>3, <1>4, <1>5, <1>6, <1>7, <1>8, <1>10, <1>11, <1>12, <1>15, <1>16,
       <1>17, <1>18 DEF TaskInv, Unborn, InFlight
<1>23. MarkerInv(p)'
    BY <1>1, <1>2, <1>3, <1>4, <1>5, <1>6, <1>7, <1>8, <1>10, <1>11, <1>12, <1>15, <1>16,
       <1>17, <1>18 DEF MarkerInv, Unborn, InFlight
<1>24. ActiveInv(p)'
    BY <1>1, <1>2, <1>3, <1>4, <1>5, <1>6, <1>7, <1>8, <1>10, <1>11, <1>12, <1>15, <1>16,
       <1>17, <1>18 DEF ActiveInv, InFlight
<1>25. ClearedInv(p)'
    BY <1>1, <1>2, <1>3, <1>4, <1>5, <1>6, <1>7, <1>8, <1>10, <1>11, <1>12, <1>15, <1>16,
       <1>17, <1>18 DEF ClearedInv, IntentOwns, InFlight
<1>26. HeldInv(ProducerOf[p])'
    BY <1>1, <1>2, <1>3, <1>4, <1>5, <1>6, <1>7, <1>8, <1>10, <1>11, <1>12, <1>15, <1>16,
       <1>17, <1>18, <1>20 DEF HeldInv, Elsewhere, TypeOK, Held
<1>27. ASSUME NEW q \in Pub \ {p}
       PROVE  Unborn(q) => Unborn(q)'
    BY <1>1, <1>2, <1>3, <1>4, <1>5, <1>6, <1>7, <1>8, <1>10, <1>11, <1>12, <1>15, <1>16,
       <1>17, <1>18 DEF Unborn, InFlight
<1>28. ASSUME NEW q \in Pub \ {p}
       PROVE  ActiveInv(q)'
    BY <1>1, <1>2, <1>3, <1>4, <1>5, <1>6, <1>7, <1>8, <1>10, <1>11, <1>12, <1>15, <1>16,
       <1>17, <1>18, <1>20 DEF Publication, Elsewhere, ActiveInv, InFlight
<1>29. ASSUME NEW q \in Pub \ {p}
       PROVE  ClearedInv(q)'
    BY <1>1, <1>2, <1>3, <1>4, <1>5, <1>6, <1>7, <1>8, <1>10, <1>11, <1>12, <1>15, <1>16,
       <1>17, <1>18, <1>20 DEF Publication, Elsewhere, ClearedInv, InFlight, IntentOwns
<1>30. QED
    BY <1>19, <1>20, <1>21, <1>22, <1>23, <1>24, <1>25, <1>26, <1>27, <1>28, <1>29, <1>1,
       <1>2, <1>3, <1>4, <1>5, <1>6, <1>7, <1>8, <1>10, <1>11, <1>12, <1>15, <1>16, <1>17,
       <1>18, OneMoves

\* Another attempt already published the response.
LEMMA BoundExistingKeeps ==
    ASSUME Publication, NEW P \in Producer, Bound(P), row # None
    PROVE  Publication'
<1>1. held[P] # None /\ held[P].pub \in Pub /\ held[P] \in Held
    BY PubAssumption DEF Bound, Publication, TypeOK, Held, Holds
<1>2. PICK p \in Pub : p = held[P].pub
    BY <1>1
<1>3. ProducerOf[p] = P
    BY <1>1, <1>2 DEF Publication, HeldInv
<1>4. /\ TypeOK /\ StoreInv /\ TaskInv(p) /\ MarkerInv(p) /\ ActiveInv(p) /\ ClearedInv(p)
      /\ HeldInv(ProducerOf[p]) /\ ProducerOf[p] \in Producer
    BY PubAssumption DEF Publication
<1>5. UNCHANGED <<row, flight, ended, born, closed, closure, alive, accepting,
                  client>>
    BY DEF Bound, BeginBind, Unlocked, store, records, Release
<1>6. held[P].op = "bind" /\ flight = None
    BY <1>1, <1>2, <1>3, <1>4, <1>5 DEF Bound, Holds, BeginBind, Unlocked
<1>7. task[p] = "bind" /\ marker[p] # None
    BY <1>1, <1>2, <1>3, <1>4, <1>5, <1>6 DEF HeldInv
<1>8. Unborn(p) /\ client[p] = "none"
    BY <1>1, <1>2, <1>3, <1>4, <1>5, <1>6, <1>7 DEF TaskInv
<1>9. PICK m : m = [marker[p] EXCEPT !.disposition = "existing", !.of = row.pub]
    OBVIOUS
<1>10. marker[p] \in Marker /\ row.pub \in Pub
    BY <1>1, <1>2, <1>3, <1>4, <1>5, <1>6, <1>7, <1>8, <1>9 DEF TypeOK, Row
<1>11. m \in Marker /\ m # None
    BY <1>1, <1>2, <1>3, <1>4, <1>5, <1>6, <1>7, <1>8, <1>9, <1>10, PubAssumption
       DEF Marker
<1>12. /\ m.disposition = "existing" /\ m.reason = marker[p].reason
       /\ m.watched = marker[p].watched
    BY <1>1, <1>2, <1>3, <1>4, <1>5, <1>6, <1>7, <1>8, <1>9, <1>10, <1>11 DEF Marker
<1>13. marker' = [marker EXCEPT ![p] = m]
    BY <1>1, <1>2, <1>3, <1>4, <1>5, <1>6, <1>7, <1>8, <1>9, <1>10, <1>11, <1>12
       DEF Bound, TypeOK
<1>14. /\ task' = [task EXCEPT ![p] = "prepared"] /\ held' = [held EXCEPT ![P] = None]
    BY <1>1, <1>2, <1>3, <1>4, <1>5, <1>6, <1>7, <1>8, <1>9, <1>10, <1>11, <1>12, <1>13
       DEF Bound, Release
<1>15. /\ marker'[p] = m /\ task'[p] = "prepared" /\ held'[P] = None
    BY <1>1, <1>2, <1>3, <1>4, <1>5, <1>6, <1>7, <1>8, <1>9, <1>10, <1>11, <1>12, <1>13,
       <1>14 DEF TypeOK
<1>16. TypeOK'
    <2>1. Staffed'
        BY StaffedStarts DEF Bound
    <2>2. QED
        BY <1>1, <1>2, <1>3, <1>4, <1>5, <1>6, <1>7, <1>8, <1>9, <1>10, <1>11, <1>12, <1>13,
           <1>14, <1>15, <2>1 DEF TypeOK, Staffed
<1>17. Elsewhere(p)
    BY <1>1, <1>2, <1>3, <1>4, <1>5, <1>6, <1>7, <1>8, <1>9, <1>10, <1>11, <1>12, <1>13,
       <1>14, <1>15 DEF Elsewhere, TypeOK
<1>18. TaskInv(p)'
    BY <1>1, <1>2, <1>3, <1>4, <1>5, <1>6, <1>7, <1>8, <1>10, <1>11, <1>12, <1>15
       DEF TaskInv, Unborn, InFlight
<1>19. MarkerInv(p)'
    BY <1>1, <1>2, <1>3, <1>4, <1>5, <1>6, <1>7, <1>8, <1>10, <1>11, <1>12, <1>15
       DEF MarkerInv, Unborn, InFlight
<1>20. ActiveInv(p)'
    BY <1>1, <1>2, <1>3, <1>4, <1>5, <1>6, <1>7, <1>8, <1>10, <1>11, <1>12, <1>15
       DEF ActiveInv, InFlight
<1>21. ClearedInv(p)'
    BY <1>1, <1>2, <1>3, <1>4, <1>5, <1>6, <1>7, <1>8, <1>10, <1>11, <1>12, <1>15
       DEF ClearedInv, IntentOwns, InFlight
<1>22. HeldInv(ProducerOf[p])'
    BY <1>1, <1>2, <1>3, <1>4, <1>5, <1>6, <1>7, <1>8, <1>10, <1>11, <1>12, <1>15, <1>17
       DEF HeldInv, Elsewhere, TypeOK, Held
<1>23. QED
    BY <1>16, <1>17, <1>18, <1>19, <1>20, <1>21, <1>22, <1>5, OneMovesLocally DEF store

\* What follows a forward move or a verification keeps what is known of p.
LEMMA AfterForwardIs ==
    ASSUME Publication, NEW P \in Producer, held[P] # None, held[P].op \in {"move", "verify"},
           NEW p \in Pub, p = held[P].pub, AfterForward(p), UNCHANGED <<flight, born>>
    PROVE  /\ marker' \in [Pub -> Marker \cup {None}]
           /\ task' \in [Pub -> TaskStage]
           /\ client' \in [Pub -> {"none", "pending", "failing", "acked", "released",
                                   "done", "gone"}]
           /\ \A q \in Pub \ {p} : /\ marker'[q] = marker[q]
                                   /\ task'[q] = task[q]
                                   /\ client'[q] = client[q]
           /\ marker[p] # None /\ marker'[p] # None
           /\ TaskInv(p)' /\ MarkerInv(p)'
           /\ client'[p] \in {"released", "done"} => task[p] # "opening"
<1>1. /\ TypeOK /\ TaskInv(p) /\ MarkerInv(p)
      /\ marker \in [Pub -> Marker \cup {None}]
      /\ task \in [Pub -> TaskStage]
      /\ client \in [Pub -> {"none", "pending", "failing", "acked", "released",
                             "done", "gone"}]
    BY DEF Publication, TypeOK, TaskStage
<1>2. /\ task[p] \in {"opening", "activating"}
      /\ marker[p] # None /\ marker[p].reason # RollbackRequired
    BY HolderIs DEF HeldInv
<1>3. Unborn(p) => Unborn(p)'
    BY DEF Unborn, InFlight
<1>4. CASE task[p] = "opening"
    <2>1. task' = [task EXCEPT ![p] = "ack"] /\ UNCHANGED <<marker, client>>
        BY <1>4 DEF AfterForward
    <2>2. /\ task' \in [Pub -> TaskStage] /\ task'[p] = "ack"
          /\ \A q \in Pub \ {p} : task'[q] = task[q]
        BY <1>1, <2>1 DEF TaskStage
    <2>3. client[p] \in {"pending", "failing", "gone"}
        BY <1>1, <1>4 DEF TaskInv
    <2>4. TaskInv(p)'
        BY <2>1, <2>2, <2>3 DEF TaskInv
    <2>5. MarkerInv(p)'
        BY <1>1, <1>3, <2>1 DEF MarkerInv
    <2>6. QED
        BY <1>1, <1>2, <2>1, <2>2, <2>3, <2>4, <2>5
<1>5. CASE task[p] # "opening" /\ client[p] = "acked"
    <2>1. /\ task' = [task EXCEPT ![p] = "commit"]
          /\ client' = [client EXCEPT ![p] = "released"]
          /\ UNCHANGED marker
        BY <1>5 DEF AfterForward
    <2>2. /\ task' \in [Pub -> TaskStage] /\ task'[p] = "commit"
          /\ \A q \in Pub \ {p} : task'[q] = task[q]
        BY <1>1, <2>1 DEF TaskStage
    <2>3. /\ client' \in [Pub -> {"none", "pending", "failing", "acked", "released",
                                  "done", "gone"}]
          /\ client'[p] = "released"
          /\ \A q \in Pub \ {p} : client'[q] = client[q]
        BY <1>1, <2>1
    <2>4. TaskInv(p)'
        BY <2>2, <2>3 DEF TaskInv
    <2>5. MarkerInv(p)'
        BY <1>1, <1>2, <1>3, <1>5, <2>1, <2>3 DEF MarkerInv
    <2>6. QED
        BY <1>1, <1>2, <1>5, <2>1, <2>2, <2>3, <2>4, <2>5
<1>6. CASE task[p] # "opening" /\ client[p] # "acked"
    <2>1. Rollback(p, marker[p], "undo") /\ UNCHANGED client
        BY <1>6 DEF AfterForward
    <2>2. client[p] \notin {"released", "done"}
        BY <1>1, <1>2, <1>6 DEF TaskInv
    <2>3. Recedes(p)
        BY <1>1, <2>1, <2>2, FirmerSelf, RollbackRecedes
    <2>4. TaskInv(p)' /\ MarkerInv(p)'
        BY <1>3, <2>1, <2>3, RecedeInv
    <2>5. QED
        BY <1>1, <1>2, <2>1, <2>2, <2>3, <2>4 DEF Recedes
<1>7. QED
    BY <1>4, <1>5, <1>6

\* The row moved forward.
LEMMA MovedKeeps ==
    ASSUME Publication, NEW P \in Producer, Moved(P)
    PROVE  Publication'
<1>1. /\ held[P] # None /\ held[P].op = "move"
      /\ UNCHANGED <<closed, closure, alive, accepting, worker, flight, ended, born>>
      /\ flight = None /\ Release(P)
    BY DEF Moved, Holds, BeginBind, Unlocked, process, records
<1>2. PICK p \in Pub : p = held[P].pub /\ ProducerOf[p] = P
    BY <1>1, HolderIs
<1>3. /\ row # None /\ row.pub = p /\ row' = InState(MoveTo(p)) /\ AfterForward(p)
    BY <1>2 DEF Moved, Live, IntentOwns
<1>4. TypeOK /\ StoreInv
    BY DEF Publication
<1>5. /\ row' \in Row /\ row' # None /\ row'.pub = p
      /\ task[p] # "opening" => row'.state = "active"
    <2>1. row \in Row /\ MoveTo(p) \in State
        BY <1>3, <1>4 DEF TypeOK, MoveTo, State
    <2>2. row' = [row EXCEPT !.state = MoveTo(p)]
        BY <1>3 DEF InState
    <2>3. row' \in Row /\ row'.pub = p /\ row'.state = MoveTo(p)
        BY <1>3, <2>1, <2>2 DEF Row
    <2>4. QED
        BY <2>3, PubAssumption DEF MoveTo
<1>6. /\ marker' \in [Pub -> Marker \cup {None}]
      /\ task' \in [Pub -> TaskStage]
      /\ client' \in [Pub -> {"none", "pending", "failing", "acked", "released",
                              "done", "gone"}]
      /\ \A q \in Pub \ {p} : /\ marker'[q] = marker[q]
                              /\ task'[q] = task[q]
                              /\ client'[q] = client[q]
      /\ marker'[p] # None
      /\ TaskInv(p)' /\ MarkerInv(p)'
      /\ client'[p] \in {"released", "done"} => task[p] # "opening"
    BY <1>1, <1>2, <1>3, AfterForwardIs
<1>7. /\ held' \in [Producer -> Held \cup {None}] /\ held'[P] = None
      /\ \A Q \in Producer \ {P} : held'[Q] = held[Q]
    BY <1>1, <1>4 DEF Release, TypeOK
<1>8. TypeOK'
    BY <1>1, <1>4, <1>5, <1>6, <1>7 DEF TypeOK, TaskStage
<1>9. Elsewhere(p)
    BY <1>2, <1>6, <1>7 DEF Elsewhere
<1>10. StoreInv' /\ p \in born
    BY <1>1, <1>3, <1>4, <1>5 DEF StoreInv
<1>11. \A q \in Pub : Unborn(q) => Unborn(q)'
    BY <1>1 DEF Unborn, InFlight
<1>12. ASSUME NEW q \in Pub \ {p}
       PROVE  ActiveInv(q)' /\ ClearedInv(q)'
    <2>1. ActiveInv(q) /\ client'[q] = client[q] /\ row'.pub # q /\ row.pub # q
        BY <1>3, <1>5, <1>6 DEF Publication
    <2>2. ActiveInv(q)'
        BY <1>1, <2>1 DEF ActiveInv, InFlight
    <2>3. ClearedInv(q)'
        BY <1>1, <2>1 DEF ClearedInv, InFlight, IntentOwns
    <2>4. QED
        BY <2>2, <2>3
<1>13. ActiveInv(p)'
    BY <1>1, <1>5, <1>6, <1>10 DEF ActiveInv
<1>14. ClearedInv(p)' /\ HeldInv(ProducerOf[p])'
    BY <1>2, <1>6, <1>7 DEF ClearedInv, HeldInv
<1>15. QED
    BY <1>1, <1>6, <1>8, <1>9, <1>10, <1>11, <1>12, <1>13, <1>14, OneMoves

\* The row of the other attempt is still active.
LEMMA VerifiedKeeps ==
    ASSUME Publication, NEW P \in Producer, Verified(P)
    PROVE  Publication'
<1>1. /\ held[P] # None /\ held[P].op = "verify"
      /\ UNCHANGED <<row, closed, closure, alive, accepting, worker, flight, ended, born>>
      /\ Release(P)
    BY DEF Verified, Holds, process, records, store
<1>2. PICK p \in Pub : p = held[P].pub /\ ProducerOf[p] = P
    BY <1>1, HolderIs
<1>3. AfterForward(p)
    BY <1>2 DEF Verified
<1>4. TypeOK /\ MarkerInv(p) /\ HeldInv(P)
    BY DEF Publication
<1>5. /\ marker' \in [Pub -> Marker \cup {None}]
      /\ task' \in [Pub -> TaskStage]
      /\ client' \in [Pub -> {"none", "pending", "failing", "acked", "released",
                              "done", "gone"}]
      /\ \A q \in Pub \ {p} : /\ marker'[q] = marker[q]
                              /\ task'[q] = task[q]
                              /\ client'[q] = client[q]
      /\ marker[p] # None /\ marker'[p] # None
      /\ TaskInv(p)' /\ MarkerInv(p)'
    BY <1>1, <1>2, <1>3, AfterForwardIs
<1>6. /\ held' \in [Producer -> Held \cup {None}] /\ held'[P] = None
      /\ \A Q \in Producer \ {P} : held'[Q] = held[Q]
    BY <1>1, <1>4 DEF Release, TypeOK
<1>7. TypeOK'
    BY <1>1, <1>4, <1>5, <1>6 DEF TypeOK, TaskStage
<1>8. Elsewhere(p)
    BY <1>2, <1>5, <1>6 DEF Elsewhere
<1>9. Unborn(p)
    BY <1>1, <1>2, <1>4, <1>5 DEF HeldInv, MarkerInv
<1>10. ActiveInv(p)'
    BY <1>1, <1>9 DEF ActiveInv, Unborn, InFlight
<1>11. ClearedInv(p)' /\ HeldInv(ProducerOf[p])'
    BY <1>2, <1>5, <1>6 DEF ClearedInv, HeldInv
<1>12. QED
    BY <1>1, <1>5, <1>7, <1>8, <1>10, <1>11, OneMovesLocally DEF store

\* A transaction that goes past the lock of a lost one concerns a row inserted before.
LEMMA StaleAbsenceIs ==
    ASSUME Publication, NEW P \in Producer, held[P] # None, held[P].op \in {"claim", "finish"},
           ~ Unlocked => StaleAbsence(P)
    PROVE  ~ InFlight(held[P].pub) /\ (flight # None => row = None)
<1>1. StoreInv /\ HeldInv(P)
    BY DEF Publication
<1>2. CASE flight = None
    BY <1>2 DEF InFlight
<1>3. CASE flight # None
    <2>1. row = None /\ held[P].authority # "closed"
        BY <1>3 DEF Unlocked, StaleAbsence
    <2>2. held[P].pub \in born
        BY <1>1, <2>1 DEF HeldInv
    <2>3. flight.row.pub \notin born
        BY <1>1, <1>3, <2>1 DEF StoreInv
    <2>4. QED
        BY <2>1, <2>2, <2>3 DEF InFlight
<1>4. QED
    BY <1>2, <1>3

\* The marker is resolved with the row of its publication gone.
LEMMA ResolvedKeeps ==
    ASSUME Publication, NEW P \in Producer, held[P] # None, held[P].op \in {"claim", "finish"},
           ~ Unlocked => StaleAbsence(P), EndReconcile(P, TRUE),
           UNCHANGED <<process, flight, client, ended, born>>,
           NEW p \in Pub, p = held[P].pub,
           \/ UNCHANGED row
           \/ /\ row # None /\ row.pub = p /\ row' \in Row \cup {None}
              /\ row' # None => row'.pub = p
              /\ row.state # "active" \/ p \in ended,
           row' # None /\ row'.pub = p => row'.state \in {"cleanup", "expired"} \/ p \in ended
    PROVE  Publication'
<1>1. /\ TypeOK /\ StoreInv /\ TaskInv(p) /\ ActiveInv(p)
      /\ ProducerOf[p] = P
    BY HolderIs DEF Publication
<1>2. UNCHANGED <<closed, closure, alive, accepting, worker, flight, client, ended, born>>
    BY DEF process, records
<1>3. ~ InFlight(p) /\ (flight # None => row = None)
    BY StaleAbsenceIs
<1>4. /\ marker' = [marker EXCEPT ![p] = None]
      /\ task' = AfterAttempt(p, held[P].by, TRUE)
      /\ held' = [held EXCEPT ![P] = None]
    BY DEF EndReconcile, Release
<1>5. /\ task' \in [Pub -> TaskStage]
      /\ \A q \in Pub \ {p} : task'[q] = task[q]
      /\ task'[p] \in {task[p], "last", "over"}
    BY <1>1, <1>4, AttemptIs
<1>6. /\ marker' \in [Pub -> Marker \cup {None}] /\ marker'[p] = None
      /\ \A q \in Pub \ {p} : marker'[q] = marker[q]
    BY <1>1, <1>4 DEF TypeOK
<1>7. /\ held' \in [Producer -> Held \cup {None}] /\ held'[P] = None
      /\ \A Q \in Producer \ {P} : held'[Q] = held[Q]
    BY <1>1, <1>4 DEF TypeOK
<1>8. row' \in Row \cup {None}
    BY <1>1 DEF TypeOK
<1>9. TypeOK'
    BY <1>1, <1>2, <1>5, <1>6, <1>7, <1>8 DEF TypeOK, TaskStage
<1>10. Elsewhere(p)
    BY <1>1, <1>2, <1>5, <1>6, <1>7 DEF Elsewhere
<1>11. StoreInv'
    BY <1>1, <1>2, <1>3 DEF StoreInv
<1>12. \A q \in Pub : Unborn(q) => Unborn(q)'
    BY <1>2 DEF Unborn, InFlight
<1>13. TaskInv(p)'
    BY <1>1, <1>2, <1>5, <1>6, <1>12 DEF TaskInv
<1>14. MarkerInv(p)' /\ HeldInv(ProducerOf[p])'
    BY <1>1, <1>6, <1>7 DEF MarkerInv, HeldInv
<1>15. ActiveInv(p)'
    BY <1>1, <1>2 DEF ActiveInv, InFlight
<1>16. ClearedInv(p)'
    BY <1>2, <1>3 DEF ClearedInv, InFlight, IntentOwns
<1>17. ASSUME NEW q \in Pub \ {p}
       PROVE  ActiveInv(q)' /\ ClearedInv(q)'
    <2>1. ActiveInv(q) /\ ClearedInv(q) /\ client'[q] = client[q] /\ marker'[q] = marker[q]
        BY <1>2, <1>6 DEF Publication
    <2>2. ActiveInv(q)'
        BY <1>2, <2>1 DEF ActiveInv, InFlight
    <2>3. ClearedInv(q)'
        BY <1>2, <2>1 DEF ClearedInv, InFlight, IntentOwns
    <2>4. QED
        BY <2>2, <2>3
<1>18. QED
    BY <1>2, <1>9, <1>10, <1>11, <1>12, <1>13, <1>14, <1>15, <1>16, <1>17, OneMoves

\* An attempt at a cleanup leaves everything for the next one.
LEMMA UnresolvedKeeps ==
    ASSUME Publication, NEW P \in Producer, held[P] # None, EndReconcile(P, FALSE),
           UNCHANGED <<process, row, flight, client, ended, born>>
    PROVE  Publication'
<1>1. PICK p \in Pub : p = held[P].pub /\ ProducerOf[p] = P
    BY HolderIs
<1>2. UNCHANGED marker /\ task' = AfterAttempt(p, held[P].by, FALSE) /\ Release(P)
    BY <1>1 DEF EndReconcile
<1>3. Recedes(p) /\ LetGo(p)
    BY <1>1, <1>2, AttemptRecedes, ReleaseLetsGo
<1>4. QED
    BY <1>3, RecedeLocally DEF store

\* The cleanup was claimed, or finds the row gone, or not eligible.
LEMMA ClaimedKeeps ==
    ASSUME Publication, NEW P \in Producer, Claimed(P)
    PROVE  Publication'
<1>1. /\ held[P] # None /\ held[P].op = "claim"
      /\ ~ Unlocked => StaleAbsence(P)
      /\ UNCHANGED <<process, flight, client, ended, born>>
    BY DEF Claimed, Holds
<1>2. PICK p \in Pub : p = held[P].pub /\ ProducerOf[p] = P
    BY <1>1, HolderIs
<1>3. TypeOK /\ StoreInv /\ ActiveInv(p) /\ HeldInv(P) /\ held[P] \in Held
    BY <1>1, HolderIs DEF Publication
<1>4. row # None => row \in Row
    BY <1>3 DEF TypeOK
<1>5. CASE IntentOwns(p) => row.state = "expired" \/ ~ Kept(p)
    <2>1. /\ row' = IF IntentOwns(p) THEN InState("expired") ELSE row
          /\ EndReconcile(P, TRUE)
        BY <1>2, <1>5 DEF Claimed
    <2>2. CASE IntentOwns(p)
        <3>1. row # None /\ row.pub = p /\ row' = [row EXCEPT !.state = "expired"]
            BY <2>1, <2>2 DEF IntentOwns, InState
        <3>2. row' \in Row /\ row'.pub = p /\ row'.state = "expired"
            BY <1>4, <3>1 DEF Row, State
        <3>3. row.state # "active" \/ p \in ended
            BY <1>5, <2>2 DEF Kept
        <3>4. QED
            BY <1>1, <1>2, <2>1, <3>1, <3>2, <3>3, ResolvedKeeps
    <2>3. CASE ~ IntentOwns(p)
        <3>1. UNCHANGED row /\ ~ (row # None /\ row.pub = p)
            BY <2>1, <2>3 DEF IntentOwns
        <3>2. QED
            BY <1>1, <1>2, <2>1, <3>1, ResolvedKeeps
    <2>4. QED
        BY <2>2, <2>3
<1>6. CASE /\ ~ (IntentOwns(p) => row.state = "expired" \/ ~ Kept(p))
           /\ row.state = "cleanup" \/ Eligible(held[P].authority)
    <2>1. /\ row # None /\ row.pub = p /\ p \notin ended
          /\ row' = InState("cleanup")
          /\ held' = [held EXCEPT ![P].op = "finish"]
          /\ UNCHANGED <<marker, task>>
        BY <1>2, <1>6 DEF Claimed, IntentOwns, Kept
    <2>2. flight = None /\ p \in born
        BY <1>1, <1>3, <2>1 DEF Unlocked, StaleAbsence, StoreInv
    <2>3. row' = [row EXCEPT !.state = "cleanup"]
        BY <2>1 DEF InState
    <2>4. row' \in Row /\ row' # None /\ row'.pub = p /\ row'.state = "cleanup"
        BY <1>4, <2>1, <2>3, PubAssumption DEF Row, State
    <2>5. client[p] \notin {"released", "done"}
        <3>1. CASE row.state = "active"
            <4>1. held[P].authority = "cancelled"
                BY <1>6, <3>1 DEF Eligible
            <4>2. QED
                BY <1>1, <1>2, <1>3, <4>1 DEF HeldInv
        <3>2. CASE row.state # "active"
            BY <1>3, <2>1, <2>2, <3>2 DEF ActiveInv
        <3>3. QED
            BY <3>1, <3>2
    <2>6. PICK h : h = [held[P] EXCEPT !.op = "finish"]
        OBVIOUS
    <2>7. /\ h \in Held /\ h # None /\ h.by = held[P].by /\ h.pub = p
          /\ h.op = "finish" /\ h.authority = held[P].authority
        BY <1>2, <1>3, <2>6, PubAssumption DEF Held, Op
    <2>8. /\ held' \in [Producer -> Held \cup {None}] /\ held'[P] = h
          /\ \A Q \in Producer \ {P} : held'[Q] = held[Q]
        BY <1>3, <2>1, <2>6, <2>7 DEF TypeOK
    <2>9. UNCHANGED <<closed, closure, alive, accepting, worker, flight, client, ended, born>>
        BY <1>1 DEF process, records
    <2>10. TypeOK'
        BY <1>3, <2>1, <2>4, <2>8, <2>9 DEF TypeOK
    <2>11. Elsewhere(p)
        BY <1>2, <2>1, <2>8, <2>9 DEF Elsewhere
    <2>12. StoreInv'
        BY <2>2, <2>4, <2>9 DEF StoreInv
    <2>13. \A q \in Pub : Unborn(q) => Unborn(q)'
        BY <2>9 DEF Unborn, InFlight
    <2>14. TaskInv(p)' /\ MarkerInv(p)'
        BY <2>1, <2>9, <2>13, StillRecedes, RecedeInv
    <2>15. HeldInv(ProducerOf[p])'
        BY <1>1, <1>2, <1>3, <2>1, <2>7, <2>8, <2>9 DEF HeldInv
    <2>16. ActiveInv(p)' /\ ClearedInv(p)'
        BY <2>2, <2>4, <2>5, <2>9 DEF ActiveInv, ClearedInv, InFlight, IntentOwns
    <2>17. ASSUME NEW q \in Pub \ {p}
           PROVE  ActiveInv(q)' /\ ClearedInv(q)'
        <3>1. ActiveInv(q)
            BY DEF Publication
        <3>2. ActiveInv(q)'
            BY <2>1, <2>9, <3>1 DEF ActiveInv, InFlight
        <3>3. ClearedInv(q)'
            BY <2>2, <2>4, <2>9 DEF ClearedInv, InFlight, IntentOwns
        <3>4. QED
            BY <3>2, <3>3
    <2>18. QED
        BY <2>9, <2>10, <2>11, <2>12, <2>13, <2>14, <2>15, <2>16, <2>17, OneMoves
<1>7. CASE /\ ~ (IntentOwns(p) => row.state = "expired" \/ ~ Kept(p))
           /\ ~ (row.state = "cleanup" \/ Eligible(held[P].authority))
    <2>1. EndReconcile(P, FALSE) /\ UNCHANGED row
        BY <1>2, <1>7 DEF Claimed
    <2>2. QED
        BY <1>1, <2>1, UnresolvedKeeps
<1>8. QED
    BY <1>5, <1>6, <1>7

\* The demoted row is removed.
LEMMA FinishedKeeps ==
    ASSUME Publication, NEW P \in Producer, Finished(P)
    PROVE  Publication'
<1>1. /\ held[P] # None /\ held[P].op = "finish"
      /\ ~ Unlocked => StaleAbsence(P)
      /\ UNCHANGED <<process, flight, client, ended, born>>
    BY DEF Finished, Holds
<1>2. PICK p \in Pub : p = held[P].pub /\ ProducerOf[p] = P
    BY <1>1, HolderIs
<1>3. CASE IntentOwns(p) /\ row.state = "cleanup"
    <2>1. row' = None /\ EndReconcile(P, TRUE)
        BY <1>2, <1>3 DEF Finished
    <2>2. row # None /\ row.pub = p /\ row.state # "active"
        BY <1>3 DEF IntentOwns
    <2>3. QED
        BY <1>1, <1>2, <2>1, <2>2, ResolvedKeeps
<1>4. CASE row = None
    <2>1. row' = row /\ EndReconcile(P, TRUE)
        BY <1>2, <1>4 DEF Finished, IntentOwns
    <2>2. QED
        BY <1>1, <1>2, <1>4, <2>1, ResolvedKeeps
<1>5. CASE ~ (IntentOwns(p) /\ row.state = "cleanup") /\ row # None
    <2>1. row' = row /\ EndReconcile(P, FALSE)
        BY <1>2, <1>5 DEF Finished
    <2>2. QED
        BY <1>1, <2>1, UnresolvedKeeps
<1>6. QED
    BY <1>3, <1>4, <1>5

-----------------------------------------------------------------------------
\* Transactions that fail, tasks and processes that stop.

\* A transaction that is sent and lost writes the row of the publication at hand only, and
\* never one that a delivered publication relies on.
Lent(p) ==
    /\ flight = None /\ flight' \in Flight /\ flight' # None
    /\ flight'.row # None => flight'.row.pub = p
    /\ IF p \in born
       THEN /\ row # None /\ row.pub = p
            /\ row.state = "active" => client[p] \notin {"released", "done"}
            /\ client[p] \in {"released", "done"} => p \in ended
       ELSE row = None /\ flight'.row # None /\ task[p] = "bind" /\ held[ProducerOf[p]].op = "bind"

\* A transaction that is sent and lost is one of those.
LEMMA SentIs ==
    ASSUME Publication, NEW P \in Producer, held[P] # None, Sent(P)
    PROVE  UNCHANGED flight \/ Lent(held[P].pub)
<1>1. PICK p \in Pub : p = held[P].pub /\ ProducerOf[p] = P
    BY HolderIs
<1>2. TypeOK /\ StoreInv /\ TaskInv(p) /\ ActiveInv(p) /\ HeldInv(P) /\ held[P] \in Held
    BY HolderIs DEF Publication
<1>3. SUFFICES ASSUME Unlocked, NEW r \in Writes(P), flight' = [row |-> r, by |-> P]
               PROVE  Lent(p)
    BY <1>1 DEF Sent
<1>4. flight = None
    BY <1>3 DEF Unlocked
<1>5. row # None => row \in Row
    BY <1>2 DEF TypeOK
<1>6. ASSUME NEW s \in State, row # None
      PROVE  InState(s) \in Row /\ InState(s).pub = row.pub
    <2>1. row \in Row /\ InState(s) = [row EXCEPT !.state = s]
        BY <1>5, <1>6 DEF InState
    <2>2. QED
        BY <2>1 DEF Row
<1>7. r \in Row \cup {None} => flight' \in Flight /\ flight' # None /\ flight'.row = r
    BY <1>3, PubAssumption DEF Flight
<1>8. CASE held[P].op = "bind"
    <2>1. row = None /\ r = NewRow(p)
        BY <1>1, <1>3, <1>8 DEF Writes
    <2>2. r \in Row /\ r.pub = p
        BY <2>1 DEF NewRow, Row, State
    <2>3. task[p] = "bind" /\ p \notin born
        BY <1>1, <1>2, <1>8 DEF HeldInv, TaskInv, Unborn
    <2>4. QED
        BY <1>1, <1>4, <1>7, <1>8, <2>1, <2>2, <2>3, PubAssumption DEF Lent
<1>9. CASE held[P].op = "move"
    <2>1. /\ row # None /\ row.pub = p /\ r = InState(MoveTo(p))
        BY <1>1, <1>3, <1>9 DEF Writes, Live, IntentOwns
    <2>2. r \in Row /\ r.pub = p
        BY <1>6, <2>1 DEF MoveTo, State
    <2>3. task[p] \in {"opening", "activating"}
        BY <1>1, <1>2, <1>9 DEF HeldInv
    <2>4. client[p] \notin {"released", "done"}
        BY <1>2, <2>3 DEF TaskInv
    <2>5. p \in born
        BY <1>2, <2>1 DEF StoreInv
    <2>6. QED
        BY <1>4, <1>7, <2>1, <2>2, <2>4, <2>5 DEF Lent
<1>10. CASE held[P].op = "claim"
    <2>1. /\ row # None /\ row.pub = p /\ r = InState("cleanup")
          /\ Eligible(held[P].authority)
        BY <1>1, <1>3, <1>10 DEF Writes, IntentOwns
    <2>2. r \in Row /\ r.pub = p
        BY <1>6, <2>1 DEF State
    <2>3. p \in born
        BY <1>2, <2>1 DEF StoreInv
    <2>4. row.state = "active" => client[p] \notin {"released", "done"}
        BY <1>1, <1>2, <2>1 DEF Eligible, HeldInv
    <2>5. client[p] \in {"released", "done"} => p \in ended
        BY <1>2, <2>1, <2>3, <2>4 DEF ActiveInv
    <2>6. QED
        BY <1>4, <1>7, <2>1, <2>2, <2>3, <2>4, <2>5 DEF Lent
<1>11. CASE held[P].op = "finish"
    <2>1. row # None /\ row.pub = p /\ r = None /\ row.state = "cleanup"
        BY <1>1, <1>3, <1>11 DEF Writes, IntentOwns
    <2>2. p \in born
        BY <1>2, <2>1 DEF StoreInv
    <2>3. client[p] \in {"released", "done"} => p \in ended
        BY <1>2, <2>1, <2>2 DEF ActiveInv
    <2>4. QED
        BY <1>4, <1>7, <2>1, <2>2, <2>3 DEF Lent
<1>12. CASE held[P].op \in {"verify", "renew"}
    BY <1>3, <1>12 DEF Writes
<1>13. QED
    BY <1>2, <1>8, <1>9, <1>10, <1>11, <1>12 DEF Held, Op

\* What a lost transaction keeps, for a step that changes nothing else of the store.
LEMMA SentKeepsStore ==
    ASSUME Publication, NEW p \in Pub, UNCHANGED flight \/ Lent(p), UNCHANGED <<row, ended, born>>
    PROVE  /\ flight' \in Flight \cup {None}
           /\ StoreInv'
           /\ \A q \in Pub : ~ (q = p /\ task[p] = "bind") => (Unborn(q) => Unborn(q)')
           /\ \A q \in Pub :
                 (client'[q] \in {"released", "done"} => client[q] \in {"released", "done"})
                 => ActiveInv(q)'
           /\ \A q \in Pub \ {p} : InFlight(q)' => InFlight(q) /\ flight' = flight
<1>1. StoreInv /\ flight \in Flight \cup {None}
    BY DEF Publication, TypeOK
<1>2. flight' \in Flight \cup {None} /\ StoreInv'
    BY <1>1 DEF Lent, StoreInv
<1>3. ASSUME NEW q \in Pub, ~ (q = p /\ task[p] = "bind"), Unborn(q)
      PROVE  Unborn(q)'
    BY <1>3 DEF Lent, Unborn, InFlight
<1>4. ASSUME NEW q \in Pub,
             client'[q] \in {"released", "done"} => client[q] \in {"released", "done"}
      PROVE  ActiveInv(q)'
    <2>1. ActiveInv(q) /\ TaskInv(q)
        BY DEF Publication
    <2>2. CASE UNCHANGED flight
        BY <1>4, <2>1, <2>2 DEF ActiveInv, InFlight
    <2>3. CASE Lent(p) /\ q # p
        BY <1>4, <2>1, <2>3 DEF ActiveInv, InFlight, Lent
    <2>4. CASE Lent(p) /\ q = p
        <3>1. client'[p] \in {"released", "done"} => client[p] \in {"released", "done"}
            BY <1>4, <2>4
        <3>2. task[p] = "bind" => client[p] = "none"
            BY <2>1, <2>4 DEF TaskInv
        <3>3. QED
            BY <2>4, <3>1, <3>2 DEF ActiveInv, Lent
    <2>5. QED
        BY <2>2, <2>3, <2>4
<1>5. \A q \in Pub \ {p} : InFlight(q)' => InFlight(q) /\ flight' = flight
    BY DEF Lent, InFlight
<1>6. QED
    BY <1>2, <1>3, <1>4, <1>5

\* The error path of an operation takes its publication back, or leaves it to the worker.
LEMMA OperationFailsRecedes ==
    ASSUME Publication, NEW P \in Producer, held[P] # None, NEW p \in Pub, p = held[P].pub,
           OperationFails(P)
    PROVE  /\ Recedes(p) /\ LetGo(p)
           /\ held[P].op = "bind" => task'[p] \in {"undo", "last", "over"}
           /\ Staffed'
<1>1. TypeOK /\ TaskInv(p) /\ HeldInv(P) /\ held[P] \in Held /\ ProducerOf[p] = P
    BY HolderIs DEF Publication
<1>2. Release(P) /\ LetGo(p)
    BY <1>1, ReleaseLetsGo DEF OperationFails
<1>3. Staffed'
    BY StaffedStarts DEF OperationFails
<1>4. CASE held[P].op \in {"claim", "finish"}
    <2>1. task' = AfterAttempt(p, held[P].by, FALSE) /\ UNCHANGED marker
        BY <1>4 DEF OperationFails
    <2>2. QED
        BY <1>2, <1>3, <1>4, <2>1, AttemptRecedes
<1>5. CASE held[P].op \notin {"claim", "finish"}
    <2>1. PICK m : m = IF held[P].op \in {"bind", "renew", "move"}
                       THEN Stronger(marker[p], Uncertain) ELSE marker[p]
        OBVIOUS
    <2>2. marker[p] \in Marker \cup {None}
        BY <1>1 DEF TypeOK
    <2>3. /\ Firmer(m, marker[p])
          /\ m # None => (m.reason = RollbackRequired <=> marker[p].reason = RollbackRequired)
        <3>1. CASE held[P].op \in {"bind", "renew", "move"}
            BY <2>1, <2>2, <3>1, FirmerStronger DEF Firmer
        <3>2. CASE held[P].op \notin {"bind", "renew", "move"}
            BY <2>1, <2>2, <3>2, FirmerSelf
        <3>3. QED
            BY <3>1, <3>2
    <2>4. CASE held[P].by = "worker"
        <3>1. marker' = [marker EXCEPT ![p] = m] /\ UNCHANGED task
            BY <1>5, <2>1, <2>4 DEF OperationFails
        <3>2. /\ marker' \in [Pub -> Marker \cup {None}] /\ marker'[p] = m
              /\ \A q \in Pub \ {p} : marker'[q] = marker[q]
            BY <1>1, <2>3, <3>1 DEF TypeOK, Firmer
        <3>3. task' \in [Pub -> TaskStage]
            BY <1>1, <3>1 DEF TypeOK, TaskStage
        <3>4. Recedes(p)
            BY <1>1, <2>3, <3>1, <3>2, <3>3 DEF Recedes, Firmer, TaskInv
        <3>5. held[P].op # "bind"
            BY <1>1, <2>4 DEF HeldInv
        <3>6. QED
            BY <1>2, <1>3, <3>4, <3>5
    <2>5. CASE held[P].by # "worker"
        <3>1. Rollback(p, m, UndoStage(p))
            BY <1>5, <2>1, <2>5 DEF OperationFails
        <3>2. UndoStage(p) \in {"undo", "last"}
            BY DEF UndoStage
        <3>3. task[p] \in {"bind", "opening", "activating"}
            BY <1>1, <1>5, <2>5 DEF HeldInv, Held, Op
        <3>4. client[p] \notin {"released", "done"}
            BY <1>1, <3>3 DEF TaskInv
        <3>5. Recedes(p) /\ task'[p] \in {"undo", "last", "over"}
            BY <1>1, <2>3, <3>1, <3>2, <3>4, RollbackRecedes
        <3>6. QED
            BY <1>2, <1>3, <3>5
    <2>6. QED
        BY <2>4, <2>5
<1>6. QED
    BY <1>4, <1>5

\* A refused transaction.
LEMMA RefusedKeeps ==
    ASSUME Publication, NEW P \in Producer, Refused(P)
    PROVE  Publication'
<1>1. held[P] # None /\ OperationFails(P) /\ UNCHANGED <<store, records, client>>
    BY DEF Refused
<1>2. PICK p \in Pub : p = held[P].pub
    BY <1>1, HolderIs
<1>3. Recedes(p) /\ LetGo(p) /\ Staffed'
    BY <1>1, <1>2, OperationFailsRecedes
<1>4. QED
    BY <1>1, <1>3, RecedeBeside

\* A publication recedes while its transaction may have been sent.
LEMMA SentRecedes ==
    ASSUME Publication, NEW p \in Pub, UNCHANGED flight \/ Lent(p), Recedes(p), LetGo(p),
           held[ProducerOf[p]] # None /\ held[ProducerOf[p]].pub = p,
           held[ProducerOf[p]].op = "bind" => task'[p] \in {"undo", "last", "over"},
           Staffed', UNCHANGED <<records, row, client, ended, born>>
    PROVE  Publication'
<1>1. UNCHANGED <<row, ended, born, closed, closure, alive, accepting, client>>
    BY DEF records
<1>2. TypeOK /\ StoreInv /\ TaskInv(p) /\ MarkerInv(p) /\ HeldInv(ProducerOf[p])
    BY PubAssumption DEF Publication
<1>3. Elsewhere(p)
    BY <1>1 DEF Elsewhere, Recedes, LetGo
<1>4. /\ flight' \in Flight \cup {None} /\ StoreInv'
      /\ \A q \in Pub : ~ (q = p /\ task[p] = "bind") => (Unborn(q) => Unborn(q)')
      /\ \A q \in Pub : ActiveInv(q)'
      /\ \A q \in Pub \ {p} : InFlight(q)' => InFlight(q) /\ flight' = flight
    BY <1>1, SentKeepsStore
<1>5. TypeOK'
    BY <1>1, <1>2, <1>4 DEF TypeOK, Staffed, Recedes, LetGo, TaskStage
<1>6. \/ Unborn(p) => Unborn(p)'
      \/ held[ProducerOf[p]].op = "bind"
    BY <1>4 DEF Lent, Unborn, InFlight
<1>7. held[ProducerOf[p]].op = "bind" =>
         /\ task'[p] \notin {"new", "bind"}
         /\ marker[p] # None => marker[p].disposition # "existing"
    BY <1>2 DEF HeldInv
<1>8. TaskInv(p)' /\ MarkerInv(p)'
    BY <1>1, <1>6, <1>7, RecedeInv
<1>9. HeldInv(ProducerOf[p])'
    BY <1>1, <1>3, RecedeHeld
<1>10. marker[p] = None => client[p] = "done"
    BY <1>2 DEF HeldInv
<1>11. ClearedInv(p)'
    BY <1>1, <1>10 DEF ClearedInv, Recedes
<1>12. ASSUME NEW q \in Pub \ {p}
       PROVE  ClearedInv(q)'
    <2>1. /\ ClearedInv(q) /\ marker'[q] = marker[q]
          /\ InFlight(q)' => InFlight(q) /\ flight' = flight
        BY <1>3, <1>4 DEF Elsewhere, Publication
    <2>2. QED
        BY <1>1, <2>1 DEF ClearedInv, IntentOwns
<1>13. QED
    BY <1>1, <1>3, <1>4, <1>5, <1>8, <1>9, <1>11, <1>12, OneMoves

\* The answer of a transaction is lost.
LEMMA LostKeeps ==
    ASSUME Publication, NEW P \in Producer, Lost(P)
    PROVE  Publication'
<1>1. /\ held[P] # None /\ Sent(P) /\ OperationFails(P)
      /\ UNCHANGED <<records, row, client, ended, born>>
    BY DEF Lost
<1>2. PICK p \in Pub : p = held[P].pub /\ ProducerOf[p] = P
    BY <1>1, HolderIs
<1>3. UNCHANGED flight \/ Lent(p)
    BY <1>1, <1>2, SentIs
<1>4. /\ Recedes(p) /\ LetGo(p) /\ Staffed'
      /\ held[P].op = "bind" => task'[p] \in {"undo", "last", "over"}
    BY <1>1, <1>2, OperationFailsRecedes
<1>5. QED
    BY <1>1, <1>2, <1>3, <1>4, SentRecedes

\* A task is aborted.
LEMMA AbortKeeps ==
    ASSUME Publication, NEW p \in Pub, Abort(p)
    PROVE  Publication'
<1>1. /\ task' = [task EXCEPT ![p] = "over"]
      /\ UNCHANGED <<process, row, marker, client, ended, born>>
      /\ UNCHANGED records /\ Staffed'
    BY StaffedStarts DEF Abort, process
<1>2. TypeOK /\ ProducerOf[p] \in Producer
    BY PubAssumption DEF Publication
<1>3. Recedes(p) /\ task'[p] = "over"
    <2>1. task' \in [Pub -> TaskStage] /\ task'[p] = "over"
          /\ \A q \in Pub \ {p} : task'[q] = task[q]
        BY <1>1, <1>2 DEF TypeOK, TaskStage
    <2>2. QED
        BY <1>1, <1>2, <2>1 DEF Recedes, TypeOK
<1>4. CASE /\ held[ProducerOf[p]] # None /\ held[ProducerOf[p]].by = "task"
           /\ held[ProducerOf[p]].pub = p
    <2>1. Sent(ProducerOf[p]) /\ Release(ProducerOf[p])
        BY <1>4 DEF Abort
    <2>2. UNCHANGED flight \/ Lent(p)
        BY <1>2, <1>4, <2>1, SentIs
    <2>3. LetGo(p)
        BY <2>1, ReleaseLetsGo
    <2>4. QED
        BY <1>1, <1>3, <1>4, <2>2, <2>3, SentRecedes
<1>5. CASE ~ (/\ held[ProducerOf[p]] # None /\ held[ProducerOf[p]].by = "task"
              /\ held[ProducerOf[p]].pub = p)
    <2>1. UNCHANGED <<flight, held>>
        BY <1>5 DEF Abort
    <2>2. LetGo(p)
        BY <1>2, <1>5, <2>1 DEF LetGo, TypeOK
    <2>3. QED
        BY <1>1, <1>3, <2>1, <2>2, RecedeLocally DEF store
<1>6. QED
    BY <1>4, <1>5

\* A process crashes, with or without a transaction on its way.
LEMMA CrashKeeps ==
    ASSUME Publication, NEW P \in Producer, Crash(P)
    PROVE  Publication'
<1>1. /\ UNCHANGED <<row, closed, closure, accepting, ended, born>>
      /\ alive' = alive \ {P} /\ worker' = [worker EXCEPT ![P] = "ended"]
      /\ held' = [held EXCEPT ![P] = None]
      /\ marker' = [p \in Pub |-> IF p \in Pubs(P) THEN None ELSE marker[p]]
      /\ task' = [p \in Pub |-> IF p \in Pubs(P) THEN "over" ELSE task[p]]
      /\ client' = [p \in Pub |-> IF p \in Pubs(P) /\ client[p] \notin {"none", "done"}
                                    THEN "gone" ELSE client[p]]
    BY DEF Crash, Release
<1>2. TypeOK /\ StoreInv
    BY DEF Publication
<1>3. /\ held' \in [Producer -> Held \cup {None}] /\ held'[P] = None
      /\ \A Q \in Producer \ {P} : held'[Q] = held[Q]
    BY <1>1, <1>2 DEF TypeOK
<1>4. ASSUME NEW q \in Pub, ProducerOf[q] = P
      PROVE  /\ marker'[q] = None /\ task'[q] = "over"
             /\ client'[q] \in {"released", "done"} => client[q] \in {"released", "done"}
    BY <1>1, <1>4 DEF Pubs
<1>5. ASSUME NEW q \in Pub, ProducerOf[q] # P
      PROVE  marker'[q] = marker[q] /\ task'[q] = task[q] /\ client'[q] = client[q]
    BY <1>1, <1>5 DEF Pubs
<1>6. /\ flight' \in Flight \cup {None} /\ StoreInv'
      /\ \A q \in Pub : ProducerOf[q] # P => (Unborn(q) => Unborn(q)')
      /\ \A q \in Pub : ActiveInv(q)'
      /\ \A q \in Pub : ProducerOf[q] # P => (InFlight(q)' => InFlight(q) /\ flight' = flight)
    <2>1. CASE held[P] = None
        <3>1. UNCHANGED flight
            BY <2>1 DEF Crash
        <3>2. ASSUME NEW q \in Pub
              PROVE  ActiveInv(q)'
            <4>1. ActiveInv(q)
                BY DEF Publication
            <4>2. client'[q] \in {"released", "done"} => client[q] \in {"released", "done"}
                BY <1>4, <1>5
            <4>3. QED
                BY <1>1, <3>1, <4>1, <4>2 DEF ActiveInv, InFlight
        <3>3. QED
            BY <1>1, <1>2, <3>1, <3>2 DEF TypeOK, StoreInv, Unborn, InFlight
    <2>2. CASE held[P] # None
        <3>1. Sent(P)
            BY <2>2 DEF Crash
        <3>2. PICK p \in Pub : p = held[P].pub /\ ProducerOf[p] = P
            BY <2>2, HolderIs
        <3>3. UNCHANGED flight \/ Lent(p)
            BY <2>2, <3>1, <3>2, SentIs
        <3>4. \A q \in Pub : client'[q] \in {"released", "done"} =>
                                client[q] \in {"released", "done"}
            BY <1>4, <1>5
        <3>5. QED
            BY <1>1, <3>2, <3>3, <3>4, SentKeepsStore
    <2>3. QED
        BY <2>1, <2>2
<1>7. TypeOK'
    <2>1. /\ marker' \in [Pub -> Marker \cup {None}]
        BY <1>1, <1>2 DEF TypeOK
    <2>2. task' \in [Pub -> {"new", "bind", "prepared", "dropped", "opening", "ack",
                             "activating", "commit", "undo", "last", "over"}]
        BY <1>1, <1>2 DEF TypeOK
    <2>3. client' \in [Pub -> {"none", "pending", "failing", "acked", "released",
                               "done", "gone"}]
        BY <1>1, <1>2 DEF TypeOK
    <2>4. QED
        BY <1>1, <1>2, <1>3, <1>6, <2>1, <2>2, <2>3 DEF TypeOK
<1>8. ASSUME NEW q \in Pub
      PROVE  TaskInv(q)' /\ MarkerInv(q)' /\ ClearedInv(q)'
    <2>1. TaskInv(q) /\ MarkerInv(q) /\ ClearedInv(q)
        BY DEF Publication
    <2>2. CASE ProducerOf[q] = P
        BY <1>1, <1>4, <2>2 DEF TaskInv, MarkerInv, ClearedInv
    <2>3. CASE ProducerOf[q] # P
        <3>1. /\ marker'[q] = marker[q] /\ task'[q] = task[q] /\ client'[q] = client[q]
              /\ Unborn(q) => Unborn(q)'
              /\ InFlight(q)' => InFlight(q) /\ flight' = flight
            BY <1>5, <1>6, <2>3
        <3>2. TaskInv(q)'
            BY <2>1, <3>1 DEF TaskInv
        <3>3. MarkerInv(q)'
            BY <1>1, <2>1, <3>1 DEF MarkerInv
        <3>4. ClearedInv(q)'
            BY <1>1, <2>1, <3>1 DEF ClearedInv, IntentOwns
        <3>5. QED
            BY <3>2, <3>3, <3>4
    <2>4. QED
        BY <2>2, <2>3
<1>9. ASSUME NEW Q \in Producer
      PROVE  HeldInv(Q)'
    <2>1. CASE Q = P \/ held[Q] = None
        BY <1>3, <2>1 DEF HeldInv
    <2>2. CASE Q # P /\ held[Q] # None
        <3>1. PICK q \in Pub : q = held[Q].pub /\ ProducerOf[q] = Q
            BY <2>2, HolderIs
        <3>2. marker'[q] = marker[q] /\ task'[q] = task[q] /\ client'[q] = client[q]
            BY <1>5, <2>2, <3>1
        <3>3. HeldInv(Q) /\ held'[Q] = held[Q]
            BY <1>3, <2>2 DEF Publication
        <3>4. QED
            BY <1>1, <2>2, <3>1, <3>2, <3>3 DEF HeldInv
    <2>3. QED
        BY <2>1, <2>2
<1>10. QED
    BY <1>6, <1>7, <1>8, <1>9 DEF Publication

\* A registry begins to retire: the markers of its publications are strengthened.
LEMMA StopAcceptingKeeps ==
    ASSUME Publication, NEW P \in Producer, StopAccepting(P)
    PROVE  Publication'
<1>1. /\ UNCHANGED <<row, flight, ended, born, closed, closure, alive, worker, held, task,
                    client>>
      /\ accepting' \subseteq accepting
      /\ marker' = [p \in Pub |-> IF p \in Pubs(P)
                                    THEN Stronger(marker[p], Retiring) ELSE marker[p]]
    BY DEF StopAccepting, store
<1>2. TypeOK /\ StoreInv
    BY DEF Publication
<1>3. ASSUME NEW q \in Pub
      PROVE  /\ Firmer(marker'[q], marker[q])
             /\ marker[q] # None =>
                   (marker'[q].reason = RollbackRequired <=> marker[q].reason = RollbackRequired)
    <2>1. marker[q] \in Marker \cup {None}
        BY <1>2 DEF TypeOK
    <2>2. CASE q \in Pubs(P)
        BY <1>1, <2>1, <2>2, FirmerStronger
    <2>3. CASE q \notin Pubs(P)
        BY <1>1, <2>1, <2>3, FirmerSelf
    <2>4. QED
        BY <2>2, <2>3
<1>4. marker' \in [Pub -> Marker \cup {None}]
    <2>1. \A q \in Pub : marker'[q] \in Marker \cup {None}
        BY <1>3 DEF Firmer
    <2>2. PICK f : f = marker'
        OBVIOUS
    <2>3. f = [q \in Pub |-> f[q]] /\ \A q \in Pub : f[q] \in Marker \cup {None}
        BY <1>1, <2>1, <2>2
    <2>4. QED
        BY <2>2, <2>3
<1>5. TypeOK' /\ StoreInv'
    BY <1>1, <1>2, <1>4 DEF TypeOK, StoreInv
<1>6. ASSUME NEW q \in Pub
      PROVE  TaskInv(q)' /\ MarkerInv(q)' /\ ActiveInv(q)' /\ ClearedInv(q)'
    <2>1. TaskInv(q) /\ MarkerInv(q) /\ ActiveInv(q) /\ ClearedInv(q)
        BY DEF Publication
    <2>2. /\ marker'[q] = None <=> marker[q] = None
          /\ marker[q] # None =>
                /\ marker'[q].disposition = marker[q].disposition
                /\ marker'[q].watched <=> marker[q].watched
                /\ marker'[q].reason = RollbackRequired <=> marker[q].reason = RollbackRequired
        BY <1>3 DEF Firmer
    <2>3. TaskInv(q)'
        BY <1>1, <2>1, <2>2 DEF TaskInv, Unborn, InFlight
    <2>4. MarkerInv(q)'
        BY <1>1, <2>1, <2>2 DEF MarkerInv, Unborn, InFlight
    <2>5. ActiveInv(q)'
        BY <1>1, <2>1 DEF ActiveInv, InFlight
    <2>6. ClearedInv(q)'
        BY <1>1, <2>1, <2>2 DEF ClearedInv, InFlight, IntentOwns
    <2>7. QED
        BY <2>3, <2>4, <2>5, <2>6
<1>7. ASSUME NEW Q \in Producer
      PROVE  HeldInv(Q)'
    <2>1. CASE held[Q] = None
        BY <1>1, <2>1 DEF HeldInv
    <2>2. CASE held[Q] # None
        <3>1. PICK q \in Pub : q = held[Q].pub /\ ProducerOf[q] = Q
            BY <2>2, HolderIs
        <3>2. /\ marker'[q] = None <=> marker[q] = None
              /\ marker[q] # None =>
                    /\ marker'[q].disposition = marker[q].disposition
                    /\ marker'[q].reason = RollbackRequired <=> marker[q].reason = RollbackRequired
            BY <1>3 DEF Firmer
        <3>3. HeldInv(Q)
            BY DEF Publication
        <3>4. held[Q].op = "verify" => marker[q] # None
            BY <2>2, <3>1, <3>3 DEF HeldInv
        <3>5. QED
            BY <1>1, <2>2, <3>1, <3>2, <3>3, <3>4 DEF HeldInv
    <2>3. QED
        BY <2>1, <2>2
<1>8. QED
    BY <1>5, <1>6, <1>7 DEF Publication

-----------------------------------------------------------------------------
\* Steps of the store and of the producer records.

\* A producer record is closed.
LEMMA CloseProducerKeeps ==
    ASSUME Publication, NEW P \in Producer, CloseProducer(P)
    PROVE  Publication'
<1>1. /\ UNCHANGED <<row, flight, ended, born, alive, accepting, worker, held, marker,
                    task, client>>
      /\ closed' \subseteq Producer /\ closure' \subseteq Producer
    BY DEF CloseProducer, store, Publication, TypeOK
<1>2. TypeOK'
    BY <1>1 DEF Publication, TypeOK
<1>3. StoreInv' /\ \A q \in Pub : Unborn(q) => Unborn(q)'
    BY <1>1 DEF Publication, StoreInv, Unborn, InFlight
<1>4. \A q \in Pub : ActiveInv(q)' /\ ClearedInv(q)'
    BY <1>1 DEF Publication, ActiveInv, ClearedInv, InFlight, IntentOwns
<1>5. QED
    BY <1>1, <1>2, <1>3, <1>4, StoreMoves

\* A lost transaction commits.
LEMMA FlightCommitsKeeps ==
    ASSUME Publication, FlightCommits
    PROVE  Publication'
<1>1. /\ UNCHANGED <<closed, closure, alive, accepting, worker, held, marker, task, client,
                    ended>>
      /\ flight # None /\ flight' = None
      /\ row' = IF flight.row # None /\ row # None
                  THEN [flight.row EXCEPT !.live = row.live] ELSE flight.row
      /\ born' = IF flight.row = None THEN born ELSE born \cup {flight.row.pub}
    BY DEF FlightCommits, process, records
<1>2. TypeOK /\ StoreInv /\ flight.row \in Row \cup {None} /\ (row # None => row \in Row)
    BY <1>1 DEF Publication, TypeOK, Flight
<1>3. /\ row' \in Row \cup {None}
      /\ row' = None <=> flight.row = None
      /\ row' # None => row'.pub = flight.row.pub /\ row'.state = flight.row.state
    <2>1. CASE flight.row # None /\ row # None
        <3>1. row' = [flight.row EXCEPT !.live = row.live] /\ row.live \in BOOLEAN
              /\ flight.row \in Row
            BY <1>1, <1>2, <2>1 DEF Row
        <3>2. row' \in Row /\ row'.pub = flight.row.pub /\ row'.state = flight.row.state
            BY <3>1 DEF Row
        <3>3. QED
            BY <2>1, <3>2, PubAssumption
    <2>2. CASE ~ (flight.row # None /\ row # None)
        BY <1>1, <1>2, <2>2
    <2>3. QED
        BY <2>1, <2>2
<1>4. /\ born \subseteq born' /\ born' \subseteq Pub
      /\ row' # None => row'.pub \in born'
    BY <1>1, <1>2, <1>3 DEF TypeOK, Row
<1>5. TypeOK'
    BY <1>1, <1>2, <1>3, <1>4 DEF TypeOK
<1>6. StoreInv'
    BY <1>1, <1>4 DEF StoreInv
<1>7. ASSUME NEW q \in Pub
      PROVE  /\ Unborn(q) => Unborn(q)'
             /\ ActiveInv(q)' /\ ClearedInv(q)'
    <2>1. ActiveInv(q) /\ ClearedInv(q)
        BY DEF Publication
    <2>2. q \in born' /\ q \notin born => InFlight(q)
        BY <1>1 DEF InFlight
    <2>3. Unborn(q) => Unborn(q)'
        BY <1>1, <2>2 DEF Unborn, InFlight
    <2>4. ActiveInv(q)'
        BY <1>1, <2>1, <2>2 DEF ActiveInv, InFlight
    <2>5. IntentOwns(q)' => InFlight(q) /\ row'.state = flight.row.state /\ flight.row \in Row
        BY <1>1, <1>2, <1>3 DEF IntentOwns, InFlight
    <2>6. ClearedInv(q)'
        BY <1>1, <2>1, <2>5 DEF ClearedInv, InFlight, Row, State, Forward
    <2>7. QED
        BY <2>3, <2>4, <2>6
<1>8. QED
    BY <1>1, <1>4, <1>5, <1>6, <1>7, StoreMoves

\* A lost transaction aborts.
LEMMA FlightAbortsKeeps ==
    ASSUME Publication, FlightAborts
    PROVE  Publication'
<1>1. /\ UNCHANGED <<row, closed, closure, alive, accepting, worker, held, marker, task, client,
                     ended, born>>
      /\ flight # None /\ flight' = None
    BY DEF FlightAborts, process, records
<1>2. TypeOK' /\ StoreInv'
    BY <1>1 DEF Publication, TypeOK, StoreInv
<1>3. ASSUME NEW q \in Pub
      PROVE  /\ Unborn(q) => Unborn(q)'
             /\ ActiveInv(q)' /\ ClearedInv(q)'
    <2>1. ActiveInv(q) /\ ClearedInv(q)
        BY DEF Publication
    <2>2. QED
        BY <1>1, <2>1 DEF Unborn, ActiveInv, ClearedInv, InFlight, IntentOwns
<1>4. QED
    BY <1>1, <1>2, <1>3, StoreMoves

\* A step that rewrites or removes the row that is there, of a publication nobody relies on.
LEMMA RowMoves ==
    ASSUME Publication,
           UNCHANGED <<closed, closure, alive, accepting, worker, flight, held, marker, task,
                       client, born>>,
           row # None, row' \in Row \cup {None}, row' # None => row'.pub = row.pub,
           row' = None => flight = None,
           ended \subseteq ended', ended' \subseteq Pub,
           \/ row' # None /\ row'.state = row.state
           \/ row' = None
           \/ row' # None /\ row'.state \in {"cleanup", "expired"},
           \/ row' # None /\ row'.state = "active"
           \/ row.state # "active"
           \/ row.pub \in ended'
    PROVE  Publication'
<1>1. TypeOK /\ StoreInv
    BY DEF Publication
<1>2. TypeOK'
    BY <1>1 DEF TypeOK
<1>3. StoreInv'
    BY <1>1 DEF StoreInv
<1>4. ASSUME NEW q \in Pub
      PROVE  /\ Unborn(q) => Unborn(q)'
             /\ ActiveInv(q)' /\ ClearedInv(q)'
    <2>1. ActiveInv(q) /\ ClearedInv(q)
        BY DEF Publication
    <2>2. ActiveInv(q)'
        BY <2>1 DEF ActiveInv, InFlight
    <2>3. ClearedInv(q)'
        BY <2>1 DEF ClearedInv, InFlight, IntentOwns
    <2>4. QED
        BY <2>2, <2>3 DEF Unborn, InFlight
<1>5. QED
    BY <1>2, <1>3, <1>4, StoreMoves

\* A changed state of the row, or a changed lease.
LEMMA RowIs ==
    ASSUME TypeOK, row # None
    PROVE  /\ \A s \in State : /\ InState(s) \in Row /\ InState(s) # None
                               /\ InState(s).pub = row.pub /\ InState(s).state = s
           /\ [row EXCEPT !.live = FALSE] \in Row
           /\ [row EXCEPT !.live = FALSE] # None
           /\ [row EXCEPT !.live = FALSE].pub = row.pub
           /\ [row EXCEPT !.live = FALSE].state = row.state
<1>1. row \in Row
    BY DEF TypeOK
<1>2. ASSUME NEW s \in State
      PROVE  InState(s) \in Row /\ InState(s).pub = row.pub /\ InState(s).state = s
    <2>1. InState(s) = [row EXCEPT !.state = s]
        BY DEF InState
    <2>2. QED
        BY <1>1, <2>1 DEF Row
<1>3. /\ [row EXCEPT !.live = FALSE] \in Row
      /\ [row EXCEPT !.live = FALSE].pub = row.pub
      /\ [row EXCEPT !.live = FALSE].state = row.state
    BY <1>1 DEF Row
<1>4. QED
    BY <1>2, <1>3, PubAssumption

\* A lease lapses, a retention ends, and what maintenance and recovery do with the row.
LEMMA RowStepKeeps ==
    ASSUME Publication, Lapse \/ Expire \/ Maintain \/ RecoverClaim \/ RecoverFinish
    PROVE  Publication'
<1>1. TypeOK /\ (row # None => row.pub \in Pub)
    BY DEF Publication, TypeOK, Row
<1>2. "cleanup" \in State /\ "expired" \in State
    BY DEF State
<1>3. CASE Lapse
    <2>1. /\ UNCHANGED <<closed, closure, alive, accepting, worker, flight, held, marker, task,
                         client, ended, born>>
          /\ row # None /\ row' = [row EXCEPT !.live = FALSE]
        BY <1>3 DEF Lapse, process, records
    <2>2. row' \in Row /\ row' # None /\ row'.pub = row.pub /\ row'.state = row.state
        BY <1>1, <2>1, RowIs
    <2>3. ended \subseteq ended' /\ ended' \subseteq Pub
        BY <1>1, <2>1 DEF TypeOK
    <2>4. QED
        BY <2>1, <2>2, <2>3, RowMoves
<1>4. CASE Expire
    <2>1. /\ UNCHANGED <<closed, closure, alive, accepting, worker, row, flight, held, marker,
                         task, client, born>>
          /\ row # None /\ ended' = ended \cup {row.pub}
        BY <1>4 DEF Expire, process, records
    <2>2. row' \in Row /\ row' # None /\ row'.pub = row.pub /\ row'.state = row.state
        BY <1>1, <2>1 DEF TypeOK
    <2>3. ended \subseteq ended' /\ ended' \subseteq Pub /\ row.pub \in ended'
        BY <1>1, <2>1 DEF TypeOK
    <2>4. QED
        BY <2>1, <2>2, <2>3, RowMoves
<1>5. CASE Maintain
    <2>1. /\ UNCHANGED <<closed, closure, alive, accepting, worker, flight, held, marker, task,
                         client, ended, born>>
          /\ row # None /\ flight = None /\ row.pub \in ended
          /\ row' \in {InState("expired"), None}
        BY <1>5 DEF Maintain, process, records, Unlocked, Kept
    <2>2. /\ row' \in Row \cup {None}
          /\ row' # None => row'.pub = row.pub /\ row'.state = "expired"
        BY <1>1, <1>2, <2>1, RowIs
    <2>3. ended \subseteq ended' /\ ended' \subseteq Pub
        BY <1>1, <2>1 DEF TypeOK
    <2>4. QED
        BY <2>1, <2>2, <2>3, RowMoves
<1>6. CASE RecoverClaim
    <2>1. /\ UNCHANGED <<closed, closure, alive, accepting, worker, flight, held, marker, task,
                         client, ended, born>>
          /\ row # None /\ row.state # "active" /\ row' = InState("cleanup")
        BY <1>6 DEF RecoverClaim, process, records, Recoverable
    <2>2. row' \in Row /\ row' # None /\ row'.pub = row.pub /\ row'.state = "cleanup"
        BY <1>1, <1>2, <2>1, RowIs
    <2>3. ended \subseteq ended' /\ ended' \subseteq Pub
        BY <1>1, <2>1 DEF TypeOK
    <2>4. QED
        BY <2>1, <2>2, <2>3, RowMoves
<1>7. CASE RecoverFinish
    <2>1. /\ UNCHANGED <<closed, closure, alive, accepting, worker, flight, held, marker, task,
                         client, ended, born>>
          /\ row # None /\ row.state # "active" /\ flight = None /\ row' = None
        BY <1>7 DEF RecoverFinish, process, records, Unlocked
    <2>2. ended \subseteq ended' /\ ended' \subseteq Pub
        BY <1>1, <2>1 DEF TypeOK
    <2>3. QED
        BY <2>1, <2>2, RowMoves
<1>8. QED
    BY <1>3, <1>4, <1>5, <1>6, <1>7

-----------------------------------------------------------------------------
\* The invariant of the specification.

\* A worker starts with a bind of another identity, or ends.
LEMMA WorkerStepKeeps ==
    ASSUME Publication, NEW P \in Producer, BindElsewhere(P) \/ WorkerEnds(P)
    PROVE  Publication'
<1>1. UNCHANGED <<row, flight, ended, born, closed, closure, alive, accepting, held, marker,
                  task, client>>
    BY DEF BindElsewhere, WorkerEnds, store, records
<1>2. worker \in [Producer -> {"unstarted", "running", "ended"}]
    BY DEF Publication, TypeOK
<1>3. Staffed'
    <2>1. CASE BindElsewhere(P)
        BY <2>1, StaffedStarts DEF BindElsewhere
    <2>2. CASE WorkerEnds(P)
        BY <1>2, <2>2 DEF WorkerEnds, Staffed
    <2>3. QED
        BY <2>1, <2>2
<1>4. TypeOK'
    BY <1>1, <1>3 DEF Publication, TypeOK, Staffed
<1>5. StoreInv' /\ \A q \in Pub : Unborn(q) => Unborn(q)'
    BY <1>1 DEF Publication, StoreInv, Unborn, InFlight
<1>6. \A q \in Pub : ActiveInv(q)' /\ ClearedInv(q)'
    BY <1>1 DEF Publication, ActiveInv, ClearedInv, InFlight, IntentOwns
<1>7. QED
    BY <1>1, <1>4, <1>5, <1>6, StoreMoves

\* Nothing changes.
LEMMA StutterKeeps ==
    ASSUME Publication, UNCHANGED vars
    PROVE  Publication'
<1>1. UNCHANGED <<row, flight, ended, born, closed, closure, alive, accepting, worker, held,
                  marker, task, client>>
    BY DEF vars, store, process, records
<1>2. TypeOK' /\ StoreInv' /\ \A q \in Pub : Unborn(q) => Unborn(q)'
    BY <1>1 DEF Publication, TypeOK, StoreInv, Unborn, InFlight
<1>3. \A q \in Pub : ActiveInv(q)' /\ ClearedInv(q)'
    BY <1>1 DEF Publication, ActiveInv, ClearedInv, InFlight, IntentOwns
<1>4. QED
    BY <1>1, <1>2, <1>3, StoreMoves

\* It holds in the beginning.
LEMMA PublicationInit ==
    ASSUME Init
    PROVE  Publication
<1>1. TypeOK
    BY DEF Init, TypeOK
<1>2. StoreInv
    BY DEF Init, StoreInv
<1>3. ASSUME NEW p \in Pub
      PROVE  TaskInv(p) /\ MarkerInv(p) /\ ActiveInv(p) /\ ClearedInv(p)
    <2>1. /\ task[p] = "new" /\ client[p] = "none" /\ marker[p] = None
          /\ row = None /\ flight = None /\ born = {}
        BY DEF Init
    <2>2. QED
        BY <2>1 DEF TaskInv, MarkerInv, ActiveInv, ClearedInv, Unborn, InFlight, IntentOwns
<1>4. \A P \in Producer : HeldInv(P)
    BY DEF Init, HeldInv
<1>5. QED
    BY <1>1, <1>2, <1>3, <1>4 DEF Publication

\* Every step keeps it.
LEMMA PublicationStep ==
    ASSUME Publication, [Next]_vars
    PROVE  Publication'
<1>1. ASSUME NEW p \in Pub, Step(p)
      PROVE  Publication'
    <2>1. CASE Reserve(p) \/ ReserveRefused(p) \/ Dropped(p) \/ UndoDropped(p)
        BY <2>1, ReserveKeeps, ReserveRefusedKeeps, DroppedKeeps, UndoDroppedKeeps
    <2>2. CASE BeginDelivery(p) \/ NothingToUndo(p) \/ Reconcile(p, "task")
        BY <2>2, BeginDeliveryKeeps, NothingToUndoKeeps, ReconcileKeeps
    <2>3. CASE ShareForward(p)
        BY <2>3, ShareForwardTakesKeeps, ShareForwardTurnsKeeps
    <2>4. CASE DeliveryKnown(p)
        <3>1. client[p] \in {"acked", "done", "failing", "gone"}
            BY <2>4 DEF DeliveryKnown
        <3>2. QED
            BY <2>4, <3>1, DeliveryKnownAckedKeeps, DeliveryKnownDoneKeeps,
               DeliveryKnownFailedKeeps
    <2>5. QED
        BY <1>1, <2>1, <2>2, <2>3, <2>4 DEF Step
<1>2. ASSUME NEW p \in Pub, Delivery(p) \/ Reconcile(p, "worker") \/ Abort(p)
      PROVE  Publication'
    <2>1. CASE Delivery(p)
        BY <2>1, AcknowledgeKeeps, RenderFailsKeeps, DisconnectKeeps, CommitKeeps DEF Delivery
    <2>2. CASE Reconcile(p, "worker") \/ Abort(p)
        BY <2>2, ReconcileKeeps, AbortKeeps
    <2>3. QED
        BY <1>2, <2>1, <2>2
<1>3. ASSUME NEW P \in Producer, Answer(P)
      PROVE  Publication'
    <2>1. CASE Bound(P)
        BY <2>1, BoundNewKeeps, BoundExistingKeeps
    <2>2. CASE Renewed(P)
        BY <2>2, RenewedByWorkerKeeps, RenewedByTaskKeeps DEF Renewed
    <2>3. CASE BindRejected(P) \/ Moved(P) \/ Verified(P)
        BY <2>3, BindRejectedKeeps, MovedKeeps, VerifiedKeeps
    <2>4. CASE Claimed(P) \/ Finished(P) \/ Refused(P)
        BY <2>4, ClaimedKeeps, FinishedKeeps, RefusedKeeps
    <2>5. QED
        BY <1>3, <2>1, <2>2, <2>3, <2>4 DEF Answer
<1>4. ASSUME NEW P \in Producer,
             \/ Lost(P) \/ StopAccepting(P) \/ CloseProducer(P) \/ Crash(P)
             \/ BindElsewhere(P) \/ WorkerEnds(P)
      PROVE  Publication'
    BY <1>4, LostKeeps, StopAcceptingKeeps, CloseProducerKeeps, CrashKeeps, WorkerStepKeeps
<1>5. CASE FlightCommits \/ FlightAborts
    BY <1>5, FlightCommitsKeeps, FlightAbortsKeeps
<1>6. CASE Lapse \/ Expire \/ Maintain \/ RecoverClaim \/ RecoverFinish
    BY <1>6, RowStepKeeps
<1>7. CASE UNCHANGED vars
    BY <1>7, StutterKeeps
<1>8. QED
    BY <1>1, <1>2, <1>3, <1>4, <1>5, <1>6, <1>7 DEF Next

\* The inductive invariant holds in every reachable state, for any number of publications
\* and processes and whichever of them fail, crash or expire.
THEOREM PublicationHolds == Spec => []Publication
<1>1. Init => Publication
    BY PublicationInit
<1>2. Publication /\ [Next]_vars => Publication'
    BY PublicationStep
<1>3. QED
    BY <1>1, <1>2, PTL DEF Spec

\* Type correctness: every variable keeps its type.
THEOREM TypeCorrect == Spec => []TypeOK
<1>1. Publication => TypeOK
    BY DEF Publication
<1>2. QED
    BY <1>1, PublicationHolds, PTL

\* The row of a delivered publication stays active until its retention ends, whoever
\* reconciles, recovers or loses transactions: a client never holds a response id that the
\* database forgot early (shared_rollback, shared_reconcile_one, claim_cleanup, recovery).
THEOREM DeliveredIsPublishedHolds == Spec => []DeliveredIsPublished
<1>1. ASSUME Publication
      PROVE  DeliveredIsPublished
    <2>1. SUFFICES ASSUME NEW p \in born \ ended, Witness(p) = "success"
                   PROVE  /\ IntentOwns(p) /\ row.state = "active"
                          /\ flight # None => flight.row = row
        BY DEF DeliveredIsPublished
    <2>2. p \in Pub /\ ActiveInv(p)
        BY <1>1 DEF Publication, TypeOK
    <2>3. client[p] = "done"
        BY <2>1 DEF Witness
    <2>4. QED
        BY <2>1, <2>2, <2>3 DEF ActiveInv, IntentOwns
<1>2. QED
    BY <1>1, PublicationHolds, PTL

\* A live process gives a marker up only with its row: no row of an undelivered publication
\* without a marker can be found, or can still appear from a lost transaction.
\* (shared_reconcile_one, claim_cleanup and finish_cleanup clear markers).
THEOREM ClearedIsGoneHolds == Spec => []ClearedIsGone
<1>1. ASSUME Publication
      PROVE  ClearedIsGone
    <2>1. SUFFICES ASSUME NEW p \in Pub, ProducerOf[p] \in alive,
                          marker[p] = None, Witness(p) # "success"
                   PROVE  /\ IntentOwns(p) => row.state \in {"cleanup", "expired"} \/ ~Kept(p)
                          /\ ~(flight # None /\ flight.row # None /\ flight.row.pub = p
                               /\ flight.row.state \in Forward)
        BY DEF ClearedIsGone
    <2>2. ClearedInv(p) /\ client[p] # "done"
        BY <1>1, <2>1 DEF Publication, Witness
    <2>3. QED
        BY <2>1, <2>2 DEF ClearedInv, InFlight, Kept
<1>2. QED
    BY <1>1, PublicationHolds, PTL

\* A resolution in the publishing process finds a row only after the terminal of its
\* publication was committed (Registry::visible, asked by resolve_visible).
THEOREM ResolvedIsDeliveredHolds == Spec => []ResolvedIsDelivered
<1>1. ASSUME Publication
      PROVE  ResolvedIsDelivered
    <2>1. SUFFICES ASSUME NEW p \in Pub, IntentOwns(p), Resolves(ProducerOf[p])
                   PROVE  Witness(p) = "success"
        BY DEF ResolvedIsDelivered
    <2>2. StoreInv /\ MarkerInv(p) /\ ClearedInv(p)
        BY <1>1 DEF Publication
    <2>3. /\ ProducerOf[p] \in alive /\ row.state = "active" /\ p \notin ended
          /\ row # None /\ row.pub = p /\ Visible(ProducerOf[p])
        BY <2>1 DEF Resolves, IntentOwns, Kept
    <2>4. CASE marker[p] = None
        <3>1. client[p] = "done"
            BY <2>1, <2>2, <2>3, <2>4 DEF ClearedInv
        <3>2. QED
            BY <3>1 DEF Witness
    <2>5. CASE marker[p] # None
        <3>1. marker[p].disposition # "existing"
            BY <2>2, <2>3, <2>5 DEF MarkerInv, Unborn, StoreInv
        <3>2. Observed(p) = "success"
            BY <2>1, <2>3, <2>5, <3>1 DEF Visible, Pubs
        <3>3. QED
            BY <3>2 DEF Observed
    <2>6. QED
        BY <2>4, <2>5
<1>2. QED
    BY <1>1, PublicationHolds, PTL
=============================================================================
