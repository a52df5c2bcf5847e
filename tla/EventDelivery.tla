---------------------------- MODULE EventDelivery ----------------------------
(***************************************************************************)
(* What delivery of terminal events promises: an event that is published   *)
(* is projected, then its evaluation is admitted, then it is acknowledged; *)
(* each once, none skipped, none undone.  The receipt of the projection    *)
(* and the outbox row of the event are its only durable state.             *)
(***************************************************************************)
CONSTANT Event

VARIABLE stage   \* how far each event has come

Init == stage = [ev \in Event |-> "absent"]

Advance(ev, from, to) ==
    /\ stage[ev] = from
    /\ stage' = [stage EXCEPT ![ev] = to]

Publish(ev)     == Advance(ev, "absent", "published")
Project(ev)     == Advance(ev, "published", "projected")
Complete(ev)    == Advance(ev, "projected", "delivered")
Acknowledge(ev) == Advance(ev, "delivered", "acknowledged")

Next == \E ev \in Event : Publish(ev) \/ Project(ev) \/ Complete(ev) \/ Acknowledge(ev)

Spec == Init /\ [][Next]_stage
=============================================================================
