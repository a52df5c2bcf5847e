---- MODULE MCContinuationPublication ----
EXTENDS ContinuationPublication, TLC

CONSTANTS p1, p2, A, B

(* Two attempts of one request in one process; another process recovers. *)
OneProcess == [p \in Pub |-> A]
(* Attempts of two processes at the same identity. *)
TwoProcesses == (p1 :> A) @@ (p2 :> B)
====
