-------------------------- MODULE MCTerminalDelivery --------------------------
(* Instances of TerminalDelivery for TLC. *)
EXTENDS TerminalDelivery
=============================================================================
