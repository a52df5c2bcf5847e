------------------------- MODULE MCCredentialRefresh -------------------------
(* Instances of CredentialRefresh for TLC. *)
EXTENDS CredentialRefresh, TLC

Ids == Permutations(Session)
=============================================================================
