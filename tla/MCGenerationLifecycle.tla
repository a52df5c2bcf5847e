----------------------- MODULE MCGenerationLifecycle -----------------------
(***************************************************************************)
(* GenerationLifecycle for TLC.                                            *)
(***************************************************************************)
EXTENDS GenerationLifecycle, TLC

Symmetric == Permutations(Request)
=============================================================================
