-------------------------- MODULE MCGmailExecution --------------------------
(***************************************************************************)
(* Model checking of GmailExecution: the workers are interchangeable.      *)
(***************************************************************************)
EXTENDS GmailExecution, TLC

WorkerSymmetry == Permutations(Workers)
=============================================================================
