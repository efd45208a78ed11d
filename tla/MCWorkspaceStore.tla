-------------------------- MODULE MCWorkspaceStore --------------------------
(* Handlers are alike, and so are the polls. *)
EXTENDS WorkspaceStore, TLC

StoreSymmetry == Permutations(Handlers) \cup Permutations(Polls)
=============================================================================
