----------------------- MODULE MCWorkspaceRefinement -----------------------
(* The instances of MCWorkspaceCommands, under the refinement mapping. *)
EXTENDS MCWorkspaceCommands, WorkspaceRefinement
=============================================================================
