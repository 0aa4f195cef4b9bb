--------------------------- MODULE MCWorkspaceRoot ---------------------------
(* Two processes and three Plans; neither is told apart from its like. *)
EXTENDS WorkspaceRootProperties, TLC

AlikeProcs == Permutations(Procs)
AlikePlans == Permutations(Plans)
Alike == AlikeProcs \cup AlikePlans
=============================================================================
