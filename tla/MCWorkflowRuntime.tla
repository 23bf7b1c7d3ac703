------------------------- MODULE MCWorkflowRuntime -------------------------
(* Small instances of WorkflowRuntime; the .cfg files name them. *)
EXTENDS WorkflowRuntime, TLC

TaskSymmetry == Permutations(Tasks \ Notifying) \cup Permutations(Notifying)
=============================================================================
