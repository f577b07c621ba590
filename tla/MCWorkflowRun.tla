--------------------------- MODULE MCWorkflowRun ---------------------------
(* WorkflowRun on small instances. *)
EXTENDS WorkflowRun, TLC

ControllerSymmetry == Permutations(Controllers)
=============================================================================
