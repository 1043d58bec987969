----------------------------- MODULE MCWorkflow -----------------------------
(* The workflow store on a small instance.                                 *)
EXTENDS Workflow, TLC

MCNewTasks == {<<"delegation", "queued">>, <<"approval", "pending_approval">>}

(* No identity is compared for anything but equality.                      *)
Symmetric == Permutations(TaskId) \cup Permutations(Agent)
=============================================================================
