------------------------- MODULE MCServiceApproval -------------------------
(* One review query, its approval and its execution.                       *)
EXTENDS ServiceApproval

CONSTANTS approval, exec

MCTaskId == {approval, exec}
MCNewTasks == {<<"delegation", "queued">>, <<"approval", "pending_approval">>}
=============================================================================
