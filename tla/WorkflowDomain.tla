--------------------------- MODULE WorkflowDomain ---------------------------
(***************************************************************************)
(* The vocabulary of the workflow store: states, kinds and the transition  *)
(* table of packages/core/src/workflow/domain.ts.  It has no variables;    *)
(* every workflow module extends it.                                       *)
(***************************************************************************)
EXTENDS Integers

WorkflowTaskState ==
  {"created", "pending", "queued", "claimed", "running", "awaiting",
   "pending_approval", "scheduled", "completed", "failed", "cancelled",
   "recorded"}

TerminalStates == {"completed", "failed", "cancelled", "recorded"}

IsTerminal(state) == state \in TerminalStates

WorkflowTaskKind ==
  {"delegation", "approval", "service_query", "timer", "watch", "generic"}

ValidTransitions ==
  [from \in WorkflowTaskState |->
     CASE from = "created" ->
            {"pending", "queued", "pending_approval", "running",
             "completed", "failed", "cancelled"}
       [] from = "pending" -> {"running", "queued", "cancelled"}
       [] from = "queued" -> {"claimed", "running", "cancelled"}
       [] from = "claimed" -> {"running", "failed", "cancelled"}
       [] from = "running" ->
            {"awaiting", "completed", "failed", "cancelled", "queued"}
       [] from = "awaiting" ->
            {"running", "completed", "failed", "cancelled"}
       [] from = "pending_approval" ->
            {"pending", "queued", "failed", "cancelled"}
       [] from = "scheduled" -> {"pending", "running", "cancelled"}
       [] from = "completed" -> {"recorded"}
       [] from = "failed" -> {"scheduled", "queued", "recorded", "cancelled"}
       [] OTHER -> {}]

(* A state the table does not know (here: no row at all) allows nothing.   *)
IsValidTransition(from, to) ==
  from \in WorkflowTaskState /\ to \in ValidTransitions[from]

(* The states service.create accepts for a new task.                       *)
InitialStates == {"created", "pending", "queued", "pending_approval", "scheduled"}
=============================================================================
