------------------------------ MODULE Workflow ------------------------------
(***************************************************************************)
(* The durable task store of Dina Core (workflow/repository.ts), the       *)
(* service layer over it (workflow/service.ts), the HTTP handlers that     *)
(* drive it (routes workflow, service_query, service_respond), the         *)
(* response ingress (d2d/receive_pipeline.ts) and the two sweepers.        *)
(*                                                                         *)
(* JavaScript runs each synchronous block alone, and each repository       *)
(* mutation is one SQLite statement or transaction.  So an action is one   *)
(* synchronous block; a handler that awaits a send is two actions, with    *)
(* the task in `inFlight' between them; and a block that writes twice may  *)
(* stop between its writes (`logged' is FALSE), because the second write   *)
(* throws or because the process dies and every handler with it.           *)
(*                                                                         *)
(* Deadlines are kept as the time that is left, so that no clock has to be *)
(* bounded: `expires' is max(0, expires_at - now) and `lease' is           *)
(* max(-1, lease_expires_at - now).  The code's tests become               *)
(*    expires_at <= now         expires = 0                                *)
(*    lease_expires_at < now    lease = -1      (equality keeps the lease) *)
(***************************************************************************)
EXTENDS WorkflowDomain, FiniteSets

CONSTANTS
  TaskId,       \* ids the callers use
  Agent,        \* DIDs of the paired agents and of the local runner
  IdemKey,      \* idempotency keys
  Null,         \* an unset column
  NewTasks,     \* the <<kind, initial state>> pairs POST /v1/workflow/tasks gets
  Ttl,          \* expires_at - now at creation
  LeaseMs,      \* the lease a claim or a heartbeat grants
  ExtendSec,    \* CLAIM_EXTENSION_SEC of service_respond.ts
  MaxExpires    \* bound: repeated response claims push expires_at no further

ASSUME NullAssumption ==
  /\ Null \notin Agent
  /\ Null \notin IdemKey
  /\ Null \notin Int
ASSUME TaskIdAssumption == IsFiniteSet(TaskId)
ASSUME NewTasksAssumption ==
  NewTasks \subseteq (WorkflowTaskKind \X InitialStates)
ASSUME DeadlineAssumption ==
  /\ Ttl \in Nat /\ LeaseMs \in Nat \ {0} /\ ExtendSec \in Nat
  /\ MaxExpires \in Nat /\ Ttl <= MaxExpires

VARIABLES
  task,      \* table workflow_tasks: the row of each id
  emitted,   \* table workflow_events: deliverable events of each kind, per task
  belief,    \* per agent, the tasks it thinks it is running
  inFlight   \* tasks with a /v1/service/* handler awaiting its send

vars == <<task, emitted, belief, inFlight>>

EventKind == {"created", "approved", "completed", "failed", "cancelled"}
TerminalEvents == {"completed", "failed", "cancelled"}

TaskRow ==
  [status : WorkflowTaskState \cup {"absent"},
   kind : WorkflowTaskKind,
   agent_did : Agent \cup {Null},
   lease : (-1..LeaseMs) \cup {Null},
   expires : (0..MaxExpires) \cup {Null},
   key : IdemKey \cup {Null},
   run_id : BOOLEAN,
   created_at : Nat]

TypeOK ==
  /\ task \in [TaskId -> TaskRow]
  /\ emitted \in [TaskId -> [EventKind -> Nat]]
  /\ belief \in [Agent -> SUBSET TaskId]
  /\ inFlight \in SUBSET TaskId

-----------------------------------------------------------------------------
Rows == {t \in TaskId : task[t].status # "absent"}

Active(t) == t \in Rows /\ ~IsTerminal(task[t].status)

Expired(t) == task[t].expires # Null /\ task[t].expires = 0

(* Slip: <= for <, the lease ends at its last instant.                     *)
LeaseEnding(t) == task[t].lease # Null /\ task[t].lease <= 0

LeaseLapsed(t) == task[t].lease # Null /\ task[t].lease = -1

NoRow ==
  [status |-> "absent", kind |-> "generic", agent_did |-> Null,
   lease |-> Null, expires |-> Null, key |-> Null, run_id |-> FALSE,
   created_at |-> 0]

Emit(t, kind) == [emitted EXCEPT ![t][kind] = @ + 1]

Init ==
  /\ task = [t \in TaskId |-> NoRow]
  /\ emitted = [t \in TaskId |-> [k \in EventKind |-> 0]]
  /\ belief = [a \in Agent |-> {}]
  /\ inFlight = {}

-----------------------------------------------------------------------------
(* Repository mutations that several handlers share.                       *)

(* Slip: the unique index covers the id only.                              *)
InsertAnyKey(t, kind, status, key, expires) ==
  /\ t \notin Rows
  /\ task' = [task EXCEPT ![t] =
       [status |-> status, kind |-> kind, agent_did |-> Null, lease |-> Null,
        expires |-> expires, key |-> key, run_id |-> FALSE,
        created_at |-> Cardinality(Rows)]]

(* INSERT: the primary key and the partial unique index over the           *)
(* idempotency keys of non-terminal rows must both hold.                   *)
InsertTask(t, kind, status, key, expires) ==
  /\ t \notin Rows
  /\ key # Null => \A u \in TaskId : task[u].key = key => ~Active(u)
  /\ task' = [task EXCEPT ![t] =
       [status |-> status, kind |-> kind, agent_did |-> Null, lease |-> Null,
        expires |-> expires, key |-> key, run_id |-> FALSE,
        created_at |-> Cardinality(Rows)]]

(* Slip: the UPDATE lacks its `state NOT IN (terminal)'.                   *)
SettleAnyRow(t, outcome, by) ==
  /\ t \in Rows
  /\ task' = [task EXCEPT ![t] = [@ EXCEPT !.status = outcome, !.agent_did = by]]
  /\ emitted' = Emit(t, outcome)

(* completeWithDetails / fail / cancel: only a non-terminal row moves, and *)
(* its event is appended in the same transaction.                          *)
Settle(t, outcome, by) ==
  /\ Active(t)
  /\ task' = [task EXCEPT ![t] = [@ EXCEPT !.status = outcome, !.agent_did = by]]
  /\ emitted' = Emit(t, outcome)

-----------------------------------------------------------------------------
(* WorkflowService: create and approve write the row, then the event.      *)

EventLogged(t, kind, logged) ==
  /\ emitted' = IF logged THEN Emit(t, kind) ELSE emitted
  /\ inFlight' \in IF logged THEN {inFlight} ELSE {inFlight, {}}

Create(t, kind, status, key, expires, logged) ==
  /\ InsertTask(t, kind, status, key, expires)
  /\ EventLogged(t, "created", logged)
  /\ UNCHANGED belief

Approve(t, logged) ==
  /\ IsValidTransition(task[t].status, "queued")
  /\ task[t].status = "pending_approval"
  /\ task' = [task EXCEPT ![t].status = "queued"]
  /\ EventLogged(t, "approved", logged)
  /\ UNCHANGED belief

Complete(t, by) ==
  /\ IsValidTransition(task[t].status, "completed")
  /\ Settle(t, "completed", by)
  /\ UNCHANGED inFlight

Fail(t, by) ==
  /\ IsValidTransition(task[t].status, "failed")
  /\ Settle(t, "failed", by)
  /\ UNCHANGED inFlight

Cancel(t) ==
  /\ IsValidTransition(task[t].status, "cancelled")
  /\ Settle(t, "cancelled", task[t].agent_did)
  /\ UNCHANGED <<belief, inFlight>>

(* POST /complete and /fail by Brain or the operator: no agent_did.        *)
CoreComplete(t) == Complete(t, Null) /\ UNCHANGED belief
CoreFail(t) == Fail(t, Null) /\ UNCHANGED belief

-----------------------------------------------------------------------------
(* Delegations: agents pull, heartbeat, report.                            *)

Claimable(t) ==
  /\ task[t].kind = "delegation"
  /\ task[t].status = "queued"
  /\ ~Expired(t)

(* Slip: the claim sets the agent and forgets the lease.                   *)
ClaimWithoutLease(t, a, delivered) ==
  /\ Claimable(t)
  /\ \A u \in TaskId : Claimable(u) => task[t].created_at <= task[u].created_at
  /\ task' = [task EXCEPT ![t] = [@ EXCEPT !.status = "running", !.agent_did = a]]
  /\ belief' = IF delivered THEN [belief EXCEPT ![a] = @ \cup {t}] ELSE belief
  /\ UNCHANGED <<emitted, inFlight>>

(* The oldest claimable task.  The reply may be lost: then the row is      *)
(* leased to an agent that does not know it.                               *)
ClaimDelegationTask(t, a, delivered) ==
  /\ Claimable(t)
  /\ \A u \in TaskId : Claimable(u) => task[t].created_at <= task[u].created_at
  /\ task' = [task EXCEPT ![t] =
       [@ EXCEPT !.status = "running", !.agent_did = a, !.lease = LeaseMs]]
  /\ belief' = IF delivered THEN [belief EXCEPT ![a] = @ \cup {t}] ELSE belief
  /\ UNCHANGED <<emitted, inFlight>>

(* Slip: the heartbeat adds to the old deadline instead of to now.         *)
HeartbeatAdds(t, a) ==
  /\ t \in belief[a]
  /\ task[t].status = "running" /\ task[t].agent_did = a
  /\ task' = [task EXCEPT ![t].lease = @ + LeaseMs]
  /\ UNCHANGED <<emitted, belief, inFlight>>

HeartbeatTask(t, a) ==
  /\ t \in belief[a]
  /\ task[t].status = "running" /\ task[t].agent_did = a
  /\ task' = [task EXCEPT ![t].lease = LeaseMs]
  /\ UNCHANGED <<emitted, belief, inFlight>>

(* An agent reports on what it believes it runs; a report the guards       *)
(* refuse changes no row.  Either way it is done with the task.            *)
AgentComplete(t, a) ==
  /\ t \in belief[a]
  /\ belief' = [belief EXCEPT ![a] = @ \ {t}]
  /\ Complete(t, a)

AgentFail(t, a) ==
  /\ t \in belief[a]
  /\ belief' = [belief EXCEPT ![a] = @ \ {t}]
  /\ Fail(t, a)

(* The agent dies, or its report is refused (409) and it gives up.         *)
AgentStops(t, a) ==
  /\ t \in belief[a]
  /\ belief' = [belief EXCEPT ![a] = @ \ {t}]
  /\ UNCHANGED <<task, emitted, inFlight>>

LeaseSweepable(t) == task[t].status = "running" /\ LeaseLapsed(t)

(* Slip: the sweep leaves the old agent on the queued row.                 *)
SweepKeepsAgent ==
  /\ \E t \in TaskId : LeaseSweepable(t)
  /\ task' = [t \in TaskId |->
       IF LeaseSweepable(t)
       THEN [task[t] EXCEPT !.status = "queued", !.lease = Null]
       ELSE task[t]]
  /\ UNCHANGED <<emitted, belief, inFlight>>

ExpireLeasedTasks ==
  /\ \E t \in TaskId : LeaseSweepable(t)
  /\ task' = [t \in TaskId |->
       IF LeaseSweepable(t)
       THEN [task[t] EXCEPT !.status = "queued", !.agent_did = Null, !.lease = Null]
       ELSE task[t]]
  /\ UNCHANGED <<emitted, belief, inFlight>>

-----------------------------------------------------------------------------
(* Requester side: POST /v1/service/query and the response ingress.        *)

(* A key that is active dedupes: nothing is created or sent.  When the     *)
(* `created' event is not written the handler answers 500 and never sends. *)
ServiceQuery(t, key, logged) ==
  /\ InsertTask(t, "service_query", "created", key, Ttl)
  /\ emitted' = IF logged THEN Emit(t, "created") ELSE emitted
  /\ inFlight' \in IF logged THEN {inFlight \cup {t}} ELSE {inFlight, {}}
  /\ UNCHANGED belief

(* A response may have completed the task first: then the CAS misses.      *)
ServiceQuerySent(t) ==
  /\ t \in inFlight /\ task[t].kind = "service_query"
  /\ inFlight' = inFlight \ {t}
  /\ task' = IF task[t].status = "created"
             THEN [task EXCEPT ![t].status = "running"]
             ELSE task
  /\ UNCHANGED <<emitted, belief>>

ServiceQuerySendFailed(t) ==
  /\ t \in inFlight /\ task[t].kind = "service_query"
  /\ inFlight' = inFlight \ {t}
  /\ IF IsValidTransition(task[t].status, "failed") /\ Active(t)
     THEN Settle(t, "failed", Null)
     ELSE UNCHANGED <<task, emitted>>
  /\ UNCHANGED belief

ServiceResponseReceived(t) ==
  /\ task[t].kind = "service_query"
  /\ task[t].status \in {"created", "running"}
  /\ ~Expired(t)
  /\ Settle(t, "completed", Null)
  /\ UNCHANGED <<belief, inFlight>>

-----------------------------------------------------------------------------
(* Provider side: POST /v1/service/respond.                                *)

(* Slip: NULL + 60 is NULL, without the COALESCE.                          *)
ExtendedNull(expires) ==
  IF expires = Null \/ expires + ExtendSec > MaxExpires THEN expires
                                                        ELSE expires + ExtendSec

Extended(expires) ==
  LET base == IF expires = Null THEN 0 ELSE expires
  IN  IF base + ExtendSec > MaxExpires THEN MaxExpires ELSE base + ExtendSec

(* Slip: the claim also takes a task that is being answered.               *)
ClaimsRunning(t) ==
  /\ task[t].kind = "approval"
  /\ task[t].status \in {"queued", "pending_approval", "running"}
  /\ task' = [task EXCEPT ![t] =
       [@ EXCEPT !.status = "running", !.expires = Extended(task[t].expires)]]
  /\ inFlight' = inFlight \cup {t}
  /\ UNCHANGED <<emitted, belief>>

ClaimApprovalForExecution(t) ==
  /\ task[t].kind = "approval"
  /\ task[t].status \in {"queued", "pending_approval"}
  /\ task' = [task EXCEPT ![t] =
       [@ EXCEPT !.status = "running", !.expires = Extended(task[t].expires)]]
  /\ inFlight' = inFlight \cup {t}
  /\ UNCHANGED <<emitted, belief>>

(* Slip: the failed response sends the task back to the operator.          *)
RollbackToPending(t) ==
  /\ t \in inFlight /\ task[t].kind = "approval"
  /\ inFlight' = inFlight \ {t}
  /\ task' = IF task[t].status = "running"
             THEN [task EXCEPT ![t].status = "pending_approval"]
             ELSE task
  /\ UNCHANGED <<emitted, belief>>

(* Bad payload, bad body, or the send threw: rollbackToQueued, a CAS.      *)
RespondRollback(t) ==
  /\ t \in inFlight /\ task[t].kind = "approval"
  /\ inFlight' = inFlight \ {t}
  /\ task' = IF task[t].status = "running"
             THEN [task EXCEPT ![t].status = "queued"]
             ELSE task
  /\ UNCHANGED <<emitted, belief>>

(* The send resolved: run_id marks the row, then the row is completed,     *)
(* unless it was settled meanwhile (the code's "response sent but task     *)
(* completion failed").  The mark is only read of a running row, so this   *)
(* step, which settles the row, leaves it out.                             *)
RespondSent(t) ==
  /\ t \in inFlight /\ task[t].kind = "approval"
  /\ inFlight' = inFlight \ {t}
  /\ IF Active(t) THEN Settle(t, "completed", Null)
                  ELSE UNCHANGED <<task, emitted>>
  /\ UNCHANGED belief

(* The completion is not written, the mark before it may be: one of the    *)
(* writes throws, or the process dies in between.                          *)
RespondMarked(t) ==
  /\ t \in inFlight /\ task[t].kind = "approval"
  /\ inFlight' \in {inFlight \ {t}, {}}
  /\ task' \in {task, [task EXCEPT ![t].run_id = TRUE]}
  /\ UNCHANGED <<emitted, belief>>

(* Slip: a running task counts as answered, marked or not.                 *)
RecoversUnmarked(t) ==
  /\ task[t].kind = "approval" /\ task[t].status = "running"
  /\ Settle(t, "completed", Null)
  /\ UNCHANGED <<belief, inFlight>>

(* A later call finds the mark: the response went out, so complete.        *)
RespondRecovers(t) ==
  /\ task[t].kind = "approval" /\ task[t].status = "running" /\ task[t].run_id
  /\ Settle(t, "completed", Null)
  /\ UNCHANGED <<belief, inFlight>>

-----------------------------------------------------------------------------
(* The expiry sweeper, time, and a crash of the home node.                 *)

(* Slips: the sweep also takes settled rows; it only looks at running ones. *)
TtlSweepableAny(t) == t \in Rows /\ Expired(t)
TtlSweepableRunning(t) == task[t].status \in {"created", "running"} /\ Expired(t)

TtlSweepable(t) == Active(t) /\ Expired(t)

ExpireTasks ==
  /\ \E t \in TaskId : TtlSweepable(t)
  /\ task' = [t \in TaskId |->
       IF TtlSweepable(t) THEN [task[t] EXCEPT !.status = "failed"] ELSE task[t]]
  /\ emitted' = [t \in TaskId |->
       IF TtlSweepable(t) THEN [emitted[t] EXCEPT !["failed"] = @ + 1]
                          ELSE emitted[t]]
  /\ UNCHANGED <<belief, inFlight>>

Later(deadline, floor) ==
  IF deadline = Null \/ deadline = floor THEN deadline ELSE deadline - 1

Tick ==
  /\ task' = [t \in TaskId |->
       [task[t] EXCEPT !.lease = Later(@, -1), !.expires = Later(@, 0)]]
  /\ UNCHANGED <<emitted, belief, inFlight>>

(* The rows are SQLite's; the awaiting handlers die with the process.      *)
Restart ==
  /\ inFlight' = {}
  /\ UNCHANGED <<task, emitted, belief>>

-----------------------------------------------------------------------------
ServiceStep ==
  \/ \E t \in TaskId, new \in NewTasks, key \in IdemKey \cup {Null},
        expires \in {Ttl, Null}, logged \in BOOLEAN :
       Create(t, new[1], new[2], key, expires, logged)
  \/ \E t \in TaskId, logged \in BOOLEAN : Approve(t, logged)
  \/ \E t \in TaskId : CoreComplete(t) \/ CoreFail(t) \/ Cancel(t)

AgentStep ==
  \E t \in TaskId, a \in Agent :
    \/ \E delivered \in BOOLEAN : ClaimDelegationTask(t, a, delivered)
    \/ HeartbeatTask(t, a)
    \/ AgentComplete(t, a)
    \/ AgentFail(t, a)
    \/ AgentStops(t, a)

QueryStep ==
  \E t \in TaskId :
    \/ \E key \in IdemKey, logged \in BOOLEAN : ServiceQuery(t, key, logged)
    \/ ServiceQuerySent(t)
    \/ ServiceQuerySendFailed(t)
    \/ ServiceResponseReceived(t)

RespondStep ==
  \E t \in TaskId :
    \/ ClaimApprovalForExecution(t)
    \/ RespondRollback(t)
    \/ RespondSent(t)
    \/ RespondMarked(t)
    \/ RespondRecovers(t)

Next ==
  \/ ServiceStep
  \/ AgentStep
  \/ QueryStep
  \/ RespondStep
  \/ ExpireLeasedTasks
  \/ ExpireTasks
  \/ Tick
  \/ Restart

(* Time passes and the two setInterval sweepers run; nothing else is       *)
(* promised: agents, operators and peers may stop at any point.            *)
Fairness ==
  /\ WF_vars(Tick)
  /\ WF_vars(ExpireLeasedTasks)
  /\ WF_vars(ExpireTasks)

Spec == Init /\ [][Next]_vars /\ Fairness

-----------------------------------------------------------------------------
(* Properties.                                                             *)

(* A task is settled exactly once: it has one terminal event, of the kind  *)
(* of its state, if it is terminal, and none otherwise, whatever races     *)
(* between agents, operators, responses, sweeps and crashes took place.    *)
OneTerminalEvent ==
  \A t \in TaskId, k \in TerminalEvents :
    emitted[t][k] = IF task[t].status = k THEN 1 ELSE 0

(* The operator's approval of a task is announced at most once, so Brain   *)
(* starts at most one execution for it, also after failed responses put    *)
(* the task back in the queue.                                             *)
ApprovedAtMostOnce == \A t \in TaskId : emitted[t]["approved"] <= 1

(* At most one task per idempotency key is live: a retried query never     *)
(* runs beside the first one.                                              *)
ActiveKeyUnique ==
  \A t, u \in TaskId :
    Active(t) /\ Active(u) /\ task[t].key # Null /\ task[t].key = task[u].key
      => t = u

(* Among live tasks exactly the running delegations carry a lease and an   *)
(* agent: the lease sweeper, which does not look at the kind, reverts      *)
(* nothing else, and a task put back in the queue keeps no trace of its    *)
(* last agent, whose heartbeats are then refused.                          *)
LeaseIffRunningDelegation ==
  \A t \in TaskId : Active(t) =>
    /\ (task[t].lease # Null)
         <=> (task[t].kind = "delegation" /\ task[t].status = "running")
    /\ (task[t].lease # Null) <=> (task[t].agent_did # Null)

(* No task runs out of the sweepers' reach: whoever was running it may die *)
(* and a lease or a deadline still takes the task out of `running'.        *)
RunningIsRecoverable ==
  \A t \in TaskId : task[t].status = "running" =>
    task[t].lease # Null \/ task[t].expires # Null

(* What a settled task says never changes: not its state, not who settled  *)
(* it, however late the other reports come in.                             *)
TerminalIsFinal ==
  [][\A t \in TaskId : IsTerminal(task[t].status) =>
       /\ task'[t].status = task[t].status
       /\ task'[t].agent_did = task[t].agent_did]_vars

(* A delegation leased to an agent that does not know it, or is gone,      *)
(* leaves `running', by the lease sweep or by the expiry sweep.            *)
DeadAgentLosesTask ==
  \A t \in TaskId, a \in Agent :
    (task[t].status = "running" /\ task[t].agent_did = a /\ t \notin belief[a])
      ~> task[t].status # "running"

(* A task with a deadline is settled in the end, unless /v1/service/respond *)
(* takes it up again (each attempt extends the deadline).                  *)
EverythingEnds ==
  \A t \in TaskId :
    (t \in Rows /\ task[t].expires # Null)
      ~> (IsTerminal(task[t].status) \/ (t \in inFlight /\ task[t].kind = "approval"))

-----------------------------------------------------------------------------
(* What the claim protocol promises, without rows, clocks and sweeps.      *)
Phase(t) ==
  IF t \notin Rows THEN "none"
  ELSE IF IsTerminal(task[t].status) THEN "done"
  ELSE IF task[t].lease # Null THEN "held" ELSE "open"

Lease == INSTANCE DelegationLease WITH
  phase <- [t \in TaskId |-> Phase(t)],
  holder <- [t \in TaskId |-> IF Phase(t) = "held" THEN task[t].agent_did ELSE Null],
  live <- [t \in TaskId |-> Phase(t) = "held" /\ task[t].lease # -1]

(* The store implements the lease protocol: a task is held by one agent at *)
(* a time, and as long as the lease has not lapsed nobody else gets it.    *)
ImplementsLease == Lease!Spec
=============================================================================
