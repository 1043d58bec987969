--------------------------- MODULE WorkflowProofs ---------------------------
(***************************************************************************)
(* Proofs about the workflow store, for any sets of tasks, agents and keys *)
(* and any deadlines.                                                      *)
(***************************************************************************)
EXTENDS Workflow, FiniteSetTheorems, TLAPS

USE NullAssumption, DeadlineAssumption

(* The rank of a new row is a number: the table is finite.                 *)
LEMMA RowsCardinality == Cardinality(Rows) \in Nat
<1>1. Rows \subseteq TaskId
  BY DEF Rows
<1>2. IsFiniteSet(Rows)
  BY <1>1, TaskIdAssumption, FS_Subset
<1> QED
  BY <1>2, FS_CardinalityType

(* A new row is well typed.                                                *)
LEMMA NewRowType ==
  ASSUME NEW kind \in WorkflowTaskKind, NEW status \in InitialStates,
         NEW key \in IdemKey \cup {Null}, NEW expires \in {Ttl, Null}
  PROVE  [status |-> status, kind |-> kind, agent_did |-> Null, lease |-> Null,
          expires |-> expires, key |-> key, run_id |-> FALSE,
          created_at |-> Cardinality(Rows)] \in TaskRow
<1>1. status \in WorkflowTaskState
  BY DEF InitialStates, WorkflowTaskState
<1>2. expires \in (0..MaxExpires) \cup {Null}
  OBVIOUS
<1> QED
  BY <1>1, <1>2, RowsCardinality DEF TaskRow

(* Inserting a row, by whichever handler.                                  *)
LEMMA InsertType ==
  ASSUME TypeOK, NEW t \in TaskId,
         NEW kind \in WorkflowTaskKind, NEW status \in InitialStates,
         NEW key \in IdemKey \cup {Null}, NEW expires \in {Ttl, Null},
         InsertTask(t, kind, status, key, expires)
  PROVE  task' \in [TaskId -> TaskRow]
BY NewRowType DEF TypeOK, InsertTask

(* Counting one more event of a known kind.                                *)
LEMMA EmitType ==
  ASSUME TypeOK, NEW t \in TaskId, NEW k \in EventKind
  PROVE  Emit(t, k) \in [TaskId -> [EventKind -> Nat]]
BY DEF TypeOK, Emit

(* A settled row is well typed.                                            *)
LEMMA SettledRow ==
  ASSUME NEW r \in TaskRow, NEW k \in TerminalEvents,
         NEW by \in Agent \cup {Null}
  PROVE  [r EXCEPT !.status = k, !.agent_did = by] \in TaskRow
BY DEF TaskRow, TerminalEvents, WorkflowTaskState

LEMMA SettleType ==
  ASSUME TypeOK, NEW t \in TaskId, NEW k \in TerminalEvents,
         NEW by \in Agent \cup {Null}, Settle(t, k, by)
  PROVE  /\ task' \in [TaskId -> TaskRow]
         /\ emitted' \in [TaskId -> [EventKind -> Nat]]
<1>1. k \in EventKind
  BY DEF TerminalEvents, EventKind
<1>2. task[t] \in TaskRow
  BY DEF TypeOK
<1>3. [task[t] EXCEPT !.status = k, !.agent_did = by] \in TaskRow
  BY <1>2, SettledRow
<1>4. task' \in [TaskId -> TaskRow]
  BY <1>3 DEF Settle, TypeOK
<1>5. emitted' \in [TaskId -> [EventKind -> Nat]]
  BY <1>1, EmitType DEF Settle
<1> QED
  BY <1>4, <1>5

(* A row that only changes its state stays well typed.                     *)
LEMMA StatusType ==
  ASSUME TypeOK, NEW t \in TaskId, NEW s \in WorkflowTaskState
  PROVE  [task EXCEPT ![t].status = s] \in [TaskId -> TaskRow]
<1>1. \A r \in TaskRow : [r EXCEPT !.status = s] \in TaskRow
  BY DEF TaskRow
<1> QED
  BY <1>1 DEF TypeOK

(* The event of a create or an approve, written or lost.                   *)
LEMMA EventLoggedType ==
  ASSUME TypeOK, NEW t \in TaskId, NEW k \in EventKind, NEW logged \in BOOLEAN,
         EventLogged(t, k, logged)
  PROVE  /\ emitted' \in [TaskId -> [EventKind -> Nat]]
         /\ inFlight' \in SUBSET TaskId
<1>1. Emit(t, k) \in [TaskId -> [EventKind -> Nat]]
  BY EmitType
<1> QED
  BY <1>1 DEF EventLogged, TypeOK

LEMMA ExtendedType ==
  ASSUME NEW e \in (0..MaxExpires) \cup {Null}
  PROVE  Extended(e) \in 0..MaxExpires
BY DEF Extended

LEMMA LaterType ==
  /\ \A d \in (-1..LeaseMs) \cup {Null} : Later(d, -1) \in (-1..LeaseMs) \cup {Null}
  /\ \A d \in (0..MaxExpires) \cup {Null} : Later(d, 0) \in (0..MaxExpires) \cup {Null}
BY DEF Later

-----------------------------------------------------------------------------
(* Type correctness, one lemma per group of steps.                         *)

LEMMA ServiceStepType == TypeOK /\ ServiceStep => TypeOK'
<1> SUFFICES ASSUME TypeOK, ServiceStep PROVE TypeOK'
  OBVIOUS
<1>1. ASSUME NEW t \in TaskId, NEW new \in NewTasks,
             NEW key \in IdemKey \cup {Null}, NEW expires \in {Ttl, Null},
             NEW logged \in BOOLEAN,
             Create(t, new[1], new[2], key, expires, logged)
      PROVE  TypeOK'
  <2>1. new[1] \in WorkflowTaskKind /\ new[2] \in InitialStates
    BY NewTasksAssumption
  <2>2. InsertTask(t, new[1], new[2], key, expires)
    BY <1>1 DEF Create
  <2>3. task' \in [TaskId -> TaskRow]
    BY <2>1, <2>2, InsertType
  <2>4. "created" \in EventKind
    BY DEF EventKind
  <2> QED
    BY <1>1, <2>3, <2>4, EventLoggedType DEF Create, TypeOK
<1>2. ASSUME NEW t \in TaskId, NEW logged \in BOOLEAN, Approve(t, logged)
      PROVE  TypeOK'
  <2>1. "queued" \in WorkflowTaskState /\ "approved" \in EventKind
    BY DEF WorkflowTaskState, EventKind
  <2> QED
    BY <1>2, <2>1, StatusType, EventLoggedType DEF Approve, TypeOK
<1>3. ASSUME NEW t \in TaskId, CoreComplete(t) PROVE TypeOK'
  BY <1>3, SettleType DEF CoreComplete, Complete, TerminalEvents, TypeOK
<1>4. ASSUME NEW t \in TaskId, CoreFail(t) PROVE TypeOK'
  BY <1>4, SettleType DEF CoreFail, Fail, TerminalEvents, TypeOK
<1>5. ASSUME NEW t \in TaskId, Cancel(t) PROVE TypeOK'
  <2>1. task[t].agent_did \in Agent \cup {Null}
    BY DEF TypeOK, TaskRow
  <2> QED
    BY <1>5, <2>1, SettleType DEF Cancel, TerminalEvents, TypeOK
<1> QED
  BY <1>1, <1>2, <1>3, <1>4, <1>5 DEF ServiceStep

LEMMA LeaseMsType == LeaseMs \in (-1..LeaseMs) \cup {Null}
BY DeadlineAssumption

LEMMA AgentStepType == TypeOK /\ AgentStep => TypeOK'
<1> SUFFICES ASSUME TypeOK, NEW t \in TaskId, NEW a \in Agent,
                    \/ \E delivered \in BOOLEAN : ClaimDelegationTask(t, a, delivered)
                    \/ HeartbeatTask(t, a)
                    \/ AgentComplete(t, a)
                    \/ AgentFail(t, a)
                    \/ AgentStops(t, a)
             PROVE  TypeOK'
  BY DEF AgentStep
<1>1. ASSUME NEW delivered \in BOOLEAN, ClaimDelegationTask(t, a, delivered)
      PROVE  TypeOK'
  <2>1. task[t] \in TaskRow
    BY DEF TypeOK
  <2>2. [task[t] EXCEPT !.status = "running", !.agent_did = a, !.lease = LeaseMs]
          \in TaskRow
    BY <2>1, LeaseMsType DEF TaskRow, WorkflowTaskState
  <2>3. task' \in [TaskId -> TaskRow]
    BY <1>1, <2>2 DEF ClaimDelegationTask, TypeOK
  <2> QED
    BY <1>1, <2>3 DEF ClaimDelegationTask, TypeOK
<1>2. CASE HeartbeatTask(t, a)
  <2>1. \A r \in TaskRow : [r EXCEPT !.lease = LeaseMs] \in TaskRow
    BY LeaseMsType DEF TaskRow
  <2> QED
    BY <1>2, <2>1 DEF HeartbeatTask, TypeOK
<1>3. CASE AgentComplete(t, a)
  BY <1>3, SettleType DEF AgentComplete, Complete, TerminalEvents, TypeOK
<1>4. CASE AgentFail(t, a)
  BY <1>4, SettleType DEF AgentFail, Fail, TerminalEvents, TypeOK
<1>5. CASE AgentStops(t, a)
  BY <1>5 DEF AgentStops, TypeOK
<1> QED
  BY <1>1, <1>2, <1>3, <1>4, <1>5

LEMMA QueryStepType == TypeOK /\ QueryStep => TypeOK'
<1> SUFFICES ASSUME TypeOK, NEW t \in TaskId,
                    \/ \E key \in IdemKey, logged \in BOOLEAN :
                         ServiceQuery(t, key, logged)
                    \/ ServiceQuerySent(t)
                    \/ ServiceQuerySendFailed(t)
                    \/ ServiceResponseReceived(t)
             PROVE  TypeOK'
  BY DEF QueryStep
<1>1. ASSUME NEW key \in IdemKey, NEW logged \in BOOLEAN, ServiceQuery(t, key, logged)
      PROVE  TypeOK'
  <2>1. "service_query" \in WorkflowTaskKind /\ "created" \in InitialStates
    BY DEF WorkflowTaskKind, InitialStates
  <2>2. task' \in [TaskId -> TaskRow]
    BY <1>1, <2>1, InsertType DEF ServiceQuery
  <2>3. Emit(t, "created") \in [TaskId -> [EventKind -> Nat]]
    BY EmitType DEF EventKind
  <2> QED
    BY <1>1, <2>2, <2>3 DEF ServiceQuery, TypeOK
<1>2. CASE ServiceQuerySent(t)
  <2>1. [task EXCEPT ![t].status = "running"] \in [TaskId -> TaskRow]
    BY StatusType DEF WorkflowTaskState
  <2> QED
    BY <1>2, <2>1 DEF ServiceQuerySent, TypeOK
<1>3. CASE ServiceQuerySendFailed(t)
  <2>1. CASE Settle(t, "failed", Null)
    BY <1>3, <2>1, SettleType DEF ServiceQuerySendFailed, TerminalEvents, TypeOK
  <2>2. CASE UNCHANGED <<task, emitted>>
    BY <1>3, <2>2 DEF ServiceQuerySendFailed, TypeOK
  <2> QED
    BY <1>3, <2>1, <2>2 DEF ServiceQuerySendFailed
<1>4. CASE ServiceResponseReceived(t)
  BY <1>4, SettleType DEF ServiceResponseReceived, TerminalEvents, TypeOK
<1> QED
  BY <1>1, <1>2, <1>3, <1>4

LEMMA RespondStepType == TypeOK /\ RespondStep => TypeOK'
<1> SUFFICES ASSUME TypeOK, NEW t \in TaskId,
                    \/ ClaimApprovalForExecution(t)
                    \/ RespondRollback(t)
                    \/ RespondSent(t)
                    \/ RespondMarked(t)
                    \/ RespondRecovers(t)
             PROVE  TypeOK'
  BY DEF RespondStep
<1>1. CASE ClaimApprovalForExecution(t)
  <2>1. task[t] \in TaskRow /\ task[t].expires \in (0..MaxExpires) \cup {Null}
    BY DEF TypeOK, TaskRow
  <2>2. Extended(task[t].expires) \in 0..MaxExpires
    BY <2>1, ExtendedType
  <2>3. [task[t] EXCEPT !.status = "running", !.expires = Extended(task[t].expires)]
          \in TaskRow
    BY <2>1, <2>2 DEF TaskRow, WorkflowTaskState
  <2> QED
    BY <1>1, <2>3 DEF ClaimApprovalForExecution, TypeOK
<1>2. CASE RespondRollback(t)
  <2>1. [task EXCEPT ![t].status = "queued"] \in [TaskId -> TaskRow]
    BY StatusType DEF WorkflowTaskState
  <2> QED
    BY <1>2, <2>1 DEF RespondRollback, TypeOK
<1>3. CASE RespondSent(t)
  <2>1. CASE Settle(t, "completed", Null)
    BY <1>3, <2>1, SettleType DEF RespondSent, TerminalEvents, TypeOK
  <2>2. CASE UNCHANGED <<task, emitted>>
    BY <1>3, <2>2 DEF RespondSent, TypeOK
  <2> QED
    BY <1>3, <2>1, <2>2 DEF RespondSent
<1>4. CASE RespondMarked(t)
  <2>1. \A r \in TaskRow : [r EXCEPT !.run_id = TRUE] \in TaskRow
    BY DEF TaskRow
  <2>2. task' \in [TaskId -> TaskRow]
    BY <1>4, <2>1 DEF RespondMarked, TypeOK
  <2> QED
    BY <1>4, <2>2 DEF RespondMarked, TypeOK
<1>5. CASE RespondRecovers(t)
  BY <1>5, SettleType DEF RespondRecovers, TerminalEvents, TypeOK
<1> QED
  BY <1>1, <1>2, <1>3, <1>4, <1>5

(* The sweeps and the clock touch many rows at once, each row in its type. *)
LEMMA SweepType ==
  /\ TypeOK /\ ExpireLeasedTasks => TypeOK'
  /\ TypeOK /\ ExpireTasks => TypeOK'
  /\ TypeOK /\ Tick => TypeOK'
<1>1. ASSUME TypeOK, ExpireLeasedTasks PROVE TypeOK'
  <2>1. \A r \in TaskRow :
          [r EXCEPT !.status = "queued", !.agent_did = Null, !.lease = Null] \in TaskRow
    BY DEF TaskRow, WorkflowTaskState
  <2> QED
    BY <1>1, <2>1 DEF ExpireLeasedTasks, TypeOK
<1>2. ASSUME TypeOK, ExpireTasks PROVE TypeOK'
  <2>1. \A r \in TaskRow : [r EXCEPT !.status = "failed"] \in TaskRow
    BY DEF TaskRow, WorkflowTaskState
  <2>2. \A e \in [EventKind -> Nat] :
          [e EXCEPT !["failed"] = @ + 1] \in [EventKind -> Nat]
    BY DEF EventKind
  <2>3. task' \in [TaskId -> TaskRow]
    BY <1>2, <2>1 DEF ExpireTasks, TypeOK
  <2>4. emitted' \in [TaskId -> [EventKind -> Nat]]
    BY <1>2, <2>2 DEF ExpireTasks, TypeOK
  <2> QED
    BY <1>2, <2>3, <2>4 DEF ExpireTasks, TypeOK
<1>3. ASSUME TypeOK, Tick PROVE TypeOK'
  <2>1. \A r \in TaskRow :
          [r EXCEPT !.lease = Later(@, -1), !.expires = Later(@, 0)] \in TaskRow
    <3> SUFFICES ASSUME NEW r \in TaskRow
                 PROVE  [r EXCEPT !.lease = Later(@, -1), !.expires = Later(@, 0)]
                          \in TaskRow
      OBVIOUS
    <3>1. /\ Later(r.lease, -1) \in (-1..LeaseMs) \cup {Null}
          /\ Later(r.expires, 0) \in (0..MaxExpires) \cup {Null}
      BY LaterType DEF TaskRow
    <3> QED
      BY <3>1 DEF TaskRow
  <2> QED
    BY <1>3, <2>1 DEF Tick, TypeOK
<1> QED
  BY <1>1, <1>2, <1>3

LEMMA NextType == TypeOK /\ [Next]_vars => TypeOK'
<1> SUFFICES ASSUME TypeOK, [Next]_vars PROVE TypeOK'
  OBVIOUS
<1>1. CASE Restart \/ UNCHANGED vars
  BY <1>1 DEF Restart, vars, TypeOK
<1> QED
  BY <1>1, ServiceStepType, AgentStepType, QueryStepType, RespondStepType, SweepType
     DEF Next

-----------------------------------------------------------------------------
(* What one step of the system may do to one row: the cases from which the *)
(* invariants follow, whichever handler the step belongs to.               *)

SameIdentity(t) ==
  task'[t].kind = task[t].kind /\ task'[t].key = task[t].key

SameDeadlines(t) ==
  /\ (task'[t].lease = Null) <=> (task[t].lease = Null)
  /\ (task'[t].expires = Null) <=> (task[t].expires = Null)

Idle(t) ==
  /\ SameIdentity(t) /\ SameDeadlines(t)
  /\ task'[t].status = task[t].status
  /\ task'[t].agent_did = task[t].agent_did
  /\ emitted'[t] = emitted[t]

Inserted(t) ==
  /\ task[t].status = "absent" /\ task'[t].status \in InitialStates
  /\ task'[t].agent_did = Null /\ task'[t].lease = Null
  /\ task'[t].key # Null =>
       \A u \in TaskId : task[u].key = task'[t].key => ~Active(u)
  /\ \A u \in TaskId \ {t} : task'[u] = task[u]
  /\ \A k \in EventKind \ {"created"} : emitted'[t][k] = emitted[t][k]

Approved(t) ==
  /\ SameIdentity(t) /\ SameDeadlines(t)
  /\ task[t].status = "pending_approval" /\ task'[t].status = "queued"
  /\ task'[t].agent_did = task[t].agent_did
  /\ emitted'[t]["approved"] <= emitted[t]["approved"] + 1
  /\ \A k \in EventKind \ {"approved"} : emitted'[t][k] = emitted[t][k]

Settled(t) ==
  /\ SameIdentity(t) /\ SameDeadlines(t)
  /\ Active(t)
  /\ task'[t].status \in TerminalEvents
  /\ emitted'[t] = [emitted[t] EXCEPT ![task'[t].status] = @ + 1]

Leased(t) ==
  /\ SameIdentity(t)
  /\ task[t].kind = "delegation"
  /\ task[t].status = "queued" /\ task'[t].status = "running"
  /\ task'[t].lease # Null /\ task'[t].agent_did # Null
  /\ (task'[t].expires = Null) <=> (task[t].expires = Null)
  /\ emitted'[t] = emitted[t]

Released(t) ==
  /\ SameIdentity(t)
  /\ task[t].status = "running" /\ task'[t].status = "queued"
  /\ task'[t].lease = Null /\ task'[t].agent_did = Null
  /\ (task'[t].expires = Null) <=> (task[t].expires = Null)
  /\ emitted'[t] = emitted[t]

Started(t) ==
  /\ SameIdentity(t)
  /\ task[t].kind # "delegation"
  /\ task[t].status \in {"created", "queued", "pending_approval"}
  /\ task'[t].status = "running"
  /\ task'[t].lease = task[t].lease /\ task'[t].agent_did = task[t].agent_did
  /\ \/ task'[t].expires # Null
     \/ t \in inFlight /\ task'[t].expires = task[t].expires
  /\ emitted'[t] = emitted[t]

RolledBack(t) ==
  /\ SameIdentity(t) /\ SameDeadlines(t)
  /\ task[t].kind = "approval"
  /\ task[t].status = "running" /\ task'[t].status = "queued"
  /\ task'[t].agent_did = task[t].agent_did
  /\ emitted'[t] = emitted[t]

RowStep(t) ==
  \/ Idle(t) \/ Inserted(t) \/ Approved(t) \/ Settled(t) \/ Leased(t)
  \/ Released(t) \/ Started(t) \/ RolledBack(t)

LEMMA SettleRowStep ==
  ASSUME TypeOK, NEW t \in TaskId, NEW u \in TaskId, NEW k \in TerminalEvents,
         NEW by \in Agent \cup {Null}, Settle(t, k, by)
  PROVE  RowStep(u)
<1>1. CASE u = t
  <2>1. Settled(t)
    BY DEF Settled, SameIdentity, SameDeadlines, Settle, Emit, TypeOK, TaskRow
  <2> QED
    BY <1>1, <2>1 DEF RowStep
<1>2. CASE u # t
  <2>1. Idle(u)
    BY <1>2 DEF Idle, SameIdentity, SameDeadlines, Settle, Emit, TypeOK
  <2> QED
    BY <2>1 DEF RowStep
<1> QED
  BY <1>1, <1>2

LEMMA InsertRowStep ==
  ASSUME TypeOK, NEW t \in TaskId, NEW u \in TaskId,
         NEW kind, NEW status \in InitialStates, NEW key, NEW expires,
         InsertTask(t, kind, status, key, expires),
         emitted' = emitted \/ emitted' = Emit(t, "created")
  PROVE  RowStep(u)
<1>1. CASE u = t
  <2>1. Inserted(t)
    BY DEF Inserted, InsertTask, Emit, Rows, TypeOK, EventKind
  <2> QED
    BY <1>1, <2>1 DEF RowStep
<1>2. CASE u # t
  <2>1. Idle(u)
    BY <1>2 DEF Idle, SameIdentity, SameDeadlines, InsertTask, Emit, TypeOK
  <2> QED
    BY <2>1 DEF RowStep
<1> QED
  BY <1>1, <1>2

LEMMA ServiceRowStep ==
  ASSUME TypeOK, ServiceStep, NEW u \in TaskId PROVE RowStep(u)
<1>1. ASSUME NEW t \in TaskId, NEW new \in NewTasks,
             NEW key \in IdemKey \cup {Null}, NEW expires \in {Ttl, Null},
             NEW logged \in BOOLEAN,
             Create(t, new[1], new[2], key, expires, logged)
      PROVE  RowStep(u)
  <2>1. new[2] \in InitialStates
    BY NewTasksAssumption
  <2> QED
    BY <1>1, <2>1, InsertRowStep DEF Create, EventLogged
<1>2. ASSUME NEW t \in TaskId, NEW logged \in BOOLEAN, Approve(t, logged)
      PROVE  RowStep(u)
  <2>1. CASE u = t
    <3>1. emitted[t] \in [EventKind -> Nat] /\ "approved" \in EventKind
      BY DEF TypeOK, EventKind
    <3>2. /\ emitted'[t]["approved"] <= emitted[t]["approved"] + 1
          /\ \A k \in EventKind \ {"approved"} : emitted'[t][k] = emitted[t][k]
      BY <1>2, <3>1 DEF Approve, EventLogged, Emit, TypeOK
    <3>3. Approved(t)
      BY <1>2, <3>2 DEF Approved, Approve, SameIdentity, SameDeadlines, TypeOK, TaskRow
    <3> QED
      BY <2>1, <3>3 DEF RowStep
  <2>2. CASE u # t
    <3>1. Idle(u)
      BY <1>2, <2>2 DEF Idle, Approve, EventLogged, Emit, SameIdentity,
                        SameDeadlines, TypeOK
    <3> QED
      BY <3>1 DEF RowStep
  <2> QED
    BY <2>1, <2>2
<1>3. ASSUME NEW t \in TaskId, CoreComplete(t) PROVE RowStep(u)
  BY <1>3, SettleRowStep DEF CoreComplete, Complete, TerminalEvents
<1>4. ASSUME NEW t \in TaskId, CoreFail(t) PROVE RowStep(u)
  BY <1>4, SettleRowStep DEF CoreFail, Fail, TerminalEvents
<1>5. ASSUME NEW t \in TaskId, Cancel(t) PROVE RowStep(u)
  <2>1. task[t].agent_did \in Agent \cup {Null}
    BY DEF TypeOK, TaskRow
  <2> QED
    BY <1>5, <2>1, SettleRowStep DEF Cancel, TerminalEvents
<1> QED
  BY <1>1, <1>2, <1>3, <1>4, <1>5 DEF ServiceStep

(* A heartbeat finds a lease to renew: its row is running for its agent.   *)
LEMMA AgentRowStep ==
  ASSUME TypeOK, LeaseIffRunningDelegation, AgentStep, NEW u \in TaskId
  PROVE  RowStep(u)
<1> PICK t \in TaskId, a \in Agent :
      \/ \E delivered \in BOOLEAN : ClaimDelegationTask(t, a, delivered)
      \/ HeartbeatTask(t, a)
      \/ AgentComplete(t, a)
      \/ AgentFail(t, a)
      \/ AgentStops(t, a)
  BY DEF AgentStep
<1>1. ASSUME NEW delivered \in BOOLEAN, ClaimDelegationTask(t, a, delivered)
      PROVE  RowStep(u)
  <2>1. CASE u = t
    <3>1. LeaseMs # Null /\ a # Null
      BY NullAssumption, DeadlineAssumption
    <3>2. Leased(t)
      BY <1>1, <3>1 DEF Leased, ClaimDelegationTask, Claimable, SameIdentity,
                        TypeOK, TaskRow
    <3> QED
      BY <2>1, <3>2 DEF RowStep
  <2>2. CASE u # t
    BY <1>1, <2>2 DEF RowStep, Idle, ClaimDelegationTask, SameIdentity,
                      SameDeadlines, TypeOK
  <2> QED
    BY <2>1, <2>2
<1>2. CASE HeartbeatTask(t, a)
  <2>1. task[t].lease # Null
    BY <1>2, NullAssumption
       DEF HeartbeatTask, LeaseIffRunningDelegation, Active, Rows, IsTerminal,
           TerminalStates
  <2>2. LeaseMs # Null
    BY NullAssumption, DeadlineAssumption
  <2>3. CASE u = t
    BY <1>2, <2>1, <2>2, <2>3
       DEF HeartbeatTask, RowStep, Idle, SameIdentity, SameDeadlines, TypeOK, TaskRow
  <2>4. CASE u # t
    BY <1>2, <2>4
       DEF HeartbeatTask, RowStep, Idle, SameIdentity, SameDeadlines, TypeOK
  <2> QED
    BY <2>3, <2>4
<1>3. CASE AgentComplete(t, a)
  BY <1>3, SettleRowStep DEF AgentComplete, Complete, TerminalEvents
<1>4. CASE AgentFail(t, a)
  BY <1>4, SettleRowStep DEF AgentFail, Fail, TerminalEvents
<1>5. CASE AgentStops(t, a)
  BY <1>5 DEF AgentStops, RowStep, Idle, SameIdentity, SameDeadlines
<1> QED
  BY <1>1, <1>2, <1>3, <1>4, <1>5

LEMMA QueryRowStep ==
  ASSUME TypeOK, QueryStep, NEW u \in TaskId PROVE RowStep(u)
<1> PICK t \in TaskId :
      \/ \E key \in IdemKey, logged \in BOOLEAN : ServiceQuery(t, key, logged)
      \/ ServiceQuerySent(t)
      \/ ServiceQuerySendFailed(t)
      \/ ServiceResponseReceived(t)
  BY DEF QueryStep
<1>1. ASSUME NEW key \in IdemKey, NEW logged \in BOOLEAN, ServiceQuery(t, key, logged)
      PROVE  RowStep(u)
  BY <1>1, InsertRowStep DEF ServiceQuery, InitialStates
<1>2. CASE ServiceQuerySent(t)
  <2>1. CASE u = t /\ task[t].status = "created"
    <3>1. Started(t)
      BY <1>2, <2>1 DEF ServiceQuerySent, Started, SameIdentity, TypeOK, TaskRow
    <3> QED
      BY <2>1, <3>1 DEF RowStep
  <2>2. CASE u # t \/ task[t].status # "created"
    BY <1>2, <2>2
       DEF ServiceQuerySent, RowStep, Idle, SameIdentity, SameDeadlines, TypeOK
  <2> QED
    BY <2>1, <2>2
<1>3. CASE ServiceQuerySendFailed(t)
  <2>1. CASE Settle(t, "failed", Null)
    BY <2>1, SettleRowStep DEF TerminalEvents
  <2>2. CASE UNCHANGED <<task, emitted>>
    BY <2>2 DEF RowStep, Idle, SameIdentity, SameDeadlines
  <2> QED
    BY <1>3, <2>1, <2>2 DEF ServiceQuerySendFailed
<1>4. CASE ServiceResponseReceived(t)
  BY <1>4, SettleRowStep DEF ServiceResponseReceived, TerminalEvents
<1> QED
  BY <1>1, <1>2, <1>3, <1>4

LEMMA RespondRowStep ==
  ASSUME TypeOK, RespondStep, NEW u \in TaskId PROVE RowStep(u)
<1> PICK t \in TaskId :
      \/ ClaimApprovalForExecution(t)
      \/ RespondRollback(t)
      \/ RespondSent(t)
      \/ RespondMarked(t)
      \/ RespondRecovers(t)
  BY DEF RespondStep
<1>1. CASE ClaimApprovalForExecution(t)
  <2>1. CASE u = t
    <3>1. task[t] \in TaskRow /\ task[t].expires \in (0..MaxExpires) \cup {Null}
      BY DEF TypeOK, TaskRow
    <3>2. Extended(task[t].expires) # Null
      <4>1. Extended(task[t].expires) \in 0..MaxExpires
        BY <3>1, ExtendedType
      <4> QED
        BY <4>1, NullAssumption
    <3>3. Started(t)
      BY <1>1, <3>1, <3>2
         DEF ClaimApprovalForExecution, Started, SameIdentity, TypeOK, TaskRow
    <3> QED
      BY <2>1, <3>3 DEF RowStep
  <2>2. CASE u # t
    BY <1>1, <2>2
       DEF ClaimApprovalForExecution, RowStep, Idle, SameIdentity, SameDeadlines, TypeOK
  <2> QED
    BY <2>1, <2>2
<1>2. CASE RespondRollback(t)
  <2>1. CASE u = t /\ task[t].status = "running"
    <3>1. RolledBack(t)
      BY <1>2, <2>1
         DEF RespondRollback, RolledBack, SameIdentity, SameDeadlines, TypeOK, TaskRow
    <3> QED
      BY <2>1, <3>1 DEF RowStep
  <2>2. CASE u # t \/ task[t].status # "running"
    BY <1>2, <2>2
       DEF RespondRollback, RowStep, Idle, SameIdentity, SameDeadlines, TypeOK
  <2> QED
    BY <2>1, <2>2
<1>3. CASE RespondSent(t)
  <2>1. CASE Settle(t, "completed", Null)
    BY <2>1, SettleRowStep DEF TerminalEvents
  <2>2. CASE UNCHANGED <<task, emitted>>
    BY <2>2 DEF RowStep, Idle, SameIdentity, SameDeadlines
  <2> QED
    BY <1>3, <2>1, <2>2 DEF RespondSent
<1>4. CASE RespondMarked(t)
  <2>1. task' = task \/ task' = [task EXCEPT ![t].run_id = TRUE]
    BY <1>4 DEF RespondMarked
  <2>2. emitted' = emitted
    BY <1>4 DEF RespondMarked
  <2>3. Idle(u)
    BY <2>1, <2>2 DEF Idle, SameIdentity, SameDeadlines, TypeOK, TaskRow
  <2> QED
    BY <2>3 DEF RowStep
<1>5. CASE RespondRecovers(t)
  BY <1>5, SettleRowStep DEF RespondRecovers, TerminalEvents
<1> QED
  BY <1>1, <1>2, <1>3, <1>4, <1>5

LEMMA SweepRowStep ==
  ASSUME TypeOK, ExpireLeasedTasks \/ ExpireTasks \/ Tick, NEW u \in TaskId
  PROVE  RowStep(u)
<1>1. CASE ExpireLeasedTasks
  <2>1. CASE LeaseSweepable(u)
    <3>1. /\ task'[u] = [task[u] EXCEPT !.status = "queued", !.agent_did = Null,
                                        !.lease = Null]
          /\ emitted' = emitted
      BY <1>1, <2>1 DEF ExpireLeasedTasks
    <3>2. task[u] \in TaskRow /\ task[u].status = "running" /\ LeaseLapsed(u)
      BY <2>1 DEF LeaseSweepable, TypeOK
    <3>3. Released(u)
      BY <3>1, <3>2 DEF LeaseLapsed, Released, SameIdentity, TaskRow
    <3> QED
      BY <3>3 DEF RowStep
  <2>2. CASE ~LeaseSweepable(u)
    BY <1>1, <2>2 DEF ExpireLeasedTasks, RowStep, Idle, SameIdentity, SameDeadlines
  <2> QED
    BY <2>1, <2>2
<1>2. CASE ExpireTasks
  <2>1. CASE TtlSweepable(u)
    <3>1. /\ task'[u] = [task[u] EXCEPT !.status = "failed"]
          /\ emitted'[u] = [emitted[u] EXCEPT !["failed"] = @ + 1]
          /\ Active(u)
      BY <1>2, <2>1 DEF ExpireTasks, TtlSweepable
    <3>2. task[u] \in TaskRow
      BY DEF TypeOK
    <3>3. task'[u].status = "failed" /\ SameIdentity(u) /\ SameDeadlines(u)
      BY <3>1, <3>2 DEF SameIdentity, SameDeadlines, TaskRow
    <3>4. Settled(u)
      BY <3>1, <3>3 DEF Settled, TerminalEvents
    <3> QED
      BY <3>4 DEF RowStep
  <2>2. CASE ~TtlSweepable(u)
    BY <1>2, <2>2 DEF ExpireTasks, RowStep, Idle, SameIdentity, SameDeadlines
  <2> QED
    BY <2>1, <2>2
<1>3. CASE Tick
  <2>1. task[u] \in TaskRow
    BY DEF TypeOK
  <2>2. /\ (Later(task[u].lease, -1) = Null) <=> (task[u].lease = Null)
        /\ (Later(task[u].expires, 0) = Null) <=> (task[u].expires = Null)
    BY <2>1, NullAssumption, DeadlineAssumption DEF Later, TaskRow
  <2>3. Idle(u)
    BY <1>3, <2>1, <2>2 DEF Tick, Idle, SameIdentity, SameDeadlines, TaskRow
  <2> QED
    BY <2>3 DEF RowStep
<1> QED
  BY <1>1, <1>2, <1>3

(* Every step of the system is one of the cases above for every row.       *)
LEMMA NextRowStep ==
  ASSUME TypeOK, LeaseIffRunningDelegation, [Next]_vars, NEW u \in TaskId
  PROVE  RowStep(u)
<1>1. CASE Restart \/ UNCHANGED vars
  BY <1>1 DEF Restart, vars, RowStep, Idle, SameIdentity, SameDeadlines
<1> QED
  BY <1>1, ServiceRowStep, AgentRowStep, QueryRowStep, RespondRowStep, SweepRowStep
     DEF Next

-----------------------------------------------------------------------------
(* The inductive invariant.  Two facts are added to the invariants that    *)
(* the runs check: a task that still waits for its operator has announced  *)
(* no approval, and a handler that awaits a send holds a row that has a    *)
(* deadline (so the row it turns to `running' is in the sweepers' reach).  *)

NotYetApproved ==
  \A t \in TaskId :
    task[t].status \in {"absent", "pending_approval"} => emitted[t]["approved"] = 0

InFlightHasDeadline ==
  \A t \in inFlight : task[t].status # "absent" /\ task[t].expires # Null

IInv ==
  /\ TypeOK
  /\ OneTerminalEvent
  /\ ApprovedAtMostOnce /\ NotYetApproved
  /\ ActiveKeyUnique
  /\ LeaseIffRunningDelegation
  /\ RunningIsRecoverable /\ InFlightHasDeadline

LEMMA InitIInv == Init => IInv
<1> SUFFICES ASSUME Init PROVE IInv
  OBVIOUS
<1>1. TypeOK
  <2>1. NoRow \in TaskRow
    BY DEF NoRow, TaskRow, WorkflowTaskKind
  <2> QED
    BY <2>1 DEF Init, TypeOK
<1>2. \A t \in TaskId : /\ task[t].status = "absent"
                        /\ \A k \in EventKind : emitted[t][k] = 0
  BY DEF Init, NoRow
<1>3. TerminalEvents \subseteq EventKind /\ "approved" \in EventKind
  BY DEF TerminalEvents, EventKind
<1>4. OneTerminalEvent
  BY <1>2, <1>3 DEF OneTerminalEvent, TerminalEvents
<1>5. ApprovedAtMostOnce /\ NotYetApproved
  BY <1>2, <1>3 DEF ApprovedAtMostOnce, NotYetApproved
<1>6. ActiveKeyUnique /\ LeaseIffRunningDelegation /\ RunningIsRecoverable
  BY <1>2 DEF ActiveKeyUnique, LeaseIffRunningDelegation, RunningIsRecoverable,
              Active, Rows
<1>7. InFlightHasDeadline
  BY DEF Init, InFlightHasDeadline
<1> QED
  BY <1>1, <1>4, <1>5, <1>6, <1>7 DEF IInv

(* A handler starts to await only on a row that it gave a deadline.        *)
LEMMA InFlightStep ==
  ASSUME TypeOK, [Next]_vars, NEW u \in inFlight'
  PROVE  u \in inFlight \/ (task'[u].status # "absent" /\ task'[u].expires # Null)
<1>1. CASE ServiceStep
  BY <1>1 DEF ServiceStep, Create, Approve, EventLogged, CoreComplete, CoreFail,
              Complete, Fail, Cancel
<1>2. CASE AgentStep
  BY <1>2 DEF AgentStep, ClaimDelegationTask, HeartbeatTask, AgentComplete,
              AgentFail, AgentStops, Complete, Fail
<1>3. CASE QueryStep
  <2> PICK t \in TaskId :
        \/ \E key \in IdemKey, logged \in BOOLEAN : ServiceQuery(t, key, logged)
        \/ ServiceQuerySent(t)
        \/ ServiceQuerySendFailed(t)
        \/ ServiceResponseReceived(t)
    BY <1>3 DEF QueryStep
  <2>1. ASSUME NEW key \in IdemKey, NEW logged \in BOOLEAN,
               ServiceQuery(t, key, logged)
        PROVE  u \in inFlight \/ (task'[u].status # "absent" /\ task'[u].expires # Null)
    <3>1. Ttl # Null
      BY NullAssumption, DeadlineAssumption
    <3>2. task'[t].status = "created" /\ task'[t].expires = Ttl
      BY <2>1 DEF ServiceQuery, InsertTask, TypeOK
    <3>3. u \in inFlight \/ u = t
      BY <2>1 DEF ServiceQuery
    <3> QED
      BY <3>1, <3>2, <3>3
  <2>2. CASE \/ ServiceQuerySent(t)
             \/ ServiceQuerySendFailed(t)
             \/ ServiceResponseReceived(t)
    BY <2>2 DEF ServiceQuerySent, ServiceQuerySendFailed, ServiceResponseReceived
  <2> QED
    BY <2>1, <2>2
<1>4. CASE RespondStep
  <2> PICK t \in TaskId :
        \/ ClaimApprovalForExecution(t)
        \/ RespondRollback(t) \/ RespondSent(t)
        \/ RespondMarked(t) \/ RespondRecovers(t)
    BY <1>4 DEF RespondStep
  <2>1. CASE ClaimApprovalForExecution(t)
    <3>1. task[t] \in TaskRow /\ task[t].expires \in (0..MaxExpires) \cup {Null}
      BY DEF TypeOK, TaskRow
    <3>2. Extended(task[t].expires) # Null
      <4>1. Extended(task[t].expires) \in 0..MaxExpires
        BY <3>1, ExtendedType
      <4> QED
        BY <4>1, NullAssumption
    <3>3. task'[t].status = "running" /\ task'[t].expires = Extended(task[t].expires)
      BY <2>1, <3>1 DEF ClaimApprovalForExecution, TypeOK, TaskRow
    <3> QED
      BY <2>1, <3>2, <3>3 DEF ClaimApprovalForExecution
  <2>2. CASE \/ RespondRollback(t) \/ RespondSent(t)
             \/ RespondMarked(t) \/ RespondRecovers(t)
    BY <2>2 DEF RespondRollback, RespondSent, RespondMarked, RespondRecovers
  <2> QED
    BY <2>1, <2>2
<1>5. CASE \/ ExpireLeasedTasks \/ ExpireTasks \/ Tick \/ Restart
           \/ UNCHANGED vars
  BY <1>5 DEF ExpireLeasedTasks, ExpireTasks, Tick, Restart, vars
<1> QED
  BY <1>1, <1>2, <1>3, <1>4, <1>5 DEF Next


-----------------------------------------------------------------------------
(* Each conjunct of the invariant is kept, by the cases of RowStep.        *)

LEMMA OneTerminalEventStep ==
  ASSUME TypeOK, OneTerminalEvent, \A t \in TaskId : RowStep(t)
  PROVE  OneTerminalEvent'
<1> SUFFICES ASSUME NEW t \in TaskId, NEW k \in TerminalEvents
             PROVE  emitted'[t][k] = IF task'[t].status = k THEN 1 ELSE 0
  BY DEF OneTerminalEvent
<1>1. emitted[t][k] = IF task[t].status = k THEN 1 ELSE 0
  BY DEF OneTerminalEvent
<1>2. k \in EventKind /\ k \in {"completed", "failed", "cancelled"}
  BY DEF TerminalEvents, EventKind
<1>3. CASE Settled(t)
  <2>1. task[t].status # k /\ emitted[t][k] = 0
    BY <1>1, <1>2, <1>3 DEF Settled, Active, IsTerminal, TerminalStates
  <2>2. emitted[t] \in [EventKind -> Nat]
    BY DEF TypeOK
  <2> QED
    BY <1>2, <1>3, <2>1, <2>2 DEF Settled
<1>4. CASE ~Settled(t)
  BY <1>1, <1>2, <1>4
     DEF RowStep, Idle, Inserted, Approved, Leased, Released, Started, RolledBack,
         InitialStates
<1> QED
  BY <1>3, <1>4

LEMMA ApprovedStep ==
  ASSUME TypeOK, ApprovedAtMostOnce, NotYetApproved, \A t \in TaskId : RowStep(t)
  PROVE  ApprovedAtMostOnce' /\ NotYetApproved'
<1> SUFFICES ASSUME NEW t \in TaskId
             PROVE  /\ emitted'[t]["approved"] <= 1
                    /\ task'[t].status \in {"absent", "pending_approval"}
                         => emitted'[t]["approved"] = 0
  BY DEF ApprovedAtMostOnce, NotYetApproved
<1>1. /\ emitted[t]["approved"] \in Nat
      /\ emitted[t]["approved"] <= 1
      /\ task[t].status \in {"absent", "pending_approval"}
           => emitted[t]["approved"] = 0
  <2>1. "approved" \in EventKind
    BY DEF EventKind
  <2> QED
    BY <2>1 DEF ApprovedAtMostOnce, NotYetApproved, TypeOK
<1>2. CASE Approved(t)
  <2>1. emitted[t]["approved"] = 0 /\ emitted'[t]["approved"] <= 1
    BY <1>1, <1>2 DEF Approved
  <2> QED
    BY <1>2, <2>1 DEF Approved
<1>3. CASE ~Approved(t)
  <2>1. emitted'[t]["approved"] = emitted[t]["approved"]
    <3>1. CASE Settled(t)
      BY <3>1 DEF Settled, TerminalEvents, TypeOK
    <3>2. CASE Inserted(t)
      BY <3>2 DEF Inserted, EventKind
    <3>3. CASE emitted'[t] = emitted[t]
      BY <3>3
    <3> QED
      BY <1>3, <3>1, <3>2, <3>3
      DEF RowStep, Idle, Leased, Released, Started, RolledBack
  <2>2. task'[t].status \in {"absent", "pending_approval"}
          => task[t].status \in {"absent", "pending_approval"}
    BY <1>3 DEF RowStep, Idle, Inserted, Settled, Leased, Released, Started,
                RolledBack, TerminalEvents
  <2> QED
    BY <1>1, <2>1, <2>2
<1> QED
  BY <1>2, <1>3

LEMMA ActiveKeyUniqueStep ==
  ASSUME ActiveKeyUnique, \A t \in TaskId : RowStep(t)
  PROVE  ActiveKeyUnique'
<1> SUFFICES ASSUME NEW t \in TaskId, NEW u \in TaskId, Active(t)', Active(u)',
                    task'[t].key # Null, task'[t].key = task'[u].key
             PROVE  t = u
  BY DEF ActiveKeyUnique
<1>1. ASSUME NEW v \in TaskId, Active(v)', ~Inserted(v)
      PROVE  Active(v) /\ task[v].key = task'[v].key
  <2>1. RowStep(v)
    OBVIOUS
  <2> QED
    BY <1>1, <2>1
       DEF RowStep, Idle, Approved, Settled, Leased, Released, Started, RolledBack,
           SameIdentity, Active, Rows, IsTerminal, TerminalStates, TerminalEvents
<1>2. CASE Inserted(t) /\ t # u
  <2>1. task'[u] = task[u] /\ Active(u)
    BY <1>2 DEF Inserted, Active, Rows
  <2> QED
    BY <1>2, <2>1 DEF Inserted
<1>3. CASE Inserted(u) /\ t # u
  <2>1. task'[t] = task[t] /\ Active(t)
    BY <1>3 DEF Inserted, Active, Rows
  <2> QED
    BY <1>3, <2>1 DEF Inserted
<1>4. CASE ~Inserted(t) /\ ~Inserted(u)
  BY <1>1, <1>4 DEF ActiveKeyUnique
<1> QED
  BY <1>2, <1>3, <1>4

LEMMA LeaseStep ==
  ASSUME LeaseIffRunningDelegation, \A t \in TaskId : RowStep(t)
  PROVE  LeaseIffRunningDelegation'
<1> SUFFICES ASSUME NEW t \in TaskId, Active(t)'
             PROVE  /\ (task'[t].lease # Null)
                         <=> (task'[t].kind = "delegation" /\ task'[t].status = "running")
                    /\ (task'[t].lease # Null) <=> (task'[t].agent_did # Null)
  BY DEF LeaseIffRunningDelegation
<1>1. CASE Inserted(t)
  BY <1>1 DEF Inserted, InitialStates
<1>2. CASE Leased(t)
  BY <1>2 DEF Leased, SameIdentity
<1>3. CASE Released(t)
  BY <1>3 DEF Released
<1>4. CASE Settled(t)
  BY <1>4 DEF Settled, Active, IsTerminal, TerminalStates, TerminalEvents
<1>5. CASE Idle(t) \/ Approved(t) \/ Started(t) \/ RolledBack(t)
  <2>1. Active(t)
    BY <1>5 DEF Idle, Approved, Started, RolledBack, Active, Rows, IsTerminal,
                TerminalStates
  <2>2. /\ (task[t].lease # Null)
             <=> (task[t].kind = "delegation" /\ task[t].status = "running")
        /\ (task[t].lease # Null) <=> (task[t].agent_did # Null)
    BY <2>1 DEF LeaseIffRunningDelegation
  <2> QED
    BY <1>5, <2>2
       DEF Idle, Approved, Started, RolledBack, SameIdentity, SameDeadlines
<1> QED
  BY <1>1, <1>2, <1>3, <1>4, <1>5 DEF RowStep

LEMMA RecoverableStep ==
  ASSUME TypeOK, RunningIsRecoverable, InFlightHasDeadline, [Next]_vars,
         \A t \in TaskId : RowStep(t)
  PROVE  RunningIsRecoverable' /\ InFlightHasDeadline'
<1>1. RunningIsRecoverable'
  <2> SUFFICES ASSUME NEW t \in TaskId, task'[t].status = "running"
               PROVE  task'[t].lease # Null \/ task'[t].expires # Null
    BY DEF RunningIsRecoverable
  <2>1. RowStep(t)
    OBVIOUS
  <2>2. CASE Idle(t)
    BY <2>2 DEF Idle, SameDeadlines, RunningIsRecoverable
  <2>3. CASE Started(t)
    BY <2>3 DEF Started, InFlightHasDeadline
  <2>4. CASE Leased(t)
    BY <2>4 DEF Leased
  <2> QED
    BY <2>1, <2>2, <2>3, <2>4
       DEF RowStep, Inserted, Approved, Settled, Released, RolledBack,
           InitialStates, TerminalEvents
<1>2. InFlightHasDeadline'
  <2> SUFFICES ASSUME NEW t \in inFlight'
               PROVE  task'[t].status # "absent" /\ task'[t].expires # Null
    BY DEF InFlightHasDeadline
  <2>1. CASE t \in inFlight
    <3>1. t \in TaskId /\ RowStep(t)
      BY <2>1 DEF TypeOK
    <3>2. task[t].status # "absent" /\ task[t].expires # Null
      BY <2>1 DEF InFlightHasDeadline
    <3>3. task'[t].expires # Null
      BY <3>1, <3>2
         DEF RowStep, Idle, Inserted, Approved, Settled, Leased, Released, Started,
             RolledBack, SameDeadlines
    <3>4. task'[t].status # "absent"
      BY <3>1, <3>2
         DEF RowStep, Idle, Inserted, Approved, Settled, Leased, Released, Started,
             RolledBack, TerminalEvents, InitialStates
    <3> QED
      BY <3>3, <3>4
  <2>2. CASE t \notin inFlight
    BY <2>2, InFlightStep
  <2> QED
    BY <2>1, <2>2
<1> QED
  BY <1>1, <1>2

(* The invariant is kept by every step of the store, also by those that    *)
(* another component takes in it.                                          *)
LEMMA StoreInductive == IInv /\ [Next]_vars => IInv'
<1> SUFFICES ASSUME IInv, [Next]_vars PROVE IInv'
  OBVIOUS
<1> USE DEF IInv
<1>1. \A t \in TaskId : RowStep(t)
  BY NextRowStep
<1> QED
  BY <1>1, NextType, OneTerminalEventStep, ApprovedStep, ActiveKeyUniqueStep,
     LeaseStep, RecoverableStep

(* No step rewrites how a task ended or who ended it.                      *)
LEMMA FinalStep ==
  IInv /\ [Next]_vars =>
    [\A t \in TaskId : IsTerminal(task[t].status) =>
       /\ task'[t].status = task[t].status
       /\ task'[t].agent_did = task[t].agent_did]_vars
<1> SUFFICES ASSUME IInv, [Next]_vars, NEW t \in TaskId, IsTerminal(task[t].status)
             PROVE  /\ task'[t].status = task[t].status
                    /\ task'[t].agent_did = task[t].agent_did
  OBVIOUS
<1>1. RowStep(t)
  BY NextRowStep DEF IInv
<1> QED
  BY <1>1
     DEF RowStep, Idle, Inserted, Approved, Settled, Leased, Released, Started,
         RolledBack, Active, IsTerminal, TerminalStates

LEMMA Inductive == Spec => []IInv
BY StoreInductive, InitIInv, PTL DEF Spec

(* The store never holds a row outside its schema: no deadline overruns    *)
(* its bound, no column takes a value of another one's type.               *)
THEOREM TypeCorrect == Spec => []TypeOK
BY Inductive, PTL DEF IInv

(* However agents, operators, responses, sweeps and crashes race, a task   *)
(* is settled once and its one terminal event names how (Settle's guard    *)
(* and the sweep's `state NOT IN (terminal)').                             *)
THEOREM SettledOnce == Spec => []OneTerminalEvent
BY Inductive, PTL DEF IInv

(* service.approve announces an approval once, however often responses     *)
(* fail and the task is rolled back to the queue.                          *)
THEOREM AnnouncedOnce == Spec => []ApprovedAtMostOnce
BY Inductive, PTL DEF IInv

(* No two live tasks share an idempotency key.                             *)
THEOREM KeysUnique == Spec => []ActiveKeyUnique
BY Inductive, PTL DEF IInv

(* The lease sweeper, which does not look at the kind, only ever finds     *)
(* claimed delegations.                                                    *)
THEOREM LeasesAreDelegations == Spec => []LeaseIffRunningDelegation
BY Inductive, PTL DEF IInv

(* Every running task is in reach of a sweeper.                            *)
THEOREM RunningRecoverable == Spec => []RunningIsRecoverable
BY Inductive, PTL DEF IInv

(* A late report or sweep never rewrites how a task ended or who ended it. *)
THEOREM SettledForever == Spec => TerminalIsFinal
BY FinalStep, Inductive, PTL DEF Spec, TerminalIsFinal
=============================================================================
