--------------------------- MODULE ApprovalProofs ---------------------------
(***************************************************************************)
(* Theorems about the life of a review query at its provider, for any      *)
(* agents, deadlines and number of crashes.                                *)
(***************************************************************************)
EXTENDS ServiceApproval, LeaseProofs

-----------------------------------------------------------------------------
(* Types.                                                                  *)

LEMMA Ids == Approval \in TaskId /\ Exec \in TaskId /\ Approval # Exec
BY IdsAssumption

(* The rows, the events and the calls in progress keep their types.        *)
LEMMA StoreType ==
  ASSUME TypeOK, ApprovalNext
  PROVE  TypeOK'
<1>1. ASSUME NEW t \in TaskId, NEW kind \in WorkflowTaskKind,
             NEW status \in InitialStates, NEW logged \in BOOLEAN,
             Create(t, kind, status, Null, Ttl, logged)
      PROVE  TypeOK'
  <2>1. InsertTask(t, kind, status, Null, Ttl)
    BY <1>1 DEF Create
  <2>2. task' \in [TaskId -> TaskRow]
    BY <2>1, InsertType
  <2>3. "created" \in EventKind
    BY DEF EventKind
  <2> QED
    BY <1>1, <2>2, <2>3, EventLoggedType DEF Create, TypeOK
<1>2. "approval" \in WorkflowTaskKind /\ "delegation" \in WorkflowTaskKind
      /\ "pending_approval" \in InitialStates /\ "queued" \in InitialStates
  BY DEF WorkflowTaskKind, InitialStates
<1>3. UNCHANGED vars => TypeOK'
  BY DEF vars, TypeOK
<1>4. ASSUME NEW logged \in BOOLEAN, QueryArrives(logged) \/ OperatorApproves(logged)
      PROVE  TypeOK'
  <2>1. CASE QueryArrives(logged)
    BY <1>1, <1>2, <2>1, Ids DEF QueryArrives
  <2>2. CASE Approve(Approval, logged)
    BY <2>2, Ids, ServiceStepType DEF ServiceStep
  <2> QED
    BY <1>4, <2>1, <2>2 DEF OperatorApproves
<1>5. ASSUME NEW c \in Caller,
             \/ RespondClaims(c) \/ RespondCompletes(c) \/ SendFails(c)
             \/ RespondReturns(c) \/ RespondThrows(c)
      PROVE  TypeOK'
  BY <1>5, Ids, RespondStepType
  DEF RespondClaims, RespondCompletes, SendFails, RespondReturns, RespondThrows,
      RespondStep
<1>6. ASSUME NEW c \in Caller, RespondRefuses(c) \/ SendGoesOut(c) \/ FallBack(c)
      PROVE  TypeOK'
  <2>1. CASE Cancel(Approval) \/ CoreFail(Approval)
    BY <2>1, Ids, ServiceStepType DEF ServiceStep
  <2> QED
    BY <1>3, <1>6, <2>1 DEF RespondRefuses, SendGoesOut, FallBack
<1>7. CASE ConsumerCreates
  BY <1>1, <1>2, <1>3, <1>7, Ids DEF ConsumerCreates
<1>8. CASE ConsumerCancels
  <2>1. CASE Cancel(Approval)
    BY <2>1, Ids, ServiceStepType DEF ServiceStep
  <2> QED
    BY <1>3, <1>8, <2>1 DEF ConsumerCancels
<1>9. CASE ReconcilerLists \/ ConsumerLists \/ ConsumerReads \/ ConsumerAcks
           \/ ConsumerFails \/ BridgeSends \/ WindowExpires \/ QueryRepeats
  BY <1>3, <1>9 DEF ReconcilerLists, ConsumerLists, ConsumerReads, ConsumerAcks,
     ConsumerFails, BridgeSends, WindowExpires, QueryRepeats
<1>10. ASSUME NEW a \in Agent, AgentWorks(a) \/ AgentReports(a) PROVE TypeOK'
  BY <1>10, Ids, AgentStepType DEF AgentWorks, AgentReports, AgentStep
<1>11. CASE Sweeps \/ Tick
  BY <1>11, SweepType DEF Sweeps
<1>12. CASE Crash
  BY <1>12 DEF Crash, Restart, TypeOK
<1> QED
  BY <1>4, <1>5, <1>6, <1>7, <1>8, <1>9, <1>10, <1>11, <1>12 DEF ApprovalNext

(* Brain, the wire and the crash counter.                                  *)
BrainTyped ==
  /\ caller \in [Caller -> {"idle", "listed", "sending", "sent", "fallback"}]
  /\ consumer \in {"idle", "listed", "creating", "cancelling", "acking"}
  /\ acked \in BOOLEAN
  /\ window \in {"closed", "open"}
  /\ bridge \in BOOLEAN
  /\ answers \in [{"unavailable", "result"} -> 0..2]
  /\ restarts \in 0..MaxRestarts

LEMMA BrainType ==
  ASSUME BrainTyped, ApprovalNext
  PROVE  BrainTyped'
<1>1. ASSUME AllLost
      PROVE  /\ caller' \in [Caller -> {"idle", "listed", "sending", "sent", "fallback"}]
             /\ consumer' = "idle" /\ window' = "closed"
             /\ restarts' \in 0..MaxRestarts /\ bridge' \in BOOLEAN
  <2>1. restarts' \in 0..MaxRestarts
    BY <1>1, RestartsAssumption DEF AllLost, BrainTyped
  <2>2. bridge' \in BOOLEAN
    BY <1>1, Zenon DEF AllLost, BrainTyped
  <2> QED
    BY <1>1, <2>1, <2>2 DEF AllLost, AllIdle
<1>2. ASSUME NEW kind \in {"unavailable", "result"}, Answer(kind)
      PROVE  window' = "closed" /\ answers' \in [{"unavailable", "result"} -> 0..2]
  <2>1. Most[kind] \in 1..2 /\ answers[kind] \in 0..2
    BY DEF Most, BrainTyped
  <2>2. (IF answers[kind] < Most[kind] THEN answers[kind] + 1 ELSE answers[kind]) \in 0..2
    BY <2>1
  <2> QED
    BY <1>2, <2>2 DEF Answer, BrainTyped
<1>3. ASSUME NEW c \in Caller,
             NEW to \in {"idle", "listed", "sending", "sent", "fallback"}, Moves(c, to)
      PROVE  caller' \in [Caller -> {"idle", "listed", "sending", "sent", "fallback"}]
  BY <1>3 DEF Moves, BrainTyped
<1>4. ASSUME NEW logged \in BOOLEAN, QueryArrives(logged) \/ OperatorApproves(logged)
      PROVE  BrainTyped'
  BY <1>1, <1>4
  DEF QueryArrives, OperatorApproves, CoreOnly, brain, wire, BrainTyped
<1>5. CASE ReconcilerLists
  BY <1>5 DEF ReconcilerLists, Caller, wire, BrainTyped
<1>6. ASSUME NEW c \in Caller,
             \/ RespondClaims(c) \/ RespondCompletes(c) \/ RespondRefuses(c)
             \/ SendFails(c) \/ RespondReturns(c) \/ FallBack(c)
      PROVE  BrainTyped'
  <2>1. /\ \E to \in {"idle", "listed", "sending", "sent", "fallback"} : Moves(c, to)
        /\ window' \in {"open", window}
        /\ UNCHANGED <<consumer, acked, bridge, answers, restarts>>
    BY <1>6 DEF RespondClaims, RespondCompletes, RespondRefuses, SendFails,
       RespondReturns, FallBack, wire
  <2>2. caller' \in [Caller -> {"idle", "listed", "sending", "sent", "fallback"}]
    BY <1>3, <2>1
  <2> QED
    BY <2>1, <2>2 DEF BrainTyped
<1>7. ASSUME NEW c \in Caller, SendGoesOut(c) PROVE BrainTyped'
  BY <1>2, <1>3, <1>7 DEF SendGoesOut, BrainTyped
<1>8. ASSUME NEW c \in Caller, RespondThrows(c) PROVE BrainTyped'
  BY <1>1, <1>3, <1>8 DEF RespondThrows, wire, BrainTyped
<1>9. CASE ConsumerLists \/ ConsumerReads \/ ConsumerCreates \/ ConsumerCancels
           \/ ConsumerAcks \/ ConsumerFails
  BY <1>1, <1>9 DEF ConsumerLists, ConsumerReads, ConsumerCreates,
     ConsumerCancels, ConsumerAcks, ConsumerFails, To, wire, BrainTyped
<1>10. ASSUME NEW a \in Agent, AgentWorks(a) \/ AgentReports(a) PROVE BrainTyped'
  BY <1>10 DEF AgentWorks, AgentReports, CoreOnly, brain, wire, BrainTyped
<1>11. CASE BridgeSends
  BY <1>2, <1>11 DEF BridgeSends, brain, BrainTyped
<1>12. CASE WindowExpires \/ QueryRepeats
  BY <1>12 DEF WindowExpires, QueryRepeats, brain, BrainTyped
<1>13. CASE CoreOnly
  BY <1>13 DEF CoreOnly, brain, wire, BrainTyped
<1>14. CASE Crash
  BY <1>1, <1>14 DEF Crash, BrainTyped
<1> QED
  BY <1>4, <1>5, <1>6, <1>7, <1>8, <1>9, <1>10, <1>11, <1>12, <1>13, <1>14
  DEF ApprovalNext

LEMMA ApprovalTypeStep == ApprovalTypeOK /\ [ApprovalNext]_approvalVars => ApprovalTypeOK'
<1>1. ApprovalTypeOK <=> TypeOK /\ BrainTyped
  BY DEF ApprovalTypeOK, BrainTyped
<1>2. ApprovalTypeOK' <=> TypeOK' /\ BrainTyped'
  BY DEF ApprovalTypeOK, BrainTyped
<1>3. TypeOK /\ BrainTyped /\ UNCHANGED approvalVars => TypeOK' /\ BrainTyped'
  BY DEF approvalVars, vars, TypeOK, BrainTyped
<1> QED
  BY <1>1, <1>2, <1>3, StoreType, BrainType

LEMMA ApprovalInitType == ApprovalInit => ApprovalTypeOK
<1> SUFFICES ASSUME ApprovalInit PROVE ApprovalTypeOK
  OBVIOUS
<1>1. TypeOK
  BY InitIInv DEF ApprovalInit, IInv
<1>2. caller \in [Caller -> {"idle", "listed", "sending", "sent", "fallback"}]
  BY DEF ApprovalInit, AllIdle
<1>3. restarts \in 0..MaxRestarts
  BY RestartsAssumption DEF ApprovalInit
<1>4. answers \in [{"unavailable", "result"} -> 0..2]
  BY DEF ApprovalInit
<1> QED
  BY <1>1, <1>2, <1>3, <1>4 DEF ApprovalInit, ApprovalTypeOK

(* The store under the parties that act on an approval, and the parties    *)
(* themselves, keep their types.                                           *)
THEOREM ApprovalTypeCorrect == ApprovalSpec => []ApprovalTypeOK
BY ApprovalInitType, ApprovalTypeStep, PTL DEF ApprovalSpec

-----------------------------------------------------------------------------
(* The inductive invariant.  Only one caller at a time is between its      *)
(* claim and its return, and the row it claimed does not go back to the    *)
(* others while it is: an approval has no lease that could lapse.          *)

Busy(c) == caller[c] \in {"sending", "sent"}

RowShape ==
  /\ task[Approval].status \in {"absent", "pending_approval", "queued", "running"}
                                 \cup TerminalStates
  /\ task[Approval].lease = Null

OneSender ==
  /\ \A c, d \in Caller : Busy(c) /\ Busy(d) => c = d
  /\ \A c \in Caller : Busy(c) =>
       task[Approval].status = "running" \/ IsTerminal(task[Approval].status)

(* Where the send stands, as row and callers tell it.                      *)
NotSentYet ==
  \/ task[Approval].status \in {"absent", "pending_approval", "queued"}
  \/ \E c \in Caller : caller[c] = "sending"

SentForSure ==
  \/ task[Approval].run_id
  \/ task[Approval].status = "completed"
  \/ \E c \in Caller : caller[c] = "sent"

RefusalsCounted ==
  /\ answers["unavailable"] \in {0, 1}
  /\ NotSentYet => answers["unavailable"] = 0
  /\ SentForSure => answers["unavailable"] = 1

(* What the event consumer may rely on.                                    *)
Dispatched == Exec \in Rows \/ IsTerminal(task[Approval].status)

EventHandled ==
  /\ emitted[Approval]["approved"] > 0 \/ consumer # "idle" => Approval \in Rows
  /\ consumer = "cancelling" => Exec \in Rows
  /\ consumer = "acking" \/ acked => Dispatched

AInv == RowShape /\ OneSender /\ RefusalsCounted /\ EventHandled

-----------------------------------------------------------------------------
(* What a step does to the approval's row, as far as the invariant looks.  *)

Row(s, r) ==
  /\ task'[Approval].status = s
  /\ task'[Approval].run_id = r
  /\ task'[Approval].lease = Null

Same == Row(task[Approval].status, task[Approval].run_id)

(* Rows stay, what has ended has ended, and only an existing approval is   *)
(* announced as approved.                                                  *)
Grows ==
  /\ Exec \in Rows => Exec \in Rows'
  /\ Approval \in Rows => Approval \in Rows'
  /\ IsTerminal(task[Approval].status) => IsTerminal(task'[Approval].status)
  /\ emitted'[Approval]["approved"] > 0 =>
       emitted[Approval]["approved"] > 0 \/ Approval \in Rows'

LEMMA UnchangedEffect ==
  ASSUME RowShape, UNCHANGED <<task, emitted>>
  PROVE  Same /\ Grows
BY DEF RowShape, Same, Row, Grows, Rows

LEMMA SettleEffect ==
  ASSUME TypeOK, RowShape, NEW t \in TaskId, NEW k \in TerminalEvents, NEW by,
         Settle(t, k, by)
  PROVE  /\ Grows
         /\ t = Approval => Row(k, task[Approval].run_id)
         /\ t # Approval => Same
<1>1. \A u \in TaskId \ {t} : task'[u] = task[u]
  BY DEF Settle, TypeOK
<1>2. /\ task'[t].status = k /\ task'[t].lease = task[t].lease
      /\ task'[t].run_id = task[t].run_id
  BY DEF Settle, TypeOK, TaskRow
<1>3. emitted'[Approval]["approved"] = emitted[Approval]["approved"]
  BY Ids DEF Settle, Emit, TypeOK, EventKind, TerminalEvents
<1>4. ~IsTerminal(task[t].status) /\ t \in Rows /\ IsTerminal(k) /\ k # "absent"
  BY DEF Settle, Active, TerminalEvents, IsTerminal, TerminalStates
<1>5. \A u \in Rows : u \in Rows'
  BY <1>1, <1>2, <1>4 DEF Rows
<1>6. IsTerminal(task[Approval].status) => IsTerminal(task'[Approval].status)
  BY <1>1, <1>4, Ids
<1> QED
  BY <1>1, <1>2, <1>3, <1>5, <1>6, Ids DEF Grows, Row, Same, RowShape

(* Agents work on the execution, which is another row.                     *)
LEMMA AgentEffect ==
  ASSUME TypeOK, RowShape, NEW a \in Agent, AgentWorks(a) \/ AgentReports(a)
  PROVE  Same /\ Grows
<1>1. CASE AgentComplete(Exec, a) \/ AgentFail(Exec, a)
  BY <1>1, SettleEffect, Ids
  DEF AgentComplete, AgentFail, Complete, Fail, TerminalEvents
<1>2. CASE AgentStops(Exec, a)
  BY <1>2, UnchangedEffect DEF AgentStops
<1>3. ASSUME NEW delivered \in BOOLEAN,
             ClaimDelegationTask(Exec, a, delivered) \/ HeartbeatTask(Exec, a)
      PROVE  Same /\ Grows
  <2>1. task'[Approval] = task[Approval] /\ emitted' = emitted
    BY <1>3, Ids DEF ClaimDelegationTask, HeartbeatTask, TypeOK
  <2>2. \A r \in TaskRow :
          /\ [r EXCEPT !.status = "running", !.agent_did = a, !.lease = LeaseMs].status
               = "running"
          /\ [r EXCEPT !.lease = LeaseMs].status = r.status
    BY DEF TaskRow
  <2>3. task[Exec] \in TaskRow
    BY Ids DEF TypeOK
  <2>4. CASE ClaimDelegationTask(Exec, a, delivered)
    <3>1. task'[Exec].status = "running"
      BY <2>2, <2>3, <2>4, Ids DEF ClaimDelegationTask, TypeOK
    <3> QED
      BY <2>1, <3>1, Ids DEF RowShape, Same, Row, Grows, Rows
  <2>5. CASE HeartbeatTask(Exec, a)
    <3>1. task'[Exec].status = "running"
      BY <2>2, <2>3, <2>5, Ids DEF HeartbeatTask, TypeOK
    <3> QED
      BY <2>1, <3>1, Ids DEF RowShape, Same, Row, Grows, Rows
  <2> QED
    BY <1>3, <2>4, <2>5
<1> QED
  BY <1>1, <1>2, <1>3 DEF AgentWorks, AgentReports

LEMMA CreateEffect ==
  ASSUME TypeOK, RowShape, NEW t \in TaskId, NEW kind, NEW status \in InitialStates,
         NEW logged \in BOOLEAN, Create(t, kind, status, Null, Ttl, logged)
  PROVE  /\ Grows /\ t \in Rows'
         /\ t = Approval => task[Approval].status = "absent" /\ Row(status, FALSE)
         /\ t # Approval => Same
<1>1. \A u \in TaskId \ {t} : task'[u] = task[u]
  BY DEF Create, InsertTask, TypeOK
<1>2. /\ task'[t].status = status /\ task'[t].lease = Null
      /\ task'[t].run_id = FALSE /\ task[t].status = "absent"
  BY DEF Create, InsertTask, Rows, TypeOK
<1>3. emitted'[Approval]["approved"] = emitted[Approval]["approved"]
  BY Ids DEF Create, EventLogged, Emit, TypeOK, EventKind
<1>4. status # "absent" /\ ~IsTerminal("absent")
  BY DEF InitialStates, IsTerminal, TerminalStates
<1>5. t \in Rows' /\ \A u \in Rows : u \in Rows'
  BY <1>1, <1>2, <1>4 DEF Rows
<1>6. IsTerminal(task[Approval].status) => IsTerminal(task'[Approval].status)
  BY <1>1, <1>2, <1>4, Ids
<1> QED
  BY <1>1, <1>2, <1>3, <1>5, <1>6, Ids DEF Grows, Row, Same, RowShape

LEMMA ApproveEffect ==
  ASSUME TypeOK, RowShape, NEW logged \in BOOLEAN, Approve(Approval, logged)
  PROVE  /\ task[Approval].status = "pending_approval"
         /\ Row("queued", task[Approval].run_id) /\ Grows
<1>1. /\ task[Approval].status = "pending_approval"
      /\ task'[Approval].status = "queued"
      /\ task'[Approval].lease = task[Approval].lease
      /\ task'[Approval].run_id = task[Approval].run_id
      /\ task'[Exec] = task[Exec]
  BY Ids DEF Approve, TypeOK, TaskRow
<1>2. Approval \in Rows' /\ ~IsTerminal("pending_approval")
  BY <1>1, Ids DEF Rows, IsTerminal, TerminalStates
<1> QED
  BY <1>1, <1>2 DEF Row, RowShape, Grows, Rows

LEMMA SweepEffect ==
  ASSUME TypeOK, RowShape, Sweeps \/ Tick
  PROVE  Grows /\ (Same \/ Row("failed", task[Approval].run_id))
<1>1. ~LeaseSweepable(Approval)
  BY NullAssumption DEF RowShape, LeaseSweepable, LeaseLapsed
<1>2. CASE ExpireLeasedTasks
  <2>1. task'[Approval] = task[Approval] /\ emitted' = emitted
    BY <1>1, <1>2, Ids DEF ExpireLeasedTasks
  <2>2. \A u \in Rows : u \in Rows'
    <3>1. \A r \in TaskRow :
            [r EXCEPT !.status = "queued", !.agent_did = Null, !.lease = Null].status
              = "queued"
      BY DEF TaskRow
    <3> QED
      BY <1>2, <3>1 DEF ExpireLeasedTasks, Rows, TypeOK
  <2> QED
    BY <2>1, <2>2 DEF RowShape, Same, Row, Grows
<1>3. CASE ExpireTasks
  <2>1. \A r \in TaskRow :
          /\ [r EXCEPT !.status = "failed"].status = "failed"
          /\ [r EXCEPT !.status = "failed"].lease = r.lease
          /\ [r EXCEPT !.status = "failed"].run_id = r.run_id
    BY DEF TaskRow
  <2>2. \A u \in TaskId : task'[u] = IF TtlSweepable(u)
                                     THEN [task[u] EXCEPT !.status = "failed"]
                                     ELSE task[u]
    BY <1>3 DEF ExpireTasks
  <2>3. \A u \in Rows : u \in Rows'
    BY <2>1, <2>2 DEF Rows, TypeOK
  <2>4. Same \/ Row("failed", task[Approval].run_id)
    <3>1. task[Approval] \in TaskRow /\ task[Approval].lease = Null
      BY Ids DEF TypeOK, RowShape
    <3>2. CASE TtlSweepable(Approval)
      <4>1. task'[Approval] = [task[Approval] EXCEPT !.status = "failed"]
        BY <2>2, <3>2, Ids
      <4> QED
        BY <2>1, <3>1, <4>1 DEF Row
    <3>3. CASE ~TtlSweepable(Approval)
      BY <2>2, <3>1, <3>3, Ids DEF Same, Row
    <3> QED
      BY <3>2, <3>3
  <2>5. IsTerminal(task[Approval].status) => task'[Approval].status = task[Approval].status
    BY <2>2, Ids DEF TtlSweepable, Active
  <2>6. emitted'[Approval]["approved"] = emitted[Approval]["approved"]
    BY <1>3, Ids DEF ExpireTasks, TypeOK, EventKind
  <2> QED
    BY <2>3, <2>4, <2>5, <2>6 DEF Grows
<1>4. CASE Tick
  <2>1. Later(Null, -1) = Null
    BY DEF Later
  <2>2. \A u \in TaskId : task'[u] =
          [task[u] EXCEPT !.lease = Later(@, -1), !.expires = Later(@, 0)]
    BY <1>4 DEF Tick
  <2>3. \A u \in TaskId : /\ task'[u].status = task[u].status
                          /\ task'[u].run_id = task[u].run_id
                          /\ task'[u].lease = Later(task[u].lease, -1)
    <3> DEFINE later(r) == [r EXCEPT !.lease = Later(@, -1), !.expires = Later(@, 0)]
    <3>1. \A r \in TaskRow : /\ later(r).status = r.status
                             /\ later(r).run_id = r.run_id
                             /\ later(r).lease = Later(r.lease, -1)
      BY DEF TaskRow
    <3>2. \A u \in TaskId : task[u] \in TaskRow /\ task'[u] = later(task[u])
      BY <2>2 DEF TypeOK
    <3> HIDE DEF later
    <3> QED
      BY <3>1, <3>2
  <2> QED
    BY <1>4, <2>1, <2>3, Ids DEF Tick, RowShape, Same, Row, Grows, Rows
<1> QED
  BY <1>2, <1>3, <1>4 DEF Sweeps

(* Operator, reconciler and consumer end the approval without an answer.   *)
LEMMA EndEffect ==
  ASSUME TypeOK, RowShape, Cancel(Approval) \/ CoreFail(Approval)
  PROVE  /\ Grows
         /\ \E s \in {"failed", "cancelled"} : Row(s, task[Approval].run_id)
BY SettleEffect, Ids DEF Cancel, CoreFail, Fail, TerminalEvents

-----------------------------------------------------------------------------
(* The calls of /v1/service/respond on the row.                            *)

(* The row changes in place.                                               *)
LEMMA RowEffect ==
  ASSUME TypeOK, NEW r \in TaskRow,
         task' = [task EXCEPT ![Approval] = r], emitted' = emitted,
         r.lease = Null,
         r.status = "absent" => task[Approval].status = "absent",
         IsTerminal(task[Approval].status) => r.status = task[Approval].status
  PROVE  Row(r.status, r.run_id) /\ Grows
<1>1. task'[Approval] = r /\ task'[Exec] = task[Exec]
  BY Ids DEF TypeOK
<1> QED
  BY <1>1, Ids DEF Row, Grows, Rows

LEMMA ClaimEffect ==
  ASSUME TypeOK, RowShape, ClaimApprovalForExecution(Approval)
  PROVE  /\ task[Approval].status \in {"queued", "pending_approval"}
         /\ Row("running", task[Approval].run_id) /\ Grows
<1> DEFINE row == task[Approval]
           r == [row EXCEPT !.status = "running", !.expires = Extended(row.expires)]
<1>1. row \in TaskRow
  BY Ids DEF TypeOK
<1>2. Extended(row.expires) \in (0..MaxExpires) \cup {Null}
  BY <1>1, ExtendedType DEF TaskRow
<1>3. "running" \in WorkflowTaskState
  BY DEF WorkflowTaskState
<1>4. r \in TaskRow /\ r.status = "running" /\ r.run_id = row.run_id /\ r.lease = Null
  BY <1>1, <1>2, <1>3 DEF TaskRow, RowShape
<1>5. task' = [task EXCEPT ![Approval] = r] /\ emitted' = emitted
      /\ row.status \in {"queued", "pending_approval"}
  BY DEF ClaimApprovalForExecution
<1>6. ~IsTerminal(row.status)
  BY <1>5 DEF IsTerminal, TerminalStates
<1> HIDE DEF r
<1> QED
  BY <1>4, <1>5, <1>6, RowEffect

LEMMA RecoverEffect ==
  ASSUME TypeOK, RowShape, RespondRecovers(Approval)
  PROVE  /\ task[Approval].status = "running" /\ task[Approval].run_id
         /\ Row("completed", task[Approval].run_id) /\ Grows
BY SettleEffect, Ids DEF RespondRecovers, TerminalEvents

LEMMA RollbackEffect ==
  ASSUME TypeOK, RowShape, RespondRollback(Approval)
  PROVE  /\ Grows
         /\ \/ Same
            \/ task[Approval].status = "running"
               /\ Row("queued", task[Approval].run_id)
<1>1. CASE task[Approval].status = "running"
  <2> DEFINE r == [task[Approval] EXCEPT !.status = "queued"]
  <2>1. task[Approval] \in TaskRow /\ "queued" \in WorkflowTaskState
    BY Ids DEF TypeOK, WorkflowTaskState
  <2>2. r \in TaskRow /\ r.status = "queued" /\ r.run_id = task[Approval].run_id
        /\ r.lease = Null
    BY <2>1 DEF TaskRow, RowShape
  <2>3. task' = [task EXCEPT ![Approval] = r] /\ emitted' = emitted
    BY <1>1 DEF RespondRollback
  <2>4. ~IsTerminal(task[Approval].status)
    BY <1>1 DEF IsTerminal, TerminalStates
  <2> HIDE DEF r
  <2> QED
    BY <1>1, <2>2, <2>3, <2>4, RowEffect
<1>2. CASE task[Approval].status # "running"
  BY <1>2, UnchangedEffect DEF RespondRollback
<1> QED
  BY <1>1, <1>2

LEMMA SentEffect ==
  ASSUME TypeOK, RowShape, RespondSent(Approval)
  PROVE  Grows /\ (Same \/ Row("completed", task[Approval].run_id))
BY SettleEffect, UnchangedEffect, Ids DEF RespondSent, TerminalEvents

LEMMA MarkEffect ==
  ASSUME TypeOK, RowShape, RespondMarked(Approval)
  PROVE  Grows /\ (Same \/ Row(task[Approval].status, TRUE))
<1>1. CASE task' = task
  BY <1>1, UnchangedEffect DEF RespondMarked
<1>2. CASE task' = [task EXCEPT ![Approval].run_id = TRUE]
  <2> DEFINE r == [task[Approval] EXCEPT !.run_id = TRUE]
  <2>1. task[Approval] \in TaskRow
    BY Ids DEF TypeOK
  <2>2. r \in TaskRow /\ r.status = task[Approval].status /\ r.run_id = TRUE
        /\ r.lease = Null
    BY <2>1 DEF TaskRow, RowShape
  <2>3. task' = [task EXCEPT ![Approval] = r] /\ emitted' = emitted
    BY <1>2 DEF RespondMarked
  <2> HIDE DEF r
  <2> QED
    BY <2>2, <2>3, RowEffect
<1> QED
  BY <1>1, <1>2 DEF RespondMarked

-----------------------------------------------------------------------------
(* Steps.                                                                  *)

(* The callers that are between claim and return after a step were so      *)
(* before it, and nothing is sent.                                         *)
CallersCalm ==
  /\ \A c \in Caller : caller'[c] \in {"sending", "sent"} => caller'[c] = caller[c]
  /\ answers'["unavailable"] = answers["unavailable"]

SenderInv == RowShape /\ OneSender /\ RefusalsCounted

(* The row stays, is ended unanswered, or waits on; nobody sends.          *)
LEMMA CalmStep ==
  ASSUME SenderInv, CallersCalm, NEW s, Row(s, task[Approval].run_id),
         \/ s = task[Approval].status
         \/ s \in {"failed", "cancelled"}
         \/ /\ task[Approval].status \in {"absent", "pending_approval", "queued"}
            /\ s \in {"pending_approval", "queued"}
  PROVE  SenderInv'
<1>1. task'[Approval].status = s /\ task'[Approval].lease = Null
      /\ task'[Approval].run_id = task[Approval].run_id
  BY DEF Row
<1>2. RowShape'
  BY <1>1 DEF SenderInv, RowShape, TerminalStates
<1>3. \A c \in Caller : Busy(c)' => Busy(c)
  BY DEF CallersCalm, Busy
<1>4. OneSender'
  BY <1>1, <1>3 DEF SenderInv, OneSender, IsTerminal, TerminalStates
<1>5. NotSentYet' => NotSentYet
  BY <1>1 DEF NotSentYet, CallersCalm
<1>6. SentForSure' => SentForSure
  BY <1>1 DEF SentForSure, CallersCalm
<1>7. RefusalsCounted'
  BY <1>5, <1>6 DEF SenderInv, RefusalsCounted, CallersCalm
<1> QED
  BY <1>2, <1>4, <1>7 DEF SenderInv

LEMMA SameStep ==
  ASSUME SenderInv, CallersCalm, Same
  PROVE  SenderInv'
BY CalmStep DEF Same

LEMMA LostCallers ==
  ASSUME AllLost
  PROVE  \A c \in Caller : caller'[c] = "idle"
BY DEF AllLost, AllIdle

LEMMA MovedCaller ==
  ASSUME BrainTyped, NEW c \in Caller, NEW to, Moves(c, to)
  PROVE  caller'[c] = to /\ \A d \in Caller \ {c} : caller'[d] = caller[d]
BY DEF Moves, BrainTyped

LEMMA SenderStep ==
  ASSUME TypeOK, BrainTyped, SenderInv, [ApprovalNext]_approvalVars
  PROVE  SenderInv' /\ Grows
<1> USE DEF SenderInv
<1>1. ASSUME UNCHANGED <<caller, answers>> PROVE CallersCalm
  BY <1>1 DEF CallersCalm
<1>2. ASSUME AllLost, answers' = answers PROVE CallersCalm
  BY <1>2, LostCallers DEF CallersCalm
<1>3. ASSUME NEW c \in Caller, NEW to \in {"idle", "listed", "fallback"},
             Moves(c, to), answers' = answers
      PROVE  CallersCalm
  BY <1>3, MovedCaller DEF CallersCalm
<1>4. ASSUME UNCHANGED vars PROVE Same /\ Grows
  BY <1>4, UnchangedEffect DEF vars
<1>5. ASSUME NEW logged \in BOOLEAN, QueryArrives(logged)
      PROVE  SenderInv' /\ Grows
  <2>1. Create(Approval, "approval", "pending_approval", Null, Ttl, logged)
        /\ UNCHANGED <<caller, answers>>
    BY <1>5 DEF QueryArrives, brain
  <2>2. /\ Grows /\ task[Approval].status = "absent"
        /\ Row("pending_approval", FALSE)
    BY <2>1, CreateEffect, Ids DEF InitialStates
  <2>3. ~task[Approval].run_id
    BY <2>2 DEF RefusalsCounted, NotSentYet, SentForSure
  <2>4. task[Approval].run_id \in BOOLEAN
    BY Ids DEF TypeOK, TaskRow
  <2>5. Row("pending_approval", task[Approval].run_id)
    BY <2>2, <2>3, <2>4
  <2> QED
    BY <1>1, <2>1, <2>2, <2>5, CalmStep
<1>6. ASSUME NEW logged \in BOOLEAN, OperatorApproves(logged)
      PROVE  SenderInv' /\ Grows
  <2>1. CallersCalm
    BY <1>1, <1>2, <1>6 DEF OperatorApproves, CoreOnly, brain, wire
  <2> QED
    BY <1>6, <2>1, ApproveEffect, CalmStep DEF OperatorApproves
<1>7. CASE ReconcilerLists
  BY <1>3, <1>4, <1>7, SameStep DEF ReconcilerLists, wire, Caller, Moves
<1>8. ASSUME NEW c \in Caller, RespondClaims(c) PROVE SenderInv' /\ Grows
  <2>1. /\ task[Approval].status \in {"queued", "pending_approval"}
        /\ Row("running", task[Approval].run_id) /\ Grows
        /\ Moves(c, "sending") /\ answers' = answers
    BY <1>8, ClaimEffect DEF RespondClaims
  <2>2. task'[Approval].status = "running" /\ task'[Approval].lease = Null
        /\ task'[Approval].run_id = task[Approval].run_id
    BY <2>1 DEF Row
  <2>3. \A d \in Caller : ~Busy(d)
    BY <2>1 DEF OneSender, IsTerminal, TerminalStates
  <2>4. \A d \in Caller : Busy(d)' => d = c
    BY <2>1, <2>3, MovedCaller DEF Busy
  <2>5. RowShape' /\ OneSender'
    BY <2>2, <2>4 DEF RowShape, OneSender
  <2>6. \A d \in Caller : caller'[d] # "sent"
    BY <2>1, <2>3, MovedCaller DEF Busy
  <2>7. answers["unavailable"] = 0
    BY <2>1 DEF RefusalsCounted, NotSentYet
  <2>8. ~SentForSure'
    BY <2>2, <2>6, <2>7 DEF RefusalsCounted, SentForSure
  <2>9. RefusalsCounted'
    BY <2>1, <2>7, <2>8 DEF RefusalsCounted
  <2> QED
    BY <2>1, <2>5, <2>9
<1>9. ASSUME NEW c \in Caller, RespondCompletes(c) PROVE SenderInv' /\ Grows
  <2>1. /\ task[Approval].status = "running" /\ task[Approval].run_id
        /\ Row("completed", task[Approval].run_id) /\ Grows
        /\ Moves(c, "idle") /\ answers' = answers
    BY <1>9, RecoverEffect DEF RespondCompletes, wire
  <2>2. CallersCalm /\ answers["unavailable"] = 1
    BY <1>3, <2>1 DEF RefusalsCounted, SentForSure
  <2>3. task'[Approval].status = "completed" /\ task'[Approval].lease = Null
    BY <2>1 DEF Row
  <2>4. RowShape' /\ OneSender'
    BY <2>2, <2>3 DEF RowShape, OneSender, CallersCalm, Busy, IsTerminal, TerminalStates
  <2>5. ~NotSentYet'
    BY <2>2, <2>3 DEF NotSentYet, RefusalsCounted, CallersCalm
  <2>6. RefusalsCounted'
    BY <2>2, <2>5 DEF RefusalsCounted, CallersCalm
  <2> QED
    BY <2>1, <2>4, <2>6
<1>10. ASSUME NEW c \in Caller, RespondRefuses(c) PROVE SenderInv' /\ Grows
  BY <1>3, <1>4, <1>10, SameStep DEF RespondRefuses, wire
<1>11. ASSUME NEW c \in Caller, SendGoesOut(c) PROVE SenderInv' /\ Grows
  <2>1. /\ caller[c] = "sending" /\ Moves(c, "sent") /\ Same /\ Grows
        /\ answers' = [answers EXCEPT !["unavailable"] = IF @ < 2 THEN @ + 1 ELSE @]
    BY <1>4, <1>11 DEF SendGoesOut, Answer, Most
  <2>2. /\ task'[Approval].status = task[Approval].status
        /\ task'[Approval].lease = Null
        /\ task'[Approval].run_id = task[Approval].run_id
    BY <2>1 DEF Same, Row
  <2>3. answers["unavailable"] = 0 /\ answers'["unavailable"] = 1
    BY <2>1 DEF RefusalsCounted, NotSentYet, BrainTyped
  <2>4. \A d \in Caller : Busy(d) => d = c
    BY <2>1 DEF OneSender, Busy
  <2>5. \A d \in Caller : Busy(d)' => d = c
    BY <2>1, <2>4, MovedCaller DEF Busy
  <2>6. task[Approval].status = "running" \/ IsTerminal(task[Approval].status)
    BY <2>1 DEF OneSender, Busy
  <2>7. RowShape' /\ OneSender'
    BY <2>2, <2>5, <2>6 DEF RowShape, OneSender
  <2>8. \A d \in Caller : caller'[d] # "sending"
    BY <2>1, <2>4, MovedCaller DEF Busy
  <2>9. ~NotSentYet'
    BY <2>2, <2>6, <2>8 DEF NotSentYet, IsTerminal, TerminalStates
  <2>10. RefusalsCounted'
    BY <2>3, <2>9 DEF RefusalsCounted
  <2> QED
    BY <2>1, <2>7, <2>10
<1>12. ASSUME NEW c \in Caller, SendFails(c) PROVE SenderInv' /\ Grows
  <2>1. /\ caller[c] = "sending" /\ Moves(c, "fallback") /\ Grows
        /\ Same \/ Row("queued", task[Approval].run_id)
        /\ answers' = answers
    BY <1>12, RollbackEffect DEF SendFails, wire
  <2>2. CallersCalm
    BY <1>3, <2>1
  <2>3. CASE Same
    BY <2>1, <2>2, <2>3, SameStep
  <2>4. CASE Row("queued", task[Approval].run_id)
    <3>1. /\ task'[Approval].status = "queued" /\ task'[Approval].lease = Null
          /\ task'[Approval].run_id = task[Approval].run_id
      BY <2>4 DEF Row
    <3>2. \A d \in Caller : ~Busy(d)'
      BY <2>1, MovedCaller DEF OneSender, Busy
    <3>3. RowShape' /\ OneSender'
      BY <3>1, <3>2 DEF RowShape, OneSender
    <3>4. answers["unavailable"] = 0
      BY <2>1 DEF RefusalsCounted, NotSentYet
    <3>5. ~SentForSure'
      BY <3>1, <3>2, <3>4 DEF RefusalsCounted, SentForSure, Busy
    <3> QED
      BY <2>1, <3>3, <3>4, <3>5 DEF RefusalsCounted
  <2> QED
    BY <2>1, <2>3, <2>4
<1>13. ASSUME NEW c \in Caller, RespondReturns(c) \/ RespondThrows(c)
       PROVE  SenderInv' /\ Grows
  <2>1. /\ caller[c] = "sent" /\ CallersCalm /\ Grows
        /\ \/ Same
           \/ Row("completed", task[Approval].run_id)
           \/ Row(task[Approval].status, TRUE)
    <3>1. CASE RespondReturns(c)
      BY <1>3, <1>13, <3>1, SentEffect DEF RespondReturns, wire
    <3>2. CASE RespondThrows(c)
      BY <1>2, <1>3, <1>13, <3>2, MarkEffect DEF RespondThrows, wire
    <3> QED
      BY <1>13, <3>1, <3>2
  <2>2. CASE Same
    BY <2>1, <2>2, SameStep
  <2>3. CASE \/ Row("completed", task[Approval].run_id)
             \/ Row(task[Approval].status, TRUE)
    <3>1. /\ task'[Approval].status \in {"completed", task[Approval].status}
          /\ task'[Approval].lease = Null
      BY <2>3 DEF Row
    <3>2. answers["unavailable"] = 1 /\ answers'["unavailable"] = 1
      BY <2>1 DEF RefusalsCounted, SentForSure, CallersCalm
    <3>3. RowShape' /\ OneSender'
      BY <2>1, <3>1 DEF RowShape, OneSender, CallersCalm, Busy, IsTerminal, TerminalStates
    <3>4. ~NotSentYet
      BY <3>2 DEF RefusalsCounted
    <3>5. ~NotSentYet'
      BY <2>1, <3>1, <3>4 DEF NotSentYet, CallersCalm
    <3> QED
      BY <2>1, <3>2, <3>3, <3>5 DEF RefusalsCounted
  <2> QED
    BY <2>1, <2>2, <2>3
<1>14. ASSUME NEW c \in Caller, FallBack(c) PROVE SenderInv' /\ Grows
  <2>1. CallersCalm
    BY <1>3, <1>14 DEF FallBack, wire
  <2>2. CASE Cancel(Approval) \/ CoreFail(Approval)
    BY <2>1, <2>2, EndEffect, CalmStep
  <2> QED
    BY <1>4, <1>14, <2>1, <2>2, SameStep DEF FallBack
<1>15. CASE ConsumerCreates
  <2>1. CallersCalm
    BY <1>1, <1>2, <1>15 DEF ConsumerCreates, To, wire
  <2>2. CASE UNCHANGED vars
    BY <1>4, <2>1, <2>2, SameStep
  <2>3. CASE \E logged \in BOOLEAN : Create(Exec, "delegation", "queued", Null, Ttl, logged)
    BY <2>1, <2>3, CreateEffect, SameStep, Ids DEF InitialStates
  <2> QED
    BY <1>15, <2>2, <2>3 DEF ConsumerCreates
<1>16. CASE ConsumerCancels
  <2>1. CallersCalm
    BY <1>1, <1>16 DEF ConsumerCancels, To, wire
  <2>2. CASE Cancel(Approval)
    BY <2>1, <2>2, EndEffect, CalmStep
  <2> QED
    BY <1>4, <1>16, <2>1, <2>2, SameStep DEF ConsumerCancels
<1>17. CASE ConsumerLists \/ ConsumerReads \/ ConsumerAcks \/ ConsumerFails
            \/ WindowExpires \/ QueryRepeats \/ UNCHANGED approvalVars
  BY <1>1, <1>4, <1>17, SameStep
  DEF ConsumerLists, ConsumerReads, ConsumerAcks, ConsumerFails, WindowExpires,
      QueryRepeats, approvalVars, To, wire, brain, vars
<1>18. CASE BridgeSends
  <2>1. answers'["unavailable"] = answers["unavailable"]
    BY <1>18 DEF BridgeSends, Answer, BrainTyped
  <2> QED
    BY <1>4, <1>18, <2>1, SameStep DEF BridgeSends, brain, CallersCalm
<1>19. ASSUME NEW a \in Agent, AgentWorks(a) \/ AgentReports(a)
       PROVE  SenderInv' /\ Grows
  <2>1. CallersCalm
    BY <1>1, <1>19 DEF AgentWorks, AgentReports, CoreOnly, brain, wire
  <2> QED
    BY <1>19, <2>1, AgentEffect, SameStep
<1>20. CASE (Sweeps \/ Tick) /\ CoreOnly
  <2>1. CallersCalm
    BY <1>1, <1>20 DEF CoreOnly, brain, wire
  <2> QED
    BY <1>20, <2>1, SweepEffect, SameStep, CalmStep
<1>21. CASE Crash
  <2>1. CallersCalm
    BY <1>2, <1>21 DEF Crash
  <2> QED
    BY <1>21, <2>1, UnchangedEffect, SameStep DEF Crash, Restart
<1> QED
  BY <1>5, <1>6, <1>7, <1>8, <1>9, <1>10, <1>11, <1>12, <1>13, <1>14, <1>15,
     <1>16, <1>17, <1>18, <1>19, <1>20, <1>21
  DEF ApprovalNext

(* Rows stay and what has ended has ended, so what the consumer relied on  *)
(* holds on.                                                               *)
LEMMA HandledStays ==
  ASSUME EventHandled, Grows, acked' = acked,
         consumer' \in {consumer, "idle"}
  PROVE  EventHandled'
BY DEF EventHandled, Grows, Dispatched

LEMMA HandledStep ==
  ASSUME TypeOK, BrainTyped, AInv, [ApprovalNext]_approvalVars
  PROVE  EventHandled'
<1>1. Grows
  BY SenderStep DEF SenderInv, AInv
<1>2. RowShape /\ EventHandled
  BY DEF AInv
<1>3. AllLost => consumer' = "idle"
  BY DEF AllLost
<1>4. ASSUME NEW logged \in BOOLEAN, QueryArrives(logged) \/ OperatorApproves(logged)
      PROVE  EventHandled'
  BY <1>1, <1>2, <1>3, <1>4, HandledStays
  DEF QueryArrives, OperatorApproves, CoreOnly, brain
<1>5. CASE ReconcilerLists
  BY <1>1, <1>2, <1>5, HandledStays DEF ReconcilerLists
<1>6. ASSUME NEW c \in Caller,
             \/ RespondClaims(c) \/ RespondCompletes(c) \/ RespondRefuses(c)
             \/ SendGoesOut(c) \/ SendFails(c)
             \/ RespondReturns(c) \/ RespondThrows(c) \/ FallBack(c)
      PROVE  EventHandled'
  BY <1>1, <1>2, <1>3, <1>6, HandledStays
  DEF RespondClaims, RespondCompletes, RespondRefuses, SendGoesOut, SendFails,
      RespondReturns, RespondThrows, FallBack
<1>7. CASE ConsumerLists
  BY <1>1, <1>2, <1>7 DEF ConsumerLists, To, EventHandled, Grows, Dispatched
<1>8. CASE ConsumerReads
  <2>1. CASE Dispatchable(task[Approval].status)
    BY <1>1, <1>2, <1>8, <2>1
    DEF ConsumerReads, To, EventHandled, Grows, Dispatched
  <2>2. CASE ~Dispatchable(task[Approval].status)
    <3>1. Approval \in Rows
      BY <1>2, <1>8 DEF ConsumerReads, EventHandled
    <3>2. IsTerminal(task[Approval].status)
      BY <1>2, <2>2, <3>1 DEF RowShape, Dispatchable, Rows, IsTerminal
    <3> QED
      BY <1>1, <1>2, <1>8, <2>2, <3>1, <3>2
      DEF ConsumerReads, To, EventHandled, Grows, Dispatched
  <2> QED
    BY <2>1, <2>2
<1>9. CASE ConsumerCreates
  <2>1. consumer = "creating" /\ acked' = acked
        /\ (consumer' = "idle" \/ (consumer' = "cancelling" /\ Exec \in Rows'))
    <3>1. CASE Exec \in Rows /\ To("cancelling") /\ UNCHANGED vars
      BY <1>1, <1>9, <3>1 DEF ConsumerCreates, To, Grows
    <3>2. ASSUME NEW logged \in BOOLEAN,
                 Create(Exec, "delegation", "queued", Null, Ttl, logged)
          PROVE  Exec \in Rows'
      <4>1. TypeOK /\ Exec \in TaskId /\ "queued" \in InitialStates
        BY Ids DEF InitialStates
      <4> QED
        BY <1>2, <3>2, <4>1, CreateEffect
    <3>3. CASE \E logged \in BOOLEAN :
                 /\ Create(Exec, "delegation", "queued", Null, Ttl, logged)
                 /\ \/ inFlight' = inFlight /\ To(IF logged THEN "cancelling" ELSE "idle")
                    \/ ~logged /\ AllLost /\ UNCHANGED answers
      BY <1>3, <1>9, <3>2, <3>3 DEF ConsumerCreates, To
    <3> QED
      BY <1>9, <3>1, <3>3 DEF ConsumerCreates
  <2> QED
    BY <1>1, <1>2, <2>1 DEF EventHandled, Grows, Dispatched
<1>10. CASE ConsumerCancels
  BY <1>1, <1>2, <1>10 DEF ConsumerCancels, To, EventHandled, Grows, Dispatched
<1>11. CASE ConsumerAcks
  BY <1>1, <1>2, <1>11 DEF ConsumerAcks, To, EventHandled, Grows, Dispatched
<1>12. CASE ConsumerFails
  BY <1>1, <1>2, <1>12, HandledStays DEF ConsumerFails, To
<1>13. ASSUME NEW a \in Agent, AgentWorks(a) \/ AgentReports(a) PROVE EventHandled'
  BY <1>1, <1>2, <1>13, HandledStays DEF AgentWorks, AgentReports, CoreOnly, brain
<1>14. CASE BridgeSends \/ WindowExpires \/ QueryRepeats
  BY <1>1, <1>2, <1>14, HandledStays
  DEF BridgeSends, WindowExpires, QueryRepeats, brain
<1>15. CASE CoreOnly
  BY <1>1, <1>2, <1>15, HandledStays DEF CoreOnly, brain
<1>16. CASE Crash
  BY <1>1, <1>2, <1>3, <1>16, HandledStays DEF Crash
<1>17. CASE UNCHANGED approvalVars
  BY <1>1, <1>2, <1>17, HandledStays DEF approvalVars
<1> QED
  BY <1>4, <1>5, <1>6, <1>7, <1>8, <1>9, <1>10, <1>11, <1>12, <1>13, <1>14,
     <1>15, <1>16, <1>17
  DEF ApprovalNext

LEMMA ApprovalInductive == ApprovalSpec => [](ApprovalTypeOK /\ AInv)
<1>1. ApprovalTypeOK => TypeOK /\ BrainTyped
  BY DEF ApprovalTypeOK, BrainTyped
<1>2. ApprovalInit => AInv
  <2> SUFFICES ASSUME ApprovalInit PROVE AInv
    OBVIOUS
  <2>1. /\ task[Approval] = NoRow
        /\ emitted[Approval]["approved"] = 0
        /\ \A c \in Caller : caller[c] = "idle"
        /\ consumer = "idle" /\ acked = FALSE /\ answers["unavailable"] = 0
    BY Ids DEF ApprovalInit, Init, AllIdle, EventKind
  <2>2. /\ task[Approval].status = "absent" /\ task[Approval].lease = Null
        /\ task[Approval].run_id = FALSE
    BY <2>1 DEF NoRow
  <2>3. RowShape
    BY <2>2 DEF RowShape
  <2>4. OneSender
    BY <2>1 DEF OneSender, Busy
  <2>5. RefusalsCounted
    BY <2>1, <2>2 DEF RefusalsCounted, SentForSure
  <2>6. EventHandled
    BY <2>1 DEF EventHandled
  <2> QED
    BY <2>3, <2>4, <2>5, <2>6 DEF AInv
<1>3. ApprovalTypeOK /\ AInv /\ [ApprovalNext]_approvalVars => AInv'
  BY <1>1, SenderStep, HandledStep DEF AInv, SenderInv
<1> QED
  BY <1>2, <1>3, ApprovalInitType, ApprovalTypeStep, PTL DEF ApprovalSpec

(* Operator and reconciler together refuse a requester at most once, with  *)
(* any number of failed attempts and crashes between send and record.      *)
THEOREM RefusedOnce == ApprovalSpec => []OneRefusal
<1>1. AInv => OneRefusal
  BY DEF AInv, RefusalsCounted, OneRefusal
<1> QED
  BY <1>1, ApprovalInductive, PTL

(* The recovery branch never completes an approval nobody answered.        *)
THEOREM CompletedAnswered == ApprovalSpec => []CompletedMeansAnswered
<1>1. AInv => CompletedMeansAnswered
  BY DEF AInv, RefusalsCounted, SentForSure, CompletedMeansAnswered
<1> QED
  BY <1>1, ApprovalInductive, PTL

(* The operator's yes is not retired before it was carried out or there is *)
(* nothing left to carry out.                                              *)
THEOREM AckedDispatched == ApprovalSpec => []AckMeansDispatched
<1>1. AInv => AckMeansDispatched
  BY DEF AInv, EventHandled, Dispatched, AckMeansDispatched
<1> QED
  BY <1>1, ApprovalInductive, PTL
-----------------------------------------------------------------------------
(* The store under operator, reconciler, Brain and agents is the store.    *)

(* Whatever a party does to the two tasks is a step of Core's own module.  *)
LEMMA StoreSteps == [ApprovalNext]_approvalVars => [Next]_vars
<1> SUFFICES ASSUME [ApprovalNext]_approvalVars PROVE [Next]_vars
  OBVIOUS
<1>1. AllLost => inFlight' = {}
  BY DEF AllLost
<1>2. ASSUME NEW t \in TaskId, NEW new \in NewTasks, NEW logged \in BOOLEAN,
             Create(t, new[1], new[2], Null, Ttl, logged)
      PROVE  Next
  BY <1>2 DEF ServiceStep, Next
<1>3. /\ <<"approval", "pending_approval">> \in NewTasks
      /\ <<"delegation", "queued">> \in NewTasks
  BY CreatesAssumption
<1>4. ASSUME NEW logged \in BOOLEAN, QueryArrives(logged) \/ OperatorApproves(logged)
      PROVE  Next
  <2>1. CASE QueryArrives(logged)
    <3>1. Create(Approval, "approval", "pending_approval", Null, Ttl, logged)
      BY <2>1 DEF QueryArrives
    <3>2. <<"approval", "pending_approval">>[1] = "approval"
          /\ <<"approval", "pending_approval">>[2] = "pending_approval"
      OBVIOUS
    <3> QED
      BY <1>2, <1>3, <3>1, <3>2, Ids
  <2>2. CASE OperatorApproves(logged)
    BY <2>2, Ids DEF OperatorApproves, ServiceStep, Next
  <2> QED
    BY <1>4, <2>1, <2>2
<1>5. ASSUME NEW c \in Caller,
             \/ RespondClaims(c) \/ RespondCompletes(c) \/ SendFails(c)
             \/ RespondReturns(c) \/ RespondThrows(c)
      PROVE  Next
  BY <1>5, Ids
  DEF RespondClaims, RespondCompletes, SendFails, RespondReturns, RespondThrows,
      RespondStep, Next
<1>6. ASSUME NEW c \in Caller, RespondRefuses(c) \/ SendGoesOut(c) \/ FallBack(c)
      PROVE  [Next]_vars
  <2>1. Cancel(Approval) \/ CoreFail(Approval) => Next
    BY Ids DEF ServiceStep, Next
  <2> QED
    BY <1>6, <2>1 DEF RespondRefuses, SendGoesOut, FallBack
<1>7. CASE ConsumerCreates
  <2>1. ASSUME NEW logged \in BOOLEAN,
               Create(Exec, "delegation", "queued", Null, Ttl, logged)
        PROVE  Next
    <3>1. <<"delegation", "queued">>[1] = "delegation"
          /\ <<"delegation", "queued">>[2] = "queued"
      OBVIOUS
    <3> QED
      BY <1>2, <1>3, <2>1, <3>1, Ids
  <2> QED
    BY <1>7, <2>1 DEF ConsumerCreates
<1>8. CASE ConsumerCancels
  <2>1. Cancel(Approval) => Next
    BY Ids DEF ServiceStep, Next
  <2> QED
    BY <1>8, <2>1 DEF ConsumerCancels
<1>9. CASE ReconcilerLists \/ ConsumerLists \/ ConsumerReads \/ ConsumerAcks
           \/ ConsumerFails \/ BridgeSends \/ WindowExpires \/ QueryRepeats
  BY <1>9 DEF ReconcilerLists, ConsumerLists, ConsumerReads, ConsumerAcks,
     ConsumerFails, BridgeSends, WindowExpires, QueryRepeats
<1>10. ASSUME NEW a \in Agent, AgentWorks(a) \/ AgentReports(a) PROVE Next
  BY <1>10, Ids DEF AgentWorks, AgentReports, AgentStep, Next
<1>11. CASE Sweeps \/ Tick \/ Crash
  BY <1>11 DEF Sweeps, Crash, Next
<1>12. CASE UNCHANGED approvalVars
  BY <1>12 DEF approvalVars
<1> QED
  BY <1>4, <1>5, <1>6, <1>7, <1>8, <1>9, <1>10, <1>11, <1>12 DEF ApprovalNext

(* Refusals, dispatches, reports and crashes drive the store only in ways  *)
(* its own specification allows: every safety property of Workflow holds   *)
(* of the composition as well.                                             *)
THEOREM StoreUnderApproval == ApprovalSpec => Init /\ [][Next]_vars
<1>1. ApprovalInit => Init
  BY DEF ApprovalInit
<1> QED
  BY <1>1, StoreSteps, PTL DEF ApprovalSpec

(* So of a racing approval, refusal, fallback, sweep and late report one   *)
(* settles each of the two tasks, once and for good, the operator's yes is *)
(* announced at most once, and a crash in any of them leaves no task that  *)
(* no sweeper can reach.                                                   *)
THEOREM ApprovalSettledOnce ==
  ApprovalSpec => /\ [](OneTerminalEvent /\ ApprovedAtMostOnce /\ RunningIsRecoverable)
                  /\ TerminalIsFinal
<1>1. ApprovalInit => IInv
  BY InitIInv DEF ApprovalInit
<1>2. IInv => OneTerminalEvent /\ ApprovedAtMostOnce /\ RunningIsRecoverable
  BY DEF IInv
<1> QED
  BY <1>1, <1>2, StoreSteps, StoreInductive, FinalStep, PTL
  DEF ApprovalSpec, TerminalIsFinal

(* And the agent that works on the execution of an approval has it under   *)
(* the contract of DelegationLease: no redelivered event, repeated         *)
(* dispatch, cancelled approval or crash takes a live lease away.          *)
THEOREM ApprovalKeepsLease == ApprovalSpec => ImplementsLease
<1>1. ApprovalInit => IInv /\ Lease!Init
  BY InitIInv, ContractInit DEF ApprovalInit
<1>2. IInv /\ [ApprovalNext]_approvalVars => IInv' /\ [Lease!Next]_Lease!vars
  BY StoreSteps, StoreInductive, ContractStep
<1> QED
  BY <1>1, <1>2, PTL DEF ApprovalSpec, ImplementsLease, Lease!Spec

-----------------------------------------------------------------------------
(* Results.                                                                *)

(* A result is sent, or may be, only of an execution that has ended by a   *)
(* report: neither a lapsed lease, a cancelled approval nor a crash gives  *)
(* the bridge something to send.                                           *)
ResultIsFinal ==
  bridge \/ answers["result"] > 0 => task[Exec].status \in {"completed", "failed"}

(* And from then on the execution is not settled anew: however often the   *)
(* answer is sent, it is the one result.                                   *)
ResultStands ==
  [][bridge \/ answers["result"] > 0 =>
       task'[Exec].status = task[Exec].status]_approvalVars

LEMMA ResultStep ==
  ASSUME IInv, ApprovalTypeOK, ResultIsFinal, [ApprovalNext]_approvalVars
  PROVE  /\ ResultIsFinal'
         /\ bridge \/ answers["result"] > 0 => task'[Exec].status = task[Exec].status
<1>1. bridge \/ answers["result"] > 0 => task'[Exec].status = task[Exec].status
  <2>1. bridge \/ answers["result"] > 0 => IsTerminal(task[Exec].status)
    BY DEF ResultIsFinal, IsTerminal, TerminalStates
  <2> QED
    BY <2>1, StoreSteps, FinalStep, Ids DEF vars
<1>2. ASSUME bridge' \in {bridge, FALSE}, answers'["result"] = answers["result"]
      PROVE  ResultIsFinal'
  BY <1>1, <1>2 DEF ResultIsFinal
<1>3. AllLost => bridge' \in {bridge, FALSE}
  BY DEF AllLost
<1>4. ASSUME NEW logged \in BOOLEAN, QueryArrives(logged) \/ OperatorApproves(logged)
      PROVE  ResultIsFinal'
  BY <1>2, <1>3, <1>4 DEF QueryArrives, OperatorApproves, CoreOnly, wire
<1>5. ASSUME NEW c \in Caller,
             \/ RespondClaims(c) \/ RespondCompletes(c) \/ RespondRefuses(c)
             \/ SendFails(c) \/ RespondReturns(c) \/ RespondThrows(c) \/ FallBack(c)
      PROVE  ResultIsFinal'
  BY <1>2, <1>3, <1>5
  DEF RespondClaims, RespondCompletes, RespondRefuses, SendFails, RespondReturns,
      RespondThrows, FallBack, wire
<1>6. ASSUME NEW c \in Caller, SendGoesOut(c) PROVE ResultIsFinal'
  <2>1. answers'["result"] = answers["result"]
    BY <1>6 DEF SendGoesOut, Answer, ApprovalTypeOK
  <2> QED
    BY <1>2, <1>6, <2>1 DEF SendGoesOut
<1>7. CASE ReconcilerLists \/ ConsumerLists \/ ConsumerReads \/ ConsumerCreates
           \/ ConsumerCancels \/ ConsumerAcks \/ ConsumerFails
  <2>1. ASSUME NEW next, To(next) PROVE ResultIsFinal'
    BY <1>2, <2>1 DEF To, wire
  <2>2. CASE ConsumerCreates
    BY <1>1, <1>2, <1>3, <2>1, <2>2 DEF ConsumerCreates
  <2>3. CASE ReconcilerLists
    BY <1>1, <1>2, <2>3 DEF ReconcilerLists, wire
  <2> QED
    BY <1>1, <1>7, <2>1, <2>2, <2>3
    DEF ConsumerLists, ConsumerReads, ConsumerCancels, ConsumerAcks, ConsumerFails
<1>8. ASSUME NEW a \in Agent, AgentReports(a) PROVE ResultIsFinal'
  <2>1. PICK k \in {"completed", "failed"} : Settle(Exec, k, a)
    BY <1>8 DEF AgentReports, AgentComplete, AgentFail, Complete, Fail
  <2>2. task'[Exec].status = k
    BY <2>1, Ids DEF Settle, ApprovalTypeOK, TypeOK, TaskRow
  <2> QED
    BY <2>1, <2>2 DEF ResultIsFinal
<1>9. CASE BridgeSends
  BY <1>1, <1>9 DEF BridgeSends, ResultIsFinal
<1>10. CASE WindowExpires \/ QueryRepeats \/ Crash \/ CoreOnly
            \/ UNCHANGED approvalVars \/ \E a \in Agent : AgentWorks(a)
  <2>1. CASE CoreOnly \/ UNCHANGED approvalVars
    BY <1>1, <1>2, <2>1 DEF CoreOnly, wire, approvalVars
  <2>2. CASE \E a \in Agent : AgentWorks(a)
    BY <2>1, <2>2 DEF AgentWorks
  <2>3. CASE WindowExpires \/ QueryRepeats
    BY <1>1, <1>2, <2>3 DEF WindowExpires, QueryRepeats
  <2>4. CASE Crash
    BY <1>1, <1>2, <1>3, <2>4 DEF Crash
  <2> QED
    BY <1>10, <2>1, <2>2, <2>3, <2>4
<1> QED
  BY <1>1, <1>4, <1>5, <1>6, <1>7, <1>8, <1>9, <1>10 DEF ApprovalNext

(* However many agents were leased the execution, however late their       *)
(* reports come in, and however often the bridge repeats the answer after  *)
(* a crash, a timeout or a failed clear: what the requester is sent is the *)
(* one outcome the execution ended with.                                   *)
THEOREM ResultsAreFinal == ApprovalSpec => []ResultIsFinal /\ ResultStands
<1>1. ApprovalInit => IInv /\ ResultIsFinal
  BY InitIInv DEF ApprovalInit, ResultIsFinal
<1>2. IInv /\ [ApprovalNext]_approvalVars => IInv'
  BY StoreSteps, StoreInductive
<1>3. IInv /\ ApprovalTypeOK /\ ResultIsFinal /\ [ApprovalNext]_approvalVars =>
        /\ ResultIsFinal'
        /\ [bridge \/ answers["result"] > 0 =>
              task'[Exec].status = task[Exec].status]_approvalVars
  BY ResultStep
<1> QED
  BY <1>1, <1>2, <1>3, ApprovalInitType, ApprovalTypeStep, PTL
  DEF ApprovalSpec, ResultStands
=============================================================================
