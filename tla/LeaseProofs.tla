---------------------------- MODULE LeaseProofs ----------------------------
(***************************************************************************)
(* The workflow store implements DelegationLease: every step of Workflow   *)
(* is a step of the contract on the rows' phases, holders and lives, or    *)
(* leaves them alone.                                                      *)
(***************************************************************************)
EXTENDS WorkflowProofs

Holder(t) == IF Phase(t) = "held" THEN task[t].agent_did ELSE Null
Live(t) == Phase(t) = "held" /\ task[t].lease # -1

(* What the contract sees of row t stays as it is.                         *)
Unseen(t) ==
  Phase(t)' = Phase(t) /\ Holder(t)' = Holder(t) /\ Live(t)' = Live(t)

-----------------------------------------------------------------------------
(* From rows to the contract's functions: what has to be shown of the rows *)
(* for each step of the contract.                                          *)

LEMMA Stutters ==
  ASSUME \A u \in TaskId : Unseen(u)
  PROVE  UNCHANGED Lease!vars
BY DEF Unseen, Lease!vars, Holder, Live

LEMMA Offers ==
  ASSUME NEW t \in TaskId, \A u \in TaskId \ {t} : Unseen(u),
         Phase(t) = "none", Phase(t)' = "open"
  PROVE  Lease!Offer(t)
<1>1. Holder(t)' = Holder(t) /\ Live(t)' = Live(t)
  BY DEF Holder, Live
<1>2. \A u \in TaskId : Holder(u)' = Holder(u) /\ Live(u)' = Live(u)
  <2> TAKE u \in TaskId
  <2>1. CASE u = t
    BY <1>1, <2>1 DEF Holder, Live
  <2>2. CASE u # t
    BY <2>2 DEF Unseen
  <2> QED
    BY <2>1, <2>2
<1>3. \A u \in TaskId \ {t} : Phase(u)' = Phase(u)
  BY DEF Unseen
<1> QED
  BY <1>2, <1>3 DEF Lease!Offer, Holder, Live

LEMMA Takes ==
  ASSUME NEW t \in TaskId, NEW a \in Agent, \A u \in TaskId \ {t} : Unseen(u),
         Phase(t) = "open", Phase(t)' = "held",
         task'[t].agent_did = a, task'[t].lease # -1
  PROVE  Lease!Take(t, a)
<1>1. Holder(t)' = a /\ Live(t)' = TRUE
  BY DEF Holder, Live
<1>2. \A u \in TaskId \ {t} :
        Phase(u)' = Phase(u) /\ Holder(u)' = Holder(u) /\ Live(u)' = Live(u)
  BY DEF Unseen
<1> QED
  BY <1>1, <1>2 DEF Lease!Take, Holder, Live

LEMMA Renews ==
  ASSUME NEW t \in TaskId, \A u \in TaskId \ {t} : Unseen(u),
         Phase(t) = "held", Phase(t)' = "held",
         task'[t].agent_did = task[t].agent_did, task'[t].lease # -1
  PROVE  Lease!Renew(t)
<1>1. Holder(t)' = Holder(t) /\ Live(t)' = TRUE
  BY DEF Holder, Live
<1>2. \A u \in TaskId \ {t} :
        Phase(u)' = Phase(u) /\ Holder(u)' = Holder(u) /\ Live(u)' = Live(u)
  BY DEF Unseen
<1> QED
  BY <1>1, <1>2 DEF Lease!Renew, Holder, Live

LEMMA Finishes ==
  ASSUME NEW S \in SUBSET TaskId, \A u \in TaskId \ S : Unseen(u),
         \A u \in S : Phase(u) \in {"open", "held"} /\ Phase(u)' = "done"
  PROVE  Lease!Finish(S)
<1>1. \A u \in S : Holder(u)' = Null /\ Live(u)' = FALSE
  BY DEF Holder, Live
<1>2. \A u \in TaskId \ S :
        Phase(u)' = Phase(u) /\ Holder(u)' = Holder(u) /\ Live(u)' = Live(u)
  BY DEF Unseen
<1>3. \A u \in TaskId : Live(u)' = (Live(u) /\ u \notin S)
  BY <1>1, <1>2 DEF Live
<1> QED
  BY <1>1, <1>2, <1>3 DEF Lease!Finish, Holder, Live

LEMMA TakesBack ==
  ASSUME NEW S \in SUBSET TaskId, \A u \in TaskId \ S : Unseen(u),
         \A u \in S : Phase(u) = "held" /\ ~Live(u) /\ Phase(u)' = "open"
  PROVE  Lease!TakeBack(S)
<1>1. \A u \in S : Holder(u)' = Null /\ Live(u)' = Live(u)
  BY DEF Holder, Live
<1>2. \A u \in TaskId \ S :
        Phase(u)' = Phase(u) /\ Holder(u)' = Holder(u) /\ Live(u)' = Live(u)
  BY DEF Unseen
<1>3. \A u \in TaskId : Live(u)' = Live(u)
  BY <1>1, <1>2 DEF Live
<1> QED
  BY <1>1, <1>2, <1>3 DEF Lease!TakeBack, Holder, Live

LEMMA Lapses ==
  ASSUME NEW S \in SUBSET TaskId,
         \A u \in TaskId : Phase(u)' = Phase(u) /\ Holder(u)' = Holder(u),
         \A u \in TaskId : Live(u)' <=> (Live(u) /\ u \notin S)
  PROVE  Lease!Lapse(S)
<1>1. \A u \in TaskId : Live(u)' = (Live(u) /\ u \notin S)
  BY DEF Live
<1> QED
  BY <1>1 DEF Lease!Lapse, Holder, Live

-----------------------------------------------------------------------------
(* From the actions to the rows.                                           *)

LEMMA SameRow ==
  ASSUME NEW t \in TaskId, task'[t] = task[t]
  PROVE  Unseen(t)
BY DEF Unseen, Holder, Live, Phase, Rows

(* A row that keeps its lease and agent and stays unsettled is not seen to *)
(* move.                                                                   *)
LEMMA SameHold ==
  ASSUME NEW t \in TaskId, Active(t), Active(t)',
         task'[t].lease = task[t].lease, task'[t].agent_did = task[t].agent_did
  PROVE  Unseen(t)
BY DEF Unseen, Holder, Live, Phase, Active

LEMMA ActivePhase ==
  ASSUME NEW t \in TaskId, Active(t)
  PROVE  Phase(t) = IF task[t].lease # Null THEN "held" ELSE "open"
BY DEF Phase, Active

LEMMA SettleMaps ==
  ASSUME TypeOK, NEW t \in TaskId, NEW k \in TerminalEvents,
         NEW by \in Agent \cup {Null}, Settle(t, k, by)
  PROVE  Lease!Next
<1>1. Phase(t) \in {"open", "held"}
  BY ActivePhase DEF Settle
<1>2. task'[t].status = k
  BY DEF Settle, TypeOK, TaskRow
<1>3. Phase(t)' = "done"
  BY <1>2 DEF Phase, Rows, IsTerminal, TerminalStates, TerminalEvents
<1>4. \A u \in TaskId \ {t} : Unseen(u)
  BY SameRow DEF Settle, TypeOK
<1>5. Lease!Finish({t})
  BY <1>1, <1>3, <1>4, Finishes
<1> QED
  BY <1>5 DEF Lease!Next

LEMMA InsertMaps ==
  ASSUME TypeOK, NEW t \in TaskId, NEW kind, NEW status \in InitialStates,
         NEW key, NEW expires, InsertTask(t, kind, status, key, expires)
  PROVE  Lease!Next
<1>1. task'[t].status = status /\ task'[t].lease = Null
  BY DEF InsertTask, TypeOK
<1>2. Phase(t) = "none" /\ Phase(t)' = "open"
  BY <1>1 DEF InsertTask, Phase, Rows, InitialStates, IsTerminal, TerminalStates
<1>3. \A u \in TaskId \ {t} : Unseen(u)
  BY SameRow DEF InsertTask, TypeOK
<1>4. Lease!Offer(t)
  BY <1>2, <1>3, Offers
<1> QED
  BY <1>4 DEF Lease!Next

(* Only the status of one row moves, from one live state to another.       *)
LEMMA LiveMoveStutters ==
  ASSUME TypeOK, NEW t \in TaskId, Active(t), Active(t)',
         task'[t].lease = task[t].lease, task'[t].agent_did = task[t].agent_did,
         \A u \in TaskId \ {t} : task'[u] = task[u]
  PROVE  UNCHANGED Lease!vars
<1>1. \A u \in TaskId : Unseen(u)
  <2> TAKE u \in TaskId
  <2>1. CASE u = t
    BY <2>1, SameHold
  <2>2. CASE u # t
    BY <2>2, SameRow
  <2> QED
    BY <2>1, <2>2
<1> QED
  BY <1>1, Stutters

LEMMA SameRowsStutter ==
  ASSUME UNCHANGED task
  PROVE  UNCHANGED Lease!vars
<1>1. \A u \in TaskId : Unseen(u)
  BY SameRow
<1> QED
  BY <1>1, Stutters

LEMMA ServiceStepMaps ==
  ASSUME TypeOK, ServiceStep
  PROVE  [Lease!Next]_Lease!vars
<1>1. ASSUME NEW t \in TaskId, NEW new \in NewTasks,
             NEW key \in IdemKey \cup {Null}, NEW expires \in {Ttl, Null},
             NEW logged \in BOOLEAN,
             Create(t, new[1], new[2], key, expires, logged)
      PROVE  Lease!Next
  <2>1. new[2] \in InitialStates
    BY NewTasksAssumption
  <2> QED
    BY <1>1, <2>1, InsertMaps DEF Create
<1>2. ASSUME NEW t \in TaskId, NEW logged \in BOOLEAN, Approve(t, logged)
      PROVE  UNCHANGED Lease!vars
  <2>1. /\ task[t].status = "pending_approval" /\ task'[t].status = "queued"
        /\ task'[t].lease = task[t].lease /\ task'[t].agent_did = task[t].agent_did
        /\ \A u \in TaskId \ {t} : task'[u] = task[u]
    BY <1>2 DEF Approve, TypeOK, TaskRow
  <2>2. Active(t) /\ Active(t)'
    BY <2>1 DEF Active, Rows, IsTerminal, TerminalStates
  <2> QED
    BY <2>1, <2>2, LiveMoveStutters
<1>3. ASSUME NEW t \in TaskId, CoreComplete(t) \/ CoreFail(t) PROVE Lease!Next
  BY <1>3, SettleMaps DEF CoreComplete, Complete, CoreFail, Fail, TerminalEvents
<1>4. ASSUME NEW t \in TaskId, Cancel(t) PROVE Lease!Next
  <2>1. task[t].agent_did \in Agent \cup {Null}
    BY DEF TypeOK, TaskRow
  <2> QED
    BY <1>4, <2>1, SettleMaps DEF Cancel, TerminalEvents
<1> QED
  BY <1>1, <1>2, <1>3, <1>4 DEF ServiceStep

(* A claim takes a queued row, which holds no lease, and a heartbeat finds *)
(* one to renew: both need LeaseIffRunningDelegation.                      *)
LEMMA AgentStepMaps ==
  ASSUME TypeOK, LeaseIffRunningDelegation, AgentStep
  PROVE  [Lease!Next]_Lease!vars
<1> PICK t \in TaskId, a \in Agent :
      \/ \E delivered \in BOOLEAN : ClaimDelegationTask(t, a, delivered)
      \/ HeartbeatTask(t, a)
      \/ AgentComplete(t, a)
      \/ AgentFail(t, a)
      \/ AgentStops(t, a)
  BY DEF AgentStep
<1>1. CASE \E delivered \in BOOLEAN : ClaimDelegationTask(t, a, delivered)
  <2>1. /\ task[t].status = "queued" /\ task'[t].status = "running"
        /\ task'[t].lease = LeaseMs /\ task'[t].agent_did = a
        /\ \A u \in TaskId \ {t} : task'[u] = task[u]
    BY <1>1 DEF ClaimDelegationTask, Claimable, TypeOK, TaskRow
  <2>2. Active(t) /\ Active(t)'
    BY <2>1 DEF Active, Rows, IsTerminal, TerminalStates
  <2>3. task[t].lease = Null
    BY <2>1, <2>2, NullAssumption DEF LeaseIffRunningDelegation
  <2>4. task'[t].lease # Null /\ task'[t].lease # -1
    BY <2>1, NullAssumption, DeadlineAssumption
  <2>5. Phase(t) = "open" /\ Phase(t)' = "held"
    BY <2>2, <2>3, <2>4 DEF Phase, Active
  <2>6. \A u \in TaskId \ {t} : Unseen(u)
    BY <2>1, SameRow
  <2>7. Lease!Take(t, a)
    BY <2>1, <2>4, <2>5, <2>6, Takes
  <2> QED
    BY <2>7 DEF Lease!Next
<1>2. CASE HeartbeatTask(t, a)
  <2>1. /\ task[t].status = "running" /\ task[t].agent_did = a
        /\ task'[t].status = "running" /\ task'[t].agent_did = a
        /\ task'[t].lease = LeaseMs
        /\ \A u \in TaskId \ {t} : task'[u] = task[u]
    BY <1>2 DEF HeartbeatTask, TypeOK, TaskRow
  <2>2. Active(t) /\ Active(t)'
    BY <2>1 DEF Active, Rows, IsTerminal, TerminalStates
  <2>3. task[t].lease # Null
    BY <2>1, <2>2, NullAssumption DEF LeaseIffRunningDelegation
  <2>4. task'[t].lease # Null /\ task'[t].lease # -1
    BY <2>1, NullAssumption, DeadlineAssumption
  <2>5. Phase(t) = "held" /\ Phase(t)' = "held"
    BY <2>2, <2>3, <2>4 DEF Phase, Active
  <2>6. \A u \in TaskId \ {t} : Unseen(u)
    BY <2>1, SameRow
  <2>7. Lease!Renew(t)
    BY <2>1, <2>4, <2>5, <2>6, Renews
  <2> QED
    BY <2>7 DEF Lease!Next
<1>3. CASE AgentComplete(t, a)
  BY <1>3, SettleMaps DEF AgentComplete, Complete, TerminalEvents
<1>4. CASE AgentFail(t, a)
  BY <1>4, SettleMaps DEF AgentFail, Fail, TerminalEvents
<1>5. CASE AgentStops(t, a)
  BY <1>5, SameRowsStutter DEF AgentStops
<1> QED
  BY <1>1, <1>2, <1>3, <1>4, <1>5

LEMMA QueryStepMaps ==
  ASSUME TypeOK, QueryStep
  PROVE  [Lease!Next]_Lease!vars
<1> PICK t \in TaskId :
      \/ \E key \in IdemKey, logged \in BOOLEAN : ServiceQuery(t, key, logged)
      \/ ServiceQuerySent(t)
      \/ ServiceQuerySendFailed(t)
      \/ ServiceResponseReceived(t)
  BY DEF QueryStep
<1>1. CASE \E key \in IdemKey, logged \in BOOLEAN : ServiceQuery(t, key, logged)
  <2>1. "created" \in InitialStates
    BY DEF InitialStates
  <2> QED
    BY <1>1, <2>1, InsertMaps DEF ServiceQuery
<1>2. CASE ServiceQuerySent(t)
  <2>1. CASE task[t].status = "created"
    <3>1. /\ task'[t].status = "running"
          /\ task'[t].lease = task[t].lease /\ task'[t].agent_did = task[t].agent_did
          /\ \A u \in TaskId \ {t} : task'[u] = task[u]
      BY <1>2, <2>1 DEF ServiceQuerySent, TypeOK, TaskRow
    <3>2. Active(t) /\ Active(t)'
      BY <2>1, <3>1 DEF Active, Rows, IsTerminal, TerminalStates
    <3> QED
      BY <3>1, <3>2, LiveMoveStutters
  <2>2. CASE task[t].status # "created"
    BY <1>2, <2>2, SameRowsStutter DEF ServiceQuerySent
  <2> QED
    BY <2>1, <2>2
<1>3. CASE ServiceQuerySendFailed(t)
  BY <1>3, SettleMaps, SameRowsStutter DEF ServiceQuerySendFailed, TerminalEvents
<1>4. CASE ServiceResponseReceived(t)
  BY <1>4, SettleMaps DEF ServiceResponseReceived, TerminalEvents
<1> QED
  BY <1>1, <1>2, <1>3, <1>4

LEMMA RespondStepMaps ==
  ASSUME TypeOK, RespondStep
  PROVE  [Lease!Next]_Lease!vars
<1> PICK t \in TaskId :
      \/ ClaimApprovalForExecution(t)
      \/ RespondRollback(t)
      \/ RespondSent(t)
      \/ RespondMarked(t)
      \/ RespondRecovers(t)
  BY DEF RespondStep
<1>1. CASE ClaimApprovalForExecution(t)
  <2>1. /\ task[t].status \in {"queued", "pending_approval"}
        /\ task'[t].status = "running"
        /\ task'[t].lease = task[t].lease /\ task'[t].agent_did = task[t].agent_did
        /\ \A u \in TaskId \ {t} : task'[u] = task[u]
    BY <1>1 DEF ClaimApprovalForExecution, TypeOK, TaskRow
  <2>2. Active(t) /\ Active(t)'
    BY <2>1 DEF Active, Rows, IsTerminal, TerminalStates
  <2> QED
    BY <2>1, <2>2, LiveMoveStutters
<1>2. CASE RespondRollback(t)
  <2>1. CASE task[t].status = "running"
    <3>1. /\ task'[t].status = "queued"
          /\ task'[t].lease = task[t].lease /\ task'[t].agent_did = task[t].agent_did
          /\ \A u \in TaskId \ {t} : task'[u] = task[u]
      BY <1>2, <2>1 DEF RespondRollback, TypeOK, TaskRow
    <3>2. Active(t) /\ Active(t)'
      BY <2>1, <3>1 DEF Active, Rows, IsTerminal, TerminalStates
    <3> QED
      BY <3>1, <3>2, LiveMoveStutters
  <2>2. CASE task[t].status # "running"
    BY <1>2, <2>2, SameRowsStutter DEF RespondRollback
  <2> QED
    BY <2>1, <2>2
<1>3. CASE RespondSent(t)
  BY <1>3, SettleMaps, SameRowsStutter DEF RespondSent, TerminalEvents
<1>4. CASE RespondMarked(t)
  <2>1. \A u \in TaskId : /\ task'[u].status = task[u].status
                          /\ task'[u].lease = task[u].lease
                          /\ task'[u].agent_did = task[u].agent_did
    BY <1>4 DEF RespondMarked, TypeOK, TaskRow
  <2>2. \A u \in TaskId : Unseen(u)
    BY <2>1 DEF Unseen, Holder, Live, Phase, Rows
  <2> QED
    BY <2>2, Stutters
<1>5. CASE RespondRecovers(t)
  BY <1>5, SettleMaps DEF RespondRecovers, TerminalEvents
<1> QED
  BY <1>1, <1>2, <1>3, <1>4, <1>5

(* The sweeps act on any number of rows at once; time only lets leases     *)
(* lapse.                                                                  *)
LEMMA SweepMaps ==
  ASSUME TypeOK, ExpireLeasedTasks \/ ExpireTasks \/ Tick
  PROVE  [Lease!Next]_Lease!vars
<1>1. CASE ExpireLeasedTasks
  <2> PICK S \in SUBSET TaskId : S = {t \in TaskId : LeaseSweepable(t)}
    OBVIOUS
  <2>1. \A u \in TaskId \ S : Unseen(u)
    BY <1>1, SameRow DEF ExpireLeasedTasks
  <2>2. ASSUME NEW u \in S
        PROVE  Phase(u) = "held" /\ ~Live(u) /\ Phase(u)' = "open"
    <3>1. /\ task[u].status = "running" /\ task[u].lease = -1
          /\ task'[u].status = "queued" /\ task'[u].lease = Null
          /\ task[u].lease # Null
      BY <1>1, <2>2 DEF ExpireLeasedTasks, LeaseSweepable, LeaseLapsed, TypeOK, TaskRow
    <3> QED
      BY <3>1 DEF Phase, Live, Rows, IsTerminal, TerminalStates
  <2>3. Lease!TakeBack(S)
    BY <2>1, <2>2, TakesBack
  <2> QED
    BY <2>3 DEF Lease!Next
<1>2. CASE ExpireTasks
  <2> PICK S \in SUBSET TaskId : S = {t \in TaskId : TtlSweepable(t)}
    OBVIOUS
  <2>1. \A u \in TaskId \ S : Unseen(u)
    BY <1>2, SameRow DEF ExpireTasks
  <2>2. ASSUME NEW u \in S
        PROVE  Phase(u) \in {"open", "held"} /\ Phase(u)' = "done"
    <3>1. Active(u) /\ task'[u].status = "failed"
      BY <1>2, <2>2 DEF ExpireTasks, TtlSweepable, TypeOK, TaskRow
    <3> QED
      BY <3>1 DEF Phase, Active, Rows, IsTerminal, TerminalStates
  <2>3. Lease!Finish(S)
    BY <2>1, <2>2, Finishes
  <2> QED
    BY <2>3 DEF Lease!Next
<1>3. CASE Tick
  <2> PICK S \in SUBSET TaskId : S = {t \in TaskId : task'[t].lease = -1}
    OBVIOUS
  <2>1. ASSUME NEW u \in TaskId
        PROVE  /\ task'[u].status = task[u].status
               /\ task'[u].agent_did = task[u].agent_did
               /\ (task'[u].lease = Null) <=> (task[u].lease = Null)
               /\ task[u].lease = -1 => task'[u].lease = -1
    <3>1. task[u] \in TaskRow
      BY DEF TypeOK
    <3>2. /\ task'[u].status = task[u].status
          /\ task'[u].agent_did = task[u].agent_did
          /\ task'[u].lease = Later(task[u].lease, -1)
      BY <1>3, <3>1 DEF Tick, TaskRow
    <3>3. task[u].lease \in (-1..LeaseMs) \cup {Null}
      BY <3>1 DEF TaskRow
    <3> QED
      BY <3>2, <3>3, NullAssumption, DeadlineAssumption DEF Later
  <2>2. \A u \in TaskId : Phase(u)' = Phase(u) /\ Holder(u)' = Holder(u)
    BY <2>1 DEF Phase, Holder, Rows
  <2>3. \A u \in TaskId : Live(u)' <=> (Live(u) /\ u \notin S)
    BY <2>1, <2>2 DEF Live
  <2>4. Lease!Lapse(S)
    BY <2>2, <2>3, Lapses
  <2> QED
    BY <2>4 DEF Lease!Next
<1> QED
  BY <1>1, <1>2, <1>3

-----------------------------------------------------------------------------
LEMMA ContractInit == Init => Lease!Init
<1> SUFFICES ASSUME Init PROVE Lease!Init
  OBVIOUS
<1>1. \A t \in TaskId : Phase(t) = "none"
  BY DEF Init, NoRow, Phase, Rows
<1> QED
  BY <1>1 DEF Lease!Init

LEMMA ContractStep == IInv /\ [Next]_vars => [Lease!Next]_Lease!vars
<1> SUFFICES ASSUME IInv, [Next]_vars PROVE [Lease!Next]_Lease!vars
  OBVIOUS
<1> USE DEF IInv
<1>1. CASE ServiceStep
  BY <1>1, ServiceStepMaps
<1>2. CASE AgentStep
  BY <1>2, AgentStepMaps
<1>3. CASE QueryStep
  BY <1>3, QueryStepMaps
<1>4. CASE RespondStep
  BY <1>4, RespondStepMaps
<1>5. CASE ExpireLeasedTasks \/ ExpireTasks \/ Tick
  BY <1>5, SweepMaps
<1>6. CASE Restart \/ UNCHANGED vars
  BY <1>6, SameRowsStutter DEF Restart, vars
<1> QED
  BY <1>1, <1>2, <1>3, <1>4, <1>5, <1>6 DEF Next

(* Every behaviour of the store is one of the contract: the refinement     *)
(* that the run `workflow' checks for two tasks, for any tasks and agents.   *)
(* A live hold ends only with its task (the guards of claimDelegationTask, *)
(* heartbeatTask and expireLeasedTasks).                                   *)
THEOREM StoreImplementsLease == Spec => ImplementsLease
BY ContractInit, ContractStep, Inductive, PTL DEF Spec, ImplementsLease, Lease!Spec

(* What the contract promises of a live hold, for any of its steps.        *)
LEMMA HoldEndsWithTask ==
  ASSUME [Lease!Next]_Lease!vars, NEW t \in TaskId, Live(t)
  PROVE  (Phase(t)' = "held" /\ Holder(t)' = Holder(t)) \/ Phase(t)' = "done"
<1> DEFINE phase == [u \in TaskId |-> Phase(u)]
           holder == [u \in TaskId |-> Holder(u)]
           live == [u \in TaskId |-> Live(u)]
<1>1. /\ phase[t] = "held" /\ live[t]
      /\ phase[t] = Phase(t) /\ phase'[t] = Phase(t)'
      /\ holder[t] = Holder(t) /\ holder'[t] = Holder(t)'
  BY DEF Live
<1> SUFFICES (phase'[t] = "held" /\ holder'[t] = holder[t]) \/ phase'[t] = "done"
  BY <1>1
<1>2. CASE UNCHANGED Lease!vars
  BY <1>1, <1>2 DEF Lease!vars, Holder, Live
<1>3. ASSUME NEW u \in TaskId,
             Lease!Offer(u) \/ Lease!Renew(u) \/ \E a \in Agent : Lease!Take(u, a)
      PROVE  (phase'[t] = "held" /\ holder'[t] = holder[t]) \/ phase'[t] = "done"
  BY <1>1, <1>3 DEF Lease!Offer, Lease!Renew, Lease!Take, Holder, Live
<1>4. ASSUME NEW S \in SUBSET TaskId,
             Lease!Lapse(S) \/ Lease!TakeBack(S) \/ Lease!Finish(S)
      PROVE  (phase'[t] = "held" /\ holder'[t] = holder[t]) \/ phase'[t] = "done"
  BY <1>1, <1>4 DEF Lease!Lapse, Lease!TakeBack, Lease!Finish, Holder, Live
<1> QED
  BY <1>2, <1>3, <1>4 DEF Lease!Next

(* An agent whose lease has not lapsed keeps its task until the task ends: *)
(* no other claim, sweep, rollback or crash takes it away, so its next     *)
(* heartbeat in time is never refused.                                     *)
LiveLeaseIsKept ==
  [][\A t \in TaskId : Live(t) =>
       \/ IsTerminal(task'[t].status)
       \/ /\ task'[t].status = "running" /\ task'[t].lease # Null
          /\ task'[t].agent_did = task[t].agent_did]_vars

(* claimDelegationTask, expireLeasedTasks and the rollbacks leave a lease  *)
(* alone that has not lapsed.                                              *)
THEOREM LiveLeaseKept == Spec => LiveLeaseIsKept
<1>1. IInv /\ [Next]_vars =>
        [\A t \in TaskId : Live(t) =>
           \/ IsTerminal(task'[t].status)
           \/ /\ task'[t].status = "running" /\ task'[t].lease # Null
              /\ task'[t].agent_did = task[t].agent_did]_vars
  <2> SUFFICES ASSUME IInv, [Next]_vars, NEW t \in TaskId, Live(t),
                      ~IsTerminal(task'[t].status)
               PROVE  /\ task'[t].status = "running" /\ task'[t].lease # Null
                      /\ task'[t].agent_did = task[t].agent_did
    OBVIOUS
  <2>1. Phase(t) = "held" /\ Phase(t)' = "held" /\ Holder(t)' = Holder(t)
    BY ContractStep, HoldEndsWithTask DEF Live, Phase
  <2>2. task'[t].agent_did = task[t].agent_did
    BY <2>1 DEF Holder
  <2>3. Active(t)' /\ task'[t].lease # Null
    BY <2>1 DEF Phase, Active
  <2>4. task'[t].status = "running"
    BY <2>3, StoreInductive DEF IInv, LeaseIffRunningDelegation
  <2> QED
    BY <2>2, <2>3, <2>4
<1> QED
  BY <1>1, Inductive, PTL DEF Spec, LiveLeaseIsKept

-----------------------------------------------------------------------------
(* What an agent that has lost its lease can still do.  completeTask and   *)
(* failTask do not ask who holds the task: only the state guards a report. *)

(* What an agent thinks it runs was once leased to it: it may be queued    *)
(* again, run by somebody else or settled by now, and nothing else.        *)
BelievedWasClaimed ==
  \A a \in Agent : \A t \in belief[a] :
    /\ task[t].kind = "delegation"
    /\ task[t].status \in {"queued", "running"} \cup TerminalStates

(* A report that is accepted ends a hold, and is recorded as its author's: *)
(* of a task that is back in the queue, with nobody working on it, every   *)
(* report is refused.                                                      *)
AcceptedReportEndsHold ==
  [][\A a \in Agent : \A t \in belief[a] \ belief'[a] :
       task'[t].status # task[t].status =>
         task[t].lease # Null /\ task'[t].agent_did = a]_vars

(* Beliefs change only with what agents do.                                *)
LEMMA BeliefKept ==
  ASSUME [Next]_vars, ~AgentStep
  PROVE  belief' = belief
BY DEF Next, ServiceStep, Create, Approve, CoreComplete, CoreFail, Cancel, QueryStep,
   ServiceQuery, ServiceQuerySent, ServiceQuerySendFailed, ServiceResponseReceived,
   RespondStep, ClaimApprovalForExecution, RespondRollback, RespondSent,
   RespondMarked, RespondRecovers, ExpireLeasedTasks, ExpireTasks, Tick, Restart, vars

LEMMA BelievedStep ==
  ASSUME IInv, BelievedWasClaimed, [Next]_vars
  PROVE  BelievedWasClaimed'
<1> DEFINE Claimed(t) ==
      /\ task[t].kind = "delegation"
      /\ task[t].status \in {"queued", "running"} \cup TerminalStates
<1>1. \A t \in TaskId : Claimed(t) => Claimed(t)'
  <2> SUFFICES ASSUME NEW t \in TaskId, Claimed(t) PROVE Claimed(t)'
    OBVIOUS
  <2>1. RowStep(t)
    BY NextRowStep DEF IInv
  <2> QED
    BY <2>1 DEF RowStep, Idle, Inserted, Approved, Settled, Leased, Released, Started,
       RolledBack, SameIdentity, TerminalEvents, TerminalStates
<1>2. belief \in [Agent -> SUBSET TaskId] /\ task \in [TaskId -> TaskRow]
  BY DEF IInv, TypeOK
<1>3. ASSUME NEW a \in Agent, NEW t \in belief'[a] PROVE t \in TaskId /\ Claimed(t)'
  <2>1. CASE t \in belief[a]
    BY <1>1, <1>2, <2>1 DEF BelievedWasClaimed
  <2>2. CASE t \notin belief[a]
    <3>1. PICK u \in TaskId, b \in Agent, delivered \in BOOLEAN :
            ClaimDelegationTask(u, b, delivered)
      BY <1>2, <1>3, <2>2, BeliefKept
      DEF AgentStep, HeartbeatTask, AgentComplete, AgentFail, AgentStops
    <3>2. u = t
      BY <1>2, <1>3, <2>2, <3>1 DEF ClaimDelegationTask
    <3>3. task'[u].kind = "delegation" /\ task'[u].status = "running"
      BY <1>2, <3>1 DEF ClaimDelegationTask, Claimable, TaskRow
    <3> QED
      BY <3>2, <3>3
  <2> QED
    BY <2>1, <2>2
<1> QED
  BY <1>3 DEF BelievedWasClaimed

LEMMA ReportStep ==
  ASSUME IInv, BelievedWasClaimed, [Next]_vars, NEW a \in Agent,
         NEW t \in belief[a] \ belief'[a], task'[t].status # task[t].status
  PROVE  task[t].lease # Null /\ task'[t].agent_did = a
<1>1. /\ belief \in [Agent -> SUBSET TaskId] /\ task \in [TaskId -> TaskRow]
      /\ t \in TaskId
  BY DEF IInv, TypeOK
<1>2. AgentStep
  BY BeliefKept
<1>3. AgentComplete(t, a) \/ AgentFail(t, a)
  BY <1>1, <1>2
  DEF AgentStep, ClaimDelegationTask, HeartbeatTask, AgentComplete, AgentFail, AgentStops
<1>4. PICK k \in {"completed", "failed"} :
        Settle(t, k, a) /\ IsValidTransition(task[t].status, k)
  BY <1>3 DEF AgentComplete, AgentFail, Complete, Fail
<1>5. task'[t].agent_did = a
  BY <1>1, <1>4 DEF Settle, TaskRow
<1>6. Active(t)
  BY <1>4 DEF Settle
<1>7. task[t].status = "running" /\ task[t].kind = "delegation"
  BY <1>1, <1>3, <1>4, <1>6
  DEF BelievedWasClaimed, AgentComplete, AgentFail, Complete, Fail, Active, IsTerminal,
      TerminalStates, IsValidTransition, ValidTransitions, WorkflowTaskState
<1>8. task[t].lease # Null
  BY <1>1, <1>6, <1>7 DEF IInv, LeaseIffRunningDelegation
<1> QED
  BY <1>5, <1>8

(* However late its report, an agent that lost its lease never settles a   *)
(* task that is back in the queue.                                         *)
THEOREM LateReportsNeedHold == Spec => []BelievedWasClaimed /\ AcceptedReportEndsHold
<1>1. Init => BelievedWasClaimed
  BY DEF Init, BelievedWasClaimed
<1>2. IInv /\ BelievedWasClaimed /\ [Next]_vars =>
        [\A a \in Agent : \A t \in belief[a] \ belief'[a] :
           task'[t].status # task[t].status =>
             task[t].lease # Null /\ task'[t].agent_did = a]_vars
  BY ReportStep
<1> QED
  BY <1>1, <1>2, BelievedStep, Inductive, PTL DEF Spec, AcceptedReportEndsHold
=============================================================================
