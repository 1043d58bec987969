-------------------------- MODULE ServiceApproval --------------------------
(***************************************************************************)
(* The life of one `review' query at its provider: Core's task store       *)
(* (Workflow) with the parties that act on the approval task through it.   *)
(* The operator approves or denies (approve_command.ts, useServiceInbox    *)
(* .ts); the reconciler answers expired approvals (approval_reconciliation *)
(* .ts); Brain's event consumer turns an `approved' event into a           *)
(* delegation and cancels the approval (workflow_event_consumer.ts,        *)
(* service_handler.ts); an agent runs the delegation and the Response      *)
(* Bridge answers.                                                         *)
(*                                                                         *)
(* Brain calls Core in process, and every call is an await: an action is   *)
(* what happens between two of them.  A call may fail before it reaches a  *)
(* handler (the circuit breaker is open).  The injected sendD2D is known   *)
(* by its contract: it resolves when the answer went out, which takes the  *)
(* provider window of the query, and rejects when it did not.              *)
(***************************************************************************)
EXTENDS Workflow

CONSTANTS
  Approval,     \* approval-<uuid>
  Exec,         \* svc-exec-from-approval-<uuid>
  MaxRestarts   \* bound: crashes of the node

ASSUME IdsAssumption == Approval # Exec /\ TaskId = {Approval, Exec}
ASSUME RestartsAssumption == MaxRestarts \in Nat

(* The two tasks Brain creates (createApprovalTask and executeAndRespond   *)
(* of service_handler.ts) are among those Core's store lets a caller create. *)
ASSUME CreatesAssumption ==
  {<<"approval", "pending_approval">>, <<"delegation", "queued">>} \subseteq NewTasks

Caller == {"operator", "reconciler"}   \* the two callers of /v1/service/respond

VARIABLES
  caller,     \* where each of them is in its refusal
  consumer,   \* where the event consumer's tick is
  acked,      \* the `approved' event is acknowledged
  window,     \* the provider window lets one answer out
  bridge,     \* the Response Bridge may send the answer: it has a record,
              \* an entry of a batch, or an attempt that was given up
  answers,    \* what was sent to the requester, counted up to Most
  restarts

brain == <<caller, consumer>>
wire == <<window, bridge, answers>>
approvalVars == <<vars, caller, consumer, acked, window, bridge, answers, restarts>>

ApprovalTypeOK ==
  /\ TypeOK
  /\ caller \in [Caller -> {"idle", "listed", "sending", "sent", "fallback"}]
  /\ consumer \in {"idle", "listed", "creating", "cancelling", "acking"}
  /\ acked \in BOOLEAN
  /\ window \in {"closed", "open"}
  /\ bridge \in BOOLEAN
  /\ answers \in [{"unavailable", "result"} -> 0..2]
  /\ restarts \in 0..MaxRestarts

AllIdle == [c \in Caller |-> "idle"]

ApprovalInit ==
  /\ Init
  /\ caller = AllIdle /\ consumer = "idle" /\ acked = FALSE
  /\ window = "closed" /\ bridge = FALSE
  /\ answers = [unavailable |-> 0, result |-> 0]
  /\ restarts = 0

-----------------------------------------------------------------------------
(* The node dies: SQLite keeps the tasks, and the answer of the bridge if  *)
(* its stash was written; nothing keeps the rest.                          *)
AllLost ==
  /\ restarts < MaxRestarts /\ restarts' = restarts + 1
  /\ inFlight' = {} /\ caller' = AllIdle /\ consumer' = "idle"
  /\ window' = "closed" /\ bridge' \in {bridge, FALSE}

Crash ==
  /\ Restart
  /\ AllLost
  /\ UNCHANGED <<acked, answers>>

(* Bound: two refusals or one result stand for more of them.               *)
Most == [unavailable |-> 2, result |-> 1]

(* An answer goes out on the window the query (or the respond) opened.     *)
Answer(kind) ==
  /\ window = "open" /\ window' = "closed"
  /\ answers' = [answers EXCEPT ![kind] = IF @ < Most[kind] THEN @ + 1 ELSE @]

WindowExpires ==
  /\ window = "open" /\ window' = "closed"
  /\ UNCHANGED <<vars, brain, acked, bridge, answers, restarts>>

(* A Core step that is none of Brain's: the calls in progress stay.        *)
CoreOnly == UNCHANGED <<brain, acked, wire, restarts>>

(* The ingress pipeline opens the window; Brain creates the approval task. *)
QueryArrives(logged) ==
  /\ Create(Approval, "approval", "pending_approval", Null, Ttl, logged)
  /\ inFlight' = inFlight
  /\ window' = "open"
  /\ UNCHANGED <<brain, acked, bridge, answers, restarts>>

(* A copy of the query, after a crash emptied the replay cache, opens the  *)
(* window again; the approval that Brain creates for it is another one.    *)
QueryRepeats ==
  /\ restarts > 0 /\ Approval \in Rows
  /\ window' = "open"
  /\ UNCHANGED <<vars, brain, acked, bridge, answers, restarts>>

OperatorApproves(logged) ==
  /\ Approve(Approval, logged)
  /\ \/ inFlight' = inFlight /\ CoreOnly
     \/ ~logged /\ AllLost /\ UNCHANGED <<acked, answers>>

-----------------------------------------------------------------------------
(* /v1/service/respond with status `unavailable', and what its two callers *)
(* do when it fails.                                                       *)

(* The reconciler acts on a list it read earlier.                          *)
ReconcilerLists ==
  /\ caller["reconciler"] = "idle"
  /\ task[Approval].status \in {"pending_approval", "queued"} /\ Expired(Approval)
  /\ caller' = [caller EXCEPT !["reconciler"] = "listed"]
  /\ UNCHANGED <<vars, consumer, acked, wire, restarts>>

Calls(c) ==
  /\ Approval \in Rows
  /\ caller[c] = IF c = "operator" THEN "idle" ELSE "listed"

Moves(c, to) == caller' = [caller EXCEPT ![c] = to]

RespondClaims(c) ==
  /\ Calls(c) /\ ClaimApprovalForExecution(Approval) /\ Moves(c, "sending")
  /\ window' = "open"
  /\ UNCHANGED <<consumer, acked, bridge, answers, restarts>>

RespondCompletes(c) ==
  /\ Calls(c) /\ RespondRecovers(Approval) /\ Moves(c, "idle")
  /\ UNCHANGED <<consumer, acked, wire, restarts>>

(* 200 for a settled task, 409 for one that another call is sending.       *)
RespondRefuses(c) ==
  /\ Calls(c)
  /\ \/ IsTerminal(task[Approval].status) /\ Moves(c, "idle")
     \/ task[Approval].status = "running" /\ ~task[Approval].run_id /\ Moves(c, "fallback")
  /\ UNCHANGED <<vars, consumer, acked, wire, restarts>>

SendGoesOut(c) ==
  /\ caller[c] = "sending" /\ Moves(c, "sent")
  /\ Answer("unavailable")
  /\ UNCHANGED <<vars, consumer, acked, bridge, restarts>>

SendFails(c) ==
  /\ caller[c] = "sending" /\ Moves(c, "fallback")
  /\ RespondRollback(Approval)
  /\ UNCHANGED <<consumer, acked, wire, restarts>>

(* 200 if the completion lands, 500 if the task was settled meanwhile.     *)
RespondReturns(c) ==
  /\ caller[c] = "sent"
  /\ RespondSent(Approval)
  /\ Moves(c, IF Active(Approval) THEN "idle" ELSE "fallback")
  /\ UNCHANGED <<consumer, acked, wire, restarts>>

RespondThrows(c) ==
  /\ caller[c] = "sent"
  /\ RespondMarked(Approval)
  /\ \/ inFlight' = inFlight \ {Approval} /\ Moves(c, "fallback")
        /\ UNCHANGED <<consumer, acked, wire, restarts>>
     \/ AllLost /\ UNCHANGED <<acked, answers>>

(* The operator cancels, the reconciler fails the task; either may be      *)
(* refused (409), or not get through.                                      *)
FallBack(c) ==
  /\ caller[c] = "fallback" /\ Moves(c, "idle")
  /\ \/ IF c = "operator" THEN Cancel(Approval) ELSE CoreFail(Approval)
     \/ UNCHANGED vars
  /\ UNCHANGED <<consumer, acked, wire, restarts>>

-----------------------------------------------------------------------------
(* The event consumer and executeAndRespond.                               *)

Dispatchable(status) == status \in {"queued", "running", "pending_approval"}

To(next) == consumer' = next /\ UNCHANGED <<caller, wire, restarts>>

ConsumerLists ==
  /\ consumer = "idle" /\ emitted[Approval]["approved"] > 0 /\ ~acked
  /\ To("listed")
  /\ UNCHANGED <<vars, acked>>

ConsumerReads ==
  /\ consumer = "listed"
  /\ To(IF Dispatchable(task[Approval].status) THEN "creating" ELSE "acking")
  /\ UNCHANGED <<vars, acked>>

(* A conflict means an earlier delivery of the event created the task.  If *)
(* only the `created' event is not written, the call fails all the same.   *)
ConsumerCreates ==
  /\ consumer = "creating"
  /\ UNCHANGED acked
  /\ \/ Exec \in Rows /\ To("cancelling") /\ UNCHANGED vars
     \/ \E logged \in BOOLEAN :
          /\ Create(Exec, "delegation", "queued", Null, Ttl, logged)
          /\ \/ inFlight' = inFlight /\ To(IF logged THEN "cancelling" ELSE "idle")
             \/ ~logged /\ AllLost /\ UNCHANGED answers

(* Cancelling the approval is best effort.                                 *)
ConsumerCancels ==
  /\ consumer = "cancelling"
  /\ To("acking")
  /\ Cancel(Approval) \/ UNCHANGED vars
  /\ UNCHANGED acked

ConsumerAcks ==
  /\ consumer = "acking"
  /\ To("idle")
  /\ acked' = TRUE
  /\ UNCHANGED vars

(* Slip: the failed dispatch is acknowledged, not put off.                 *)
ConsumerDrops ==
  /\ consumer \in {"listed", "creating", "acking"}
  /\ To("idle")
  /\ acked' = TRUE
  /\ UNCHANGED vars

(* The fetch, the creation or the acknowledgement does not get through:    *)
(* the event is delivered again later.                                     *)
ConsumerFails ==
  /\ consumer \in {"listed", "creating", "acking"}
  /\ To("idle")
  /\ UNCHANGED <<vars, acked>>

-----------------------------------------------------------------------------
(* The agent and the bridge, whose retries ResponseBridge has in detail.   *)

AgentWorks(a) ==
  /\ \/ \E delivered \in BOOLEAN : ClaimDelegationTask(Exec, a, delivered)
     \/ HeartbeatTask(Exec, a)
     \/ AgentStops(Exec, a)
  /\ CoreOnly

AgentReports(a) ==
  /\ AgentComplete(Exec, a) \/ AgentFail(Exec, a)
  /\ bridge' = TRUE
  /\ UNCHANGED <<brain, acked, window, answers, restarts>>

(* The answer goes out, and its record is cleared, or it may go out again: *)
(* the clear failed and a crash lost the mark, the attempt was given up,   *)
(* or the entry of a batch is stale.                                       *)
BridgeSends ==
  /\ bridge /\ bridge' \in BOOLEAN
  /\ Answer("result")
  /\ UNCHANGED <<vars, brain, acked, restarts>>

Sweeps == ExpireLeasedTasks \/ ExpireTasks

-----------------------------------------------------------------------------
ApprovalNext ==
  \/ \E logged \in BOOLEAN : QueryArrives(logged) \/ OperatorApproves(logged)
  \/ QueryRepeats
  \/ ReconcilerLists
  \/ \E c \in Caller :
       \/ RespondClaims(c) \/ RespondCompletes(c) \/ RespondRefuses(c)
       \/ SendGoesOut(c) \/ SendFails(c)
       \/ RespondReturns(c) \/ RespondThrows(c)
       \/ FallBack(c)
  \/ ConsumerLists \/ ConsumerReads \/ ConsumerCreates \/ ConsumerCancels
  \/ ConsumerAcks \/ ConsumerFails
  \/ \E a \in Agent : AgentWorks(a) \/ AgentReports(a)
  \/ BridgeSends \/ WindowExpires
  \/ Sweeps /\ CoreOnly
  \/ Tick /\ CoreOnly
  \/ Crash

(* Time passes.  The expiry sweep runs every 30 s, the reconciler, whose   *)
(* every attempt moves the deadline of an expired approval 60 s on, every  *)
(* 5 min: again and again the sweep comes before the next attempt.         *)
ApprovalFairness ==
  /\ WF_approvalVars(Tick /\ CoreOnly)
  /\ SF_approvalVars(ExpireTasks /\ CoreOnly)

ApprovalSpec == ApprovalInit /\ [][ApprovalNext]_approvalVars /\ ApprovalFairness

-----------------------------------------------------------------------------
(* Properties.                                                             *)

(* The requester is refused at most once, though operator and reconciler   *)
(* both refuse, failed refusals are repeated, and the node crashes between *)
(* the send and its record.                                                *)
OneRefusal == answers["unavailable"] <= 1

(* A completed approval was answered: the recovery branch of               *)
(* /v1/service/respond, which completes a task it did not answer itself,   *)
(* never takes a response in flight for one that went out.                 *)
CompletedMeansAnswered ==
  task[Approval].status = "completed" => answers["unavailable"] = 1

(* The `approved' event is retired only when the approval was carried out  *)
(* or there is nothing left to carry out: no failed call, lost event or    *)
(* crash makes the operator's yes disappear.                               *)
AckMeansDispatched ==
  acked => Exec \in Rows \/ IsTerminal(task[Approval].status)

(* No approval stays open: whatever operator, reconciler and consumer do,  *)
(* and if none of them ever does anything.                                 *)
ApprovalEnds == Approval \in Rows ~> IsTerminal(task[Approval].status)

(* workflow_event_consumer.ts, of the states it dispatches in: "operator   *)
(* said yes and nothing terminal has happened yet: queued + running        *)
(* (claimed by a previous event)".  So nothing is executed for a requester *)
(* who was told `unavailable'.                                             *)
RefusedIsNotExecuted ==
  [][Exec \notin Rows /\ Exec \in Rows' => answers["unavailable"] = 0]_approvalVars

(* approval_reconciliation.ts: of an approval whose expires_at has passed  *)
(* it "sends an `unavailable` D2D response to the requester, then fails    *)
(* the task".  So an expired approval fails answered, or after a refusal   *)
(* that did not get out.                                                   *)
ExpiredIsAnswered ==
  [][task[Approval].status \in {"pending_approval", "queued"}
       /\ task'[Approval].status = "failed"
     => answers["unavailable"] > 0 \/ caller["reconciler"] = "fallback"]_approvalVars
=============================================================================
