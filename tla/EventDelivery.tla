--------------------------- MODULE EventDelivery ---------------------------
(***************************************************************************)
(* The delivery of workflow events: the outbox that Core keeps in the      *)
(* table workflow_events (repository.ts, routes/workflow.ts) and Brain's   *)
(* WorkflowEventConsumer (workflow_event_consumer.ts), which polls it,     *)
(* tells the user in the chat what became of the node's queries, and hands *)
(* approvals to the dispatcher that the node's bootstrap installs.         *)
(*                                                                         *)
(* The steps of the store are those of Workflow.  The consumer runs one    *)
(* tick at a time and is cut at its awaits: it lists a batch, and of each  *)
(* event in turn it fetches the task, acts, and acknowledges, or pushes    *)
(* the event's next delivery out.  Every call of Core may fail, and the    *)
(* node may crash in between.  The dispatcher's own calls are steps of the *)
(* store (ServiceApproval looks at them); here it succeeds or throws.      *)
(*                                                                         *)
(* The unit of `wait' is the consumer's interval of a second: it is        *)
(* max(0, next_delivery_at - now), rounded up.                             *)
(***************************************************************************)
EXTENDS Workflow

CONSTANTS
  BatchSize,    \* batchSize of the consumer
  Backoffs,     \* the values of backoffMs, in intervals
  MaxOutages    \* bound: crashes and stops of the node, and failed lists

ASSUME DeliveryAssumption ==
  /\ BatchSize \in Nat \ {0}
  /\ Backoffs \subseteq Nat \ {0}
  /\ MaxOutages \in Nat

VARIABLES
  at,        \* column at: the order in which events were appended
  retired,   \* events whose needs_delivery was cleared
  wait,      \* per event, the intervals until next_delivery_at
  started,   \* the consumer has a timer (`handle')
  batch,     \* what is left of the tick's list; empty: no tick in flight
  current,   \* the event of `batch' whose task was fetched
  stage,     \* what is done with it next; "fetch": there is none yet
  told,      \* history: how often the chat was told each outcome, up to 2
  outages    \* crashes, stops and failed lists so far

tick == <<batch, current, stage>>
delivery == <<at, retired, wait, started, tick, told, outages>>
dvars == <<vars, delivery>>

Event == TaskId \X EventKind

DeliveryTypeOK ==
  /\ TypeOK
  /\ at \in [Event -> Nat]
  /\ retired \in SUBSET Event
  /\ wait \in [Event -> Nat]
  /\ started \in BOOLEAN
  /\ batch \in SUBSET Event
  /\ current \in Event \cup {Null}
  /\ stage \in {"fetch", "dispatch", "ack", "fail"}
  /\ told \in [TaskId -> [TerminalEvents -> 0..2]]
  /\ outages \in Nat

Emitted(e) == emitted[e[1]][e[2]] > 0

DeliveryInit ==
  /\ Init
  /\ at = [e \in Event |-> 0]
  /\ retired = {}
  /\ wait = [e \in Event |-> 0]
  /\ started = FALSE
  /\ batch = {}
  /\ current = Null
  /\ stage = "fetch"
  /\ told = [t \in TaskId |-> [k \in TerminalEvents |-> 0]]
  /\ outages = 0

-----------------------------------------------------------------------------
(* Core: appending events.  What one step appends has one time.            *)
AppendEvent ==
  at' = [e \in Event |->
    IF emitted'[e[1]][e[2]] > emitted[e[1]][e[2]]
    THEN 1 + Cardinality({f \in Event : Emitted(f)})
    ELSE at[e]]

StoreStep ==
  /\ Next
  /\ AppendEvent
  /\ UNCHANGED <<retired, wait, started, tick, told, outages>>

(* Nothing looks at the kind, so that events the consumer does not know,   *)
(* which it never acknowledges, take their places in the list.             *)
Undelivered(e) == Emitted(e) /\ e \notin retired

Oldest(S) ==
  {B \in SUBSET S :
     /\ Cardinality(B) <= BatchSize
     /\ \A e \in S \ B : Cardinality(B) = BatchSize /\ \A f \in B : at[f] <= at[e]}

(* Slip: the handler passes a `now' that makes every delivery due.         *)
ListIgnoresBackoff(delays) ==
  /\ batch' \in Oldest({e \in Event : Undelivered(e)})
  /\ UNCHANGED <<current, stage>>

(* The due ones, oldest first, no more than the limit.                     *)
ListUndeliveredEvents(delays) ==
  /\ batch' \in Oldest({e \in Event : Undelivered(e) /\ delays[e] = 0})
  /\ UNCHANGED <<current, stage>>

-----------------------------------------------------------------------------
(* The consumer's ticks.  A tick joins the one in flight, and ends at once *)
(* when the list cannot be had.                                            *)
InFlight == batch # {}

Outage == outages < MaxOutages /\ outages' = outages + 1

RunTick(delays) ==
  \/ InFlight /\ UNCHANGED <<tick, outages>>
  \/ ~InFlight /\ ListUndeliveredEvents(delays) /\ UNCHANGED outages
  \/ ~InFlight /\ Outage /\ UNCHANGED tick

StartConsumer ==
  /\ ~started
  /\ started' = TRUE
  /\ RunTick(wait)
  /\ UNCHANGED <<vars, at, retired, wait, told>>

(* clearInterval; what is in flight runs on.                               *)
StopConsumer ==
  /\ started /\ Outage
  /\ started' = FALSE
  /\ UNCHANGED <<vars, at, retired, wait, tick, told>>

(* A second passes, and the timer fires if there is one.                   *)
Interval ==
  /\ wait' = [e \in Event |-> IF wait[e] = 0 THEN 0 ELSE wait[e] - 1]
  /\ IF started THEN RunTick(wait') ELSE UNCHANGED <<tick, outages>>
  /\ UNCHANGED <<vars, at, retired, started, told>>

-----------------------------------------------------------------------------
(* One event: processEvent.                                                *)
First(e) ==
  stage = "fetch" /\ e \in batch /\ \A f \in batch : at[e] <= at[f]

At(e, s) == stage = s /\ current = e

Goes(e, s) == stage' = s /\ current' = e /\ UNCHANGED batch

Done(e) == stage' = "fetch" /\ current' = Null /\ batch' = batch \ {e}

Dispatchable == {"queued", "running", "pending_approval"}

Routed(k) == k \in TerminalEvents \cup {"approved"}

(* deliver: addDinaResponse, in the block that received the task.          *)
Told(e) ==
  told' = [told EXCEPT ![e[1]][e[2]] = IF @ = 2 THEN 2 ELSE @ + 1]

FetchesTask(e) ==
  /\ First(e) /\ Routed(e[2])
  /\ \/ /\ e[2] = "approved"
        /\ Goes(e, IF /\ task[e[1]].kind = "approval"
                      /\ task[e[1]].status \in Dispatchable
                   THEN "dispatch" ELSE "ack")
        /\ UNCHANGED told
     \/ /\ e[2] # "approved"
        /\ Goes(e, "ack")
        /\ IF task[e[1]].kind = "service_query" THEN Told(e) ELSE UNCHANGED told
  /\ UNCHANGED <<vars, at, retired, wait, started, outages>>

(* getWorkflowTask rejects, or the deliverer throws.                       *)
FetchFails(e) ==
  /\ First(e) /\ Routed(e[2])
  /\ Goes(e, "fail")
  /\ UNCHANGED <<vars, at, retired, wait, started, told, outages>>

Dispatches(e, ok) ==
  /\ At(e, "dispatch")
  /\ Goes(e, IF ok THEN "ack" ELSE "fail")
  /\ UNCHANGED <<vars, at, retired, wait, started, told, outages>>

(* POST /events/:id/ack clears needs_delivery.                             *)
Acks(e) ==
  /\ At(e, "ack")
  /\ retired' = retired \cup {e}
  /\ Done(e)
  /\ UNCHANGED <<vars, at, wait, started, told, outages>>

(* The event stays as it was, due at once.                                 *)
AckFails(e) ==
  /\ At(e, "ack")
  /\ Done(e)
  /\ UNCHANGED <<vars, at, retired, wait, started, told, outages>>

(* markDeliveryFailed, at once for a kind that the consumer does not know. *)
Failing(e) == At(e, "fail") \/ (First(e) /\ ~Routed(e[2]))

MarksDeliveryFailed(e) ==
  /\ Failing(e)
  /\ \E backoff \in Backoffs : wait' = [wait EXCEPT ![e] = backoff]
  /\ Done(e)
  /\ UNCHANGED <<vars, at, retired, started, told, outages>>

MarkFails(e) ==
  /\ Failing(e)
  /\ Done(e)
  /\ UNCHANGED <<vars, at, retired, wait, started, told, outages>>

ProcessEvent(e) ==
  \/ FetchesTask(e) \/ FetchFails(e)
  \/ \E ok \in BOOLEAN : Dispatches(e, ok)
  \/ Acks(e) \/ AckFails(e)
  \/ MarksDeliveryFailed(e) \/ MarkFails(e)

(* The node dies.  The chat is written through to its own table.           *)
Crash ==
  /\ Outage
  /\ Restart
  /\ started' = FALSE
  /\ batch' = {} /\ current' = Null /\ stage' = "fetch"
  /\ UNCHANGED <<at, retired, wait, told>>

DeliveryNext ==
  \/ StoreStep
  \/ StartConsumer \/ StopConsumer \/ Interval
  \/ \E e \in Event : ProcessEvent(e)
  \/ Crash

(* The timers of the store and of the consumer fire, a stopped node is     *)
(* started again, and what Brain awaits settles.  Of ever so many fetches  *)
(* (with the telling of an outcome) and negative acknowledgements one      *)
(* succeeds: these are calls of Core within the process.                   *)
DeliveryFairness ==
  /\ WF_dvars(Tick /\ StoreStep)
  /\ WF_dvars(ExpireLeasedTasks /\ StoreStep)
  /\ WF_dvars(ExpireTasks /\ StoreStep)
  /\ WF_dvars(StartConsumer)
  /\ WF_dvars(Interval)
  /\ WF_dvars(\E e \in Event : ProcessEvent(e))
  /\ \A t \in TaskId :
       /\ SF_dvars(\E k \in TerminalEvents : FetchesTask(<<t, k>>))
       /\ SF_dvars(MarksDeliveryFailed(<<t, "created">>))

DeliverySpec == DeliveryInit /\ [][DeliveryNext]_dvars /\ DeliveryFairness

-----------------------------------------------------------------------------
Queries == {t \in TaskId : task[t].kind = "service_query"}

OutcomeOf(t) ==
  IF t \notin Rows \cap Queries THEN "none"
  ELSE IF IsTerminal(task[t].status) THEN task[t].status ELSE "open"

(* Told, and no acknowledgement was written nor is under way.              *)
InDoubt(t) ==
  \E k \in TerminalEvents :
    told[t][k] > 0 /\ <<t, k>> \notin retired /\ ~At(<<t, k>>, "ack")

Promise == INSTANCE QueryPromise WITH
  Query <- TaskId,
  Outcome <- TerminalEvents,
  outcome <- [t \in TaskId |-> OutcomeOf(t)],
  told <- told,
  doubt <- {t \in TaskId : InDoubt(t)}

(* The user hears of every query the node sent, whatever becomes of it,    *)
(* how it really ended, in spite of races for the task, failing calls,     *)
(* events that are never retired and stand before it in the list, and a    *)
(* crash; and hears it twice only if an acknowledgement was lost.          *)
ImplementsQueryPromise == Promise!Spec
=============================================================================
