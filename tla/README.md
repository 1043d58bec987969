# Formal model of Dina Core

TLA+ modules, TLC runs and TLAPS proofs for the parts of this repository that
carry its protocol logic: the durable task store and the handlers and sweepers
that move tasks, the delivery of their events to the user, the Response Bridge
that answers remote service queries, the parties that act on one approval, the
exchange of sealed messages between two nodes with its query windows and outbox,
the staging inbox, and the session with the MsgBox relay. Paths below are
relative to `src/packages/`.

## The system

A home node hosts *Core* (storage, keys, the D2D wire) and *Brain*
(classification, chat), which calls Core's routes in process
(`app/src/services/bootstrap.ts`). Everything is JavaScript: a synchronous
block runs alone, interleaving happens at each `await`, at timers and between
processes (agents call over HTTP). Rows live in SQLite; all else is memory that
a crash empties.

| Part | Code | State it keeps | Operations | What makes it correct |
|---|---|---|---|---|
| Domain | `core/src/workflow/domain.ts` | none | transition table, `isTerminal` | the table is what the service's guards ask |
| Task store and service | `core/src/workflow/{repository,service}.ts`, `core/src/server/routes/workflow.ts` | `workflow_tasks`, `workflow_events` | create, approve, claim, heartbeat, complete, fail, cancel, expire | a task is settled once, with one event; a live lease is exclusive; keys are unique among live tasks |
| Sweepers | `core/src/workflow/{task,lease}_expiry_sweeper.ts` | a timer | `expireTasks` (30 s), `expireLeasedTasks` (60 s) | nothing stays in `running` for good |
| Query and response | `core/src/server/routes/service_query.ts`, `core/src/d2d/receive_pipeline.ts` | rows; a handler suspended on its send | query, response, failed send | dedupe; a fast response is not overwritten |
| Respond | `core/src/server/routes/service_respond.ts` | rows; a suspended handler | claim, send, roll back, mark, complete, recover | one refusal, no completion without an answer |
| Response Bridge | `core/src/workflow/{service,bridge_pending_sweeper}.ts` | stash column, fallback map, claims, marks, `tickInFlight` | first send, retry, clear, start, stop, drain | every response is retried until it went out, and sent once |
| Event delivery | `core/src/server/routes/workflow.ts`, `core/src/workflow/repository.ts`, `brain/src/service/workflow_event_consumer.ts` | `workflow_events`; the consumer's timer, tick and place in it | append, list, fetch, deliver, dispatch, acknowledge, push out, start, stop | the user hears how a query ended, and twice only if an acknowledgement was lost |
| Approval handling | `brain/src/service/{workflow_event_consumer,approval_reconciliation,service_handler,approve_command}.ts`, `app/src/hooks/useServiceInbox.ts` | events and their acknowledgement; suspended calls | approve, deny, reconcile, dispatch, cancel | an approval is carried out or refused, and ends |
| D2D send, windows, outbox | `core/src/d2d/send.ts`, `core/src/service/{query_window,windows,bypass}.ts`, `core/src/transport/{outbox,retry,delivery}.ts` | in-memory windows, outbox, retry passes | open, reserve, commit, release, enqueue, retry, resume, expire | a window lets one response out and is not lost to a failed send, and every call of the respond route opens it anew; retries are bounded |
| D2D receive | `core/src/d2d/{receive_pipeline,receive,quarantine}.ts`, `core/src/transport/adversarial.ts` | replay cache, quarantine | drop replays, consume a window, stage, quarantine, accept, block | one response per query is accepted; a note ends up in one place |
| Staging inbox | `core/src/staging/*.ts`, `core/src/server/routes/staging.ts`, `brain/src/staging/batch_processor.ts` | in-memory items with leases, copies for locked personas | ingest, claim, resolve, resolveMulti, fail, approve, extend, sweep, drain | each chosen persona gets its record, once |
| Relay session | `core/src/relay/msgbox_ws.ts`, `core/src/relay/msgbox_boot.ts`, `app/src/services/bootstrap.ts` | one socket, flags, a reconnect timer | connect, authenticate, reconnect, disconnect, start, stop | reconnecting does not multiply; the flag means a session, but for a frame that is read too late; a lost session comes back |
| RPC pool | `core/src/rpc/*.ts` | queue, in-flight map, idempotency cache | submit, finish, cache | at most `maxConcurrent` jobs, one execution per request |
| The rest | identity, crypto, personas, vault, PII, pairing, audit, export, LLM routing, user interface | files, keys, text | data transformations, CRUD, I/O | not protocol logic |

`PROJECT.json` lists every part with its status, and under `hazards` each place
where an ordering, a crash or a stale value can bite, at its line.

### How the parts interact

* An inbound `service.query` under the policy `review` opens the provider
  window and becomes an *approval* task (`pending_approval`). The operator's
  approval moves it to `queued` and appends an `approved` event; Brain's event
  consumer reads the event, creates a *delegation* `svc-exec-from-<id>` and
  cancels the approval. An agent claims the delegation, heartbeats and reports;
  completion fires the Response Bridge, which answers on the window.
* A refusal, by the operator or, for an approval whose time is up, by the
  5 minute reconciler, goes through `/v1/service/respond`: claim the approval
  (`running`), send `unavailable`, mark the row's `run_id`, complete it. A later
  call that finds the mark completes the row without sending.
* An outbound query is a *service_query* task with an idempotency key, created
  before the send and completed by the response ingress.
* Whatever settles a task appends an event in the same transaction. Brain's
  consumer lists the events that are due, tells the chat how a *service_query*
  ended, and acknowledges; what fails is pushed out with a growing backoff.
* The two sweepers and the bridge's sweeper run beside all of that.
* Everything that leaves the node, the answer of a respond and that of the
  bridge included, is a `sendD2D`: a response reserves the provider window
  first, goes out over the relay's WebSocket or over HTTP, and on a failure
  releases the window and is queued in the outbox. The receiver drops copies,
  lets a response use up the requester window, and puts ordinary notes into the
  staging inbox or, from an unknown sender, into quarantine.
* Brain claims staged items, classifies them across awaits and resolves them
  into persona vaults; what is meant for a locked persona waits for its unlock
  event. The user's "remember" and a Brain in another process (over the routes)
  use the same inbox.
* The relay session is one set of module variables written by the callbacks of
  every socket; the node's `start()` waits for its authentication, `stop()`
  drains the runners and disconnects.

## Modules

```
WorkflowDomain        states, kinds, transition table
  DelegationLease     what the agent-pull claim promises (abstract)
  Workflow            task store + service + handlers + sweepers
    WorkflowProofs    theorems about Workflow
      LeaseProofs     Workflow implements DelegationLease
    MCWorkflow        small instance for TLC
    ServiceApproval   Workflow + operator, reconciler, consumer, bridge, window
      ApprovalProofs  theorems about it
      MCServiceApproval
    QueryPromise      what the user is promised about queries (abstract)
    EventDelivery     Workflow + the events table and the consumer
      DeliveryProofs  theorems, and the safety of QueryPromise
      MCEventDelivery
ResponseBridge        stash, first send, retries, sweeper, node lifetime
  BridgeProofs        theorems about it
  MCResponseBridge
D2DExchange           two nodes: sendD2D, windows, outbox, receive, quarantine
  D2DProofs           theorems about it
  MCD2DExchange
StagingPromise        what the staging inbox promises (abstract)
  StagingInbox        inbox, batch processor, routes, personas
    StagingProofs     theorems, and StagingInbox implements StagingPromise
    MCStagingInbox
MsgBoxSession         sockets, timers, handshake, start and stop
  MsgBoxProofs        theorems about it
  MCMsgBoxSession
```

**Workflow.** `task` is the table `workflow_tasks` (the columns that decide
something: state, kind, agent_did, lease_expires_at, expires_at,
idempotency_key, run_id, the order of created_at), `emitted` counts the
*deliverable* events per task and kind (the internal audit events `claimed` and
`lease_expired` have `needs_delivery` false and are left out), `inFlight` holds
the tasks whose handler is suspended on a send, and `belief` what each agent
believes it is running. One action is one synchronous block, so

* `create` and `approve`, which write the row and then the event outside any
  transaction, may stop in between (`logged = FALSE`): the write throws, or the
  process dies and `inFlight` with it;
* `/v1/service/query` is `ServiceQuery`, then `ServiceQuerySent` or
  `ServiceQuerySendFailed`; `/v1/service/respond` is
  `ClaimApprovalForExecution`, then `RespondRollback`, `RespondSent` or
  `RespondMarked` (a write after the send throws), or, for a later call,
  `RespondRecovers`;
* `claimApprovalForExecution`, `rollbackToQueued`, `expireTasks` and the lease
  sweep do not ask `ValidTransitions`, in the model as in the code;
* the reply of a claim may be lost, an agent may die or report late; a report
  refused by the guards changes no row.

Deadlines are kept as the time that is left, so no clock has to be bounded:
`expires = 0` is `expires_at <= now` (the expiry sweep), `lease = -1` is
`lease_expires_at < now` (the lease sweep; at equality the lease still holds).
`updateTaskProgress` (a note) is left out; what becomes of single events is
EventDelivery's. The SQLite repository is the one modelled; the in-memory one is for
tests and nodes without a database (`app/src/services/boot_service.ts`).

**DelegationLease** is the contract in the comments of the
`WorkflowRepository` interface: tasks are open, held by one agent, or done, and
only a lapsed hold is taken back. `Workflow!ImplementsLease` is the refinement,
with `phase`, `holder` and `live` computed from the rows.

**EventDelivery** extends Workflow with the rest of the table
`workflow_events` (`at`, `retired` for `needs_delivery = 0`, `wait` for the time
until `next_delivery_at`, in intervals of the consumer) and with the consumer's
tick, cut at its awaits: list a batch, and of each event in turn fetch the task,
act, and acknowledge, or push the next delivery out. `batch` is what is left of
the list, `current` and `stage` say where the tick is with one event. Fetching
the task and telling the chat are one action, because `deliver` writes into the
thread in the block that received the task. A tick joins the one in flight; a
stopped consumer finishes its tick. Every call of Core may fail, the chat may
throw, and a crash may fall between telling and acknowledging. The calls that
the dispatcher of approvals makes are steps of the store here (any `create` and
`cancel` may happen meanwhile); in what order it makes them is ServiceApproval's
matter. `Backoffs` are the possible values of `backoffMs`, which doubles from 2 s
to 300 s. `told` is history: how often the chat was told each outcome.
**QueryPromise** is what a user may rely on, and says nothing of tables and
polls: each query gets one outcome, the user is told that one and no other,
eventually, and again only while it is in doubt whether the first time worked.
`doubt` is computed: told, not retired, and no acknowledgement under way.

**ResponseBridge** has the bridge's own state by name: `stash` (the tasks with a
`bridge_pending:` row), `fallback` (`bridgeInMemoryFallback`), `inFlight`
(`bridgeInFlight`), `awaitingClear` (`bridgeDeliveredAwaitingClear`), the
detached first send of each task, and the one suspended `retryPendingBridges`
(`retry`): `left` is what is left of its snapshot, `now` the entry it is at,
`surface` the pass it is in (stashed rows, then memory), `sent` whether that
entry's send went through. Tasks complete one after the other; `earlier` says of
each which ones completed before it, and is the order in which the query returns
the rows and the call walks them. The sweeper's `tickInFlight` is three-valued:
`tick` is the promise `runTick` stores and its `finally` removes; `wrapper` is
the promise an async function returns, which `start()` and the timer store over
it. `withTimeout` gives an attempt up after 30 s, yet the response may still go
out (`LateDelivers`). A crash can also fall between the commit of the completed
row and the stash write (`CrashBeforeStash`).

**ServiceApproval** extends Workflow with the parties of one approval: the two
callers of `/v1/service/respond` (operator and reconciler), the consumer's tick
cut at its awaits (list, fetch, create, cancel, acknowledge), the provider
window as one bit, the bridge's pending answer, and what was sent to the
requester. Any call of Brain may fail before it reaches a handler (the circuit
breaker of the Core client). Details of the bridge are ResponseBridge's; here
`bridge` says that it may still send, from a record, from an entry of a batch or
from an attempt that was given up, so a result may go out any number of times,
on a window that a repeated query opens again after a crash (`QueryRepeats`; the
approval Brain then makes for it has an id of its own). `answers` counts up to
`Most`.

**D2DExchange** composes two nodes. `window` and `lapsed` are the `QueryWindow`
entry of each for the one query, `call` says where each `sendD2D` call is (cut
at its awaits: the bypass decision, the delivery), `outbox` and `pass` are the
queue and the snapshots of `retryPendingOutbox` calls, `seen` the replay caches,
`wire` what the relay took. The bypass decision and the gates are a choice
(`Denied`); a delivery that is reported as failed may have reached the relay
(`RelayTakes`, `RetryFails(.., took)`), and the relay delivers what it took
never, late or repeatedly. The provider answers as often as its bridge likes
(`Answer` is the set of those calls) and whenever somebody calls
`/v1/service/respond` (`Refusal`). `approval` is the status of the approval as
that route moves it and `refusing` the call that awaits its send: `Respond`
claims, opens the window anew over whatever entry there is
(`core/src/server/routes/service_respond.ts:197`) and starts the send,
`RespondReturns` completes the row, `RespondFails` releases the window, which
another send may have reserved by then (217), and puts the row back. The sender
the route awaits may throw when a send was denied or only queued, or not, so
both follow such a send. A crash empties all of a node's memory, which is all of
its state here but for the approval's row. The 24 h of an outbox entry, its
backoff, the TTL of a window and the 30 days of a quarantined note run out when
the model says so. `resumeAfterApproval` is included although nothing calls it
yet.

**StagingInbox** has one item per dedup key (`producer, source, source_id`),
`copy` for the copies that `resolveMulti` makes for locked personas, `life` for
item ids (a source whose item was swept gets a new one, and a late classifier
still has the old id), and per classifier the claimed `batch`, what is left of
it (`todo`) and the beat that follows each item. `lapsed` abstracts the lease,
the argument `expired` of `Sweep` the TTL. `ProcessOneItem` is the block after
the classification's await, in which openness is read and `resolve` called;
`RouteClaim` to `RouteExtendLease` are the HTTP routes, whose caller may report
on anything at any time. `written` and `chosen` are history: the vault records
made from the item, and the personas it was resolved for. `storeItem` refuses
items that are not valid and `resolve` swallows that; such an item is one with
`classified = FALSE`, as is one without an enriched form. **StagingPromise** is
the contract of the comments in `staging/service.ts`: the personas are decided
once, and what is owed to a locked persona is kept until its unlock. The hook
`onDrainCallback` (`staging/service.ts:246`, 417) is left out: one that throws would
stop a resolve after its records were written, but no code of a node installs one.

**MsgBoxSession** keeps the client's variables by name (`ws`, `connected`,
`authenticated`, `challengeSeen` for `authChallengeSeen`, `target` for
`shouldReconnect` with `currentURL`) and the sockets apart from them, because a
callback of a socket that was given up still writes those variables: `close()`
only asks for a close, `onclose` runs later. `reconnectTimer` is `held`; a timer
that the variable was overwritten with is `loose`, and still fires. `relay` is
how far the relay is with a socket's handshake; it may close a socket at any
time, accept it silently, or send envelopes without an `auth_success`. A frame
that is text is handled in the callback that brings it (`OnFrame`); one that the
platform hands over as a Blob is read across an await (`OnBlob`) and handled
afterwards (`BlobDecoded`), on the flags of that moment and whatever has become
of its socket, or is lost (`BlobLost`). `Blob` are the kinds of frames that may
come so. `belated` is history: the flag was last set, from FALSE, by a Blob
whose socket had closed. The node's `start()` is cut at the wait for
authentication and at the publication of the profile, `stop()` at the drain of
the runners; both may overlap.

Three things are known by contract only: the relay, the `sendD2D` that is
injected into the bridge and the respond route (resolves when the message went
out, rejects when it did not), and time. The map marks them external.

Definitions whose comment starts with *Slip* are not the code: each is a small,
plausible mistake in the definition that follows it, kept to show that the
properties notice it (`mutants` in `PROJECT.json`). No specification uses them.

## Runs

| Run | Instance | What it shows |
|---|---|---|
| `workflow` | 2 tasks, 2 agents, 1 key, times of 1; 0.5 M states | one terminal event, one `approved` event, unique keys, leases only on running delegations, every running task in reach of a sweeper, settled rows never change, and `ImplementsLease` |
| `workflow_live` | 1 task with its events and their consumer, times of 2, deadlines up to 4, a list of 1, 2 outages; 0.1 M states | a task of a dead agent leaves `running`; a task with a deadline ends, or is taken up by a response; and `ImplementsQueryPromise` |
| `bridge` | 2 tasks, one for a requester that cannot be reached, batch of 2, 1 crash; 18 k states | claims are exactly the sends in progress, and hung sends release theirs; an undelivered response keeps its record and is in the retries' reach; what went out is sent again only from a stale entry of a batch, after an attempt that was given up, or after a crash; a node that is restarted again and again delivers |
| `approval` | 1 approval, its delegation, 1 agent, 1 crash; 0.55 M states | refused at most once; completed only if answered; the approved event is retired only when carried out; the approval ends |
| `d2d` | 1 query, 2 answers of the bridge, 1 call of the respond route, 1 note, 2 overlapping passes, a queue of 1, 2 faults; 1.7 M states | without a respond call one owner of a reservation and one response sent, with it two more at most; a window is used up by a response that went out, one response accepted, retries bounded, a note in one place |
| `staging` | 2 sources, 2 personas, a classifier and the routes, 1 retry, 2 items, 1 crash; 0.45 M states | one record per persona, no persona forgotten, dead letters stay dead, and `ImplementsPromise` |
| `msgbox` | 2 starts, 4 sockets, 1 Blob at a time; 1.25 M states | reconnecting does not multiply; the flag has a session, a node started once sends on an accepted socket, both but for a Blob read too late; it comes back |
| `bridge_sweeper_pinned` | 1 task | *violation*, below |
| `bridge_stale_batch` | 2 tasks, batch of 2 | *violation*, below |
| `d2d_respond_reopens` | 1 answer of the bridge, 1 call of the respond route, no note, 1 fault | *violation*, below |
| `approval_refused_executed` | as `approval`, no crash | *violation*, below |
| `approval_expired_unanswered` | as `approval`, no crash | *violation*, below |

**Bounds.** `MaxExpires` caps `expires_at - now` where repeated response claims
push it on; `MaxRestarts` caps crashes; `delivered` counts to 2. Two tasks are
what uniqueness, claim order and batches need; two agents what a stale holder
needs; a lease of 1 has the three cases (left, at its end, lapsed), and the live
run repeats it with 2 and an extension that really extends. In that run a list
of 1 lets the `created` event, which is never acknowledged, keep the outcome out
of the list whenever both are due, and a backoff of 2 intervals is the shortest
the code has; `MaxOutages` caps the crashes, stops and failed lists together.
For the bridge, a batch of 2 is what a stale snapshot needs, and holds the
record that cannot be delivered and still has room (with as many of those as the
batch has places, the others starve; see below). Tasks and agents are only
compared, so `workflow` uses symmetry; the properties checked there are
invariants and step properties. The same goes for the answers, passes, sources
and personas of `d2d` and `staging`. In `d2d` two answers and a call of the
respond route are what races for a window, two passes what overlaps, a queue of
1 what makes the second entry find it full; `MaxFaults` allows any two of a
crash of either node, a failed delivery and a respond call; `accepted` counts to
2. In `staging` the remote caller of the routes is a second classifier that is
not bound by any protocol; two personas make a locked secondary, `Limit = 2` a
batch with a rest, `Max_retries = 1` a dead letter after two failures;
`MaxIngests = 2` lets a swept source come again while its first classifier still
works. In `msgbox` two starts overlap or surround a stop; with four sockets each
chain can lose one; `MaxBlobs = 1` lets one Blob outlive its socket and the one
after it. `Droppable` and `MaxSockets` keep a last socket for every chain, so
that the bound does not end a session for good.

**Fairness.** In Workflow, time passes and the two sweepers, which are
`setInterval` timers, run (weak fairness); agents, operators and peers promise
nothing. In EventDelivery the consumer's timer fires, a stopped node is
started again and what Brain awaits settles (weak fairness); of the fetches that
tell an outcome, and of the negative acknowledgements of a `created` event, one
of ever so many succeeds (strong fairness): they are calls of Core in the same
process. That each list also finds the outcome is not assumed but shown. In
ServiceApproval the expiry sweep has strong fairness: it runs every
30 s, while every attempt of the reconciler that moves the deadline 60 s on is
5 minutes from the next, so the sweep meets an expired approval again and
again. In ResponseBridge the timers fire (`Start`, `IntervalTick`, the 30 s
limit, the clear after a send), and a requester that can be reached is reached
by one of ever so many attempts (strong fairness of `RetryDelivers`). The sends
themselves are never assumed to settle.

In MsgBoxSession the events of a socket are delivered, the relay that can be
reached answers, sooner or later with a frame that comes as text (weak fairness;
that a Blob is ever read is not assumed), and the reconnect timer connects in
the end though the factory may throw in between (strong fairness: the timer is
then scheduled anew). No fairness is assumed of `start()` and `stop()`.
D2DExchange and StagingInbox assume none: the code schedules neither the retry
passes nor the sweep (below).

**Deadlock** is checked, but in `d2d` (every call made, every copy recorded) and
`msgbox` (a stopped node whose starts are used up), which may stop.

## What the code does otherwise than it says

1. `bridge_sweeper_pinned` (`core/src/workflow/bridge_pending_sweeper.ts:94`).
   `start()` and the timer store the promise that the *async* `runTick` returns;
   the `finally` that resets `tickInFlight` compares with the inner promise and
   never matches. After its first tick a started sweeper never retries again,
   neither from the timer nor from `drainOnce()`; only stop and start do. The
   other sweepers have the same assignment and no test of the field, so they
   are not affected.
2. `bridge_stale_batch` (`core/src/workflow/service.ts:605`). The batch is read
   once; a task whose first send delivered and cleared its stash while the batch
   awaited an earlier entry is sent again from the snapshot.
3. `approval_refused_executed`
   (`brain/src/service/workflow_event_consumer.ts:322`). The consumer dispatches
   a `running` approval, and acts on a state it read two calls ago. `running`
   means a refusal in flight, so the query is executed for a requester who was
   told `unavailable`.
4. `approval_expired_unanswered` (`core/src/workflow/repository.ts:776`). The
   30 s expiry sweep fails an expired approval before the 5 minute reconciler
   sees it; nobody sends the promised `unavailable`.
5. `d2d_respond_reopens` (`core/src/server/routes/service_respond.ts:197`). Every
   call of the respond route opens the provider window, over an entry that the
   bridge's send has reserved; the route's send reserves it again and two
   responses to one query are under way at once, which the reservation is there
   to prevent (`core/src/service/query_window.ts:81`, `core/src/d2d/send.ts:111`).
   The requester still accepts one.

Met while modelling, without a run of their own:

* a response claim takes an approval from `pending_approval`, and a failed send
  rolls it back to `queued` (`repository.ts:539`, `service_respond.ts:218`): it
  then looks approved, and cannot be approved any more;
* the reconciler's fallback `failWorkflowTask` is refused with 409 after such a
  rollback, because `queued -> failed` is not in `ValidTransitions`
  (`approval_reconciliation.ts:274`);
* a crash between the commit of the completed row and the stash write loses the
  response (`service.ts:390-406`), though the comment at 424 says the stash
  covers crashes;
* `retryPendingBridges` always takes the oldest `limit` stashes: as many
  unreachable requesters keep all others from being retried;
* provider windows are in memory, so after a restart a durable stash has no
  window to go out on;
* `created` events need delivery (`service.ts:310`) and no consumer takes them:
  they are pushed out and come back for good
  (`brain/src/service/workflow_event_consumer.ts:252`), and with a list of 50 and
  a backoff of at most 300 s some 15000 tasks are enough to fill every list with
  them, before the outcomes, which are younger. `ImplementsQueryPromise` holds
  only while `BatchSize` times the backoff exceeds the events of that sort;
* the outbox calls itself durable (`core/src/transport/outbox.ts:2`) and is a
  map in memory; nothing in the node calls `retryPendingOutbox`,
  `resumeAfterApproval`, `purgeReplayCache` or `startServiceWindowCleanup`, so
  what is queued is sent again only by those who call them from outside; a
  resumed dead letter is pending, and is neither tried nor deleted;
* `acceptFromQuarantine` (`app/src/hooks/useD2DMessages.ts:70`) drops the
  messages it takes out, and stages none;
* the staging routes hand `resolve` no enriched item: an item resolved over
  HTTP is `stored` with nothing in a vault (`core/src/server/routes/staging.ts:21`);
  a drain writes into a persona that was locked again while its unlock event
  waited (`brain/src/api/process.ts:70`); `resolveMulti` copies the item
  before it clears the raw body, so copies keep it
  (`core/src/staging/service.ts:257`); inbox rows are written and never read
  back; nothing in the node calls `sweep`, so a lapsed lease is not taken back;
* a `start()` that fails after it has connected leaves the connection, and
  `stop()` is then a no-op (`app/src/services/bootstrap.ts:745`), although line
  306 says that it disconnects and is safe to call multiple times;
* a frame that comes as a Blob is read across an await and handled whatever has
  become of its socket (`core/src/relay/msgbox_ws.ts:309`): an `auth_success` read
  after `onclose` sets the flag that `onclose` reset. The next socket then makes
  the client `isAuthenticated()` as soon as it opens, its challenge is ignored
  (340), and envelopes go out on a socket the relay has not accepted. This is
  the case that `belated` marks; where such frames come as text the flag always
  stands for a live session (`TextFlagHasLiveSession`);
* with two starts under way a client that is `isAuthenticated()` may send on a
  socket the relay has not accepted, which is why `SendsGoToSession` and
  `ComesBack` speak of a node started once. `AuthenticatedHasSession` and
  `OneChainPerStart` hold for any number.

## Proofs

Checked by tlapm with Z3, Zenon and LS4, for every value of the constants: any
finite set of tasks, sources or answers, any agents, personas and classifiers,
any bounds.

| Module | Theorem | Property |
|---|---|---|
| `WorkflowProofs` | `TypeCorrect` | `TypeOK` |
| | `SettledOnce` | `OneTerminalEvent` |
| | `AnnouncedOnce` | `ApprovedAtMostOnce` |
| | `KeysUnique` | `ActiveKeyUnique` |
| | `LeasesAreDelegations` | `LeaseIffRunningDelegation` |
| | `RunningRecoverable` | `RunningIsRecoverable` |
| | `SettledForever` | `TerminalIsFinal` |
| `LeaseProofs` | `StoreImplementsLease` | `ImplementsLease` |
| | `LiveLeaseKept` | `LiveLeaseIsKept` (of the module) |
| | `LateReportsNeedHold` | `BelievedWasClaimed`, `AcceptedReportEndsHold` (of the module) |
| `ApprovalProofs` | `ApprovalTypeCorrect` | `ApprovalTypeOK` |
| | `RefusedOnce` | `OneRefusal` |
| | `CompletedAnswered` | `CompletedMeansAnswered` |
| | `AckedDispatched` | `AckMeansDispatched` |
| | `StoreUnderApproval` | the composition is a behaviour of Workflow |
| | `ApprovalSettledOnce` | `OneTerminalEvent`, `ApprovedAtMostOnce`, `RunningIsRecoverable`, `TerminalIsFinal` |
| | `ApprovalKeepsLease` | `ImplementsLease` |
| | `ResultsAreFinal` | `ResultIsFinal`, `ResultStands` (of the module) |
| `DeliveryProofs` | `DeliveryTypeCorrect` | `DeliveryTypeOK` |
| | `ToldAsPromised` | the safety part of `ImplementsQueryPromise` |
| | `NoOutcomeLost` | `OutcomeToldOrUndelivered`, `ToldIsOutcome`, `OnlyRoutedRetire` (of the module) |
| | `StoreUnderConsumer` | the composition is a behaviour of Workflow |
| `BridgeProofs` | `TypeCorrect` | `TypeOK` |
| | `ClaimsAreSends` | `ClaimsMatchSends` |
| | `RecordOutlives` | `RecordKeptUntilDelivered` |
| | `NothingUnreachable` | `UndeliveredIsRetryable` |
| | `OnlyStaleEntriesRepeat` | `RepeatsAreStale` |
| | `NobodyIsPassedOver` | `SmallBacklogIsRead`, `EntriesKeepTheirTurn` (of the module) |
| `StagingProofs` | `TypeCorrect` | `TypeOK` |
| | `OneRecord` | `VaultedOnce` |
| | `NothingForgotten` | `EveryTargetReached` |
| | `PromiseKept` | `ImplementsPromise` |
| | `DeadLettersStayDead` | `DeadLettersRest` |
| | `ResolvedForGood` | `DecidedForGood` (of the module) |
| `D2DProofs` | `TypeCorrect` | `TypeOK` |
| | `ReservationHasOwner` | `OneReservation` |
| | `WindowSpentBySent` | `SpentMeansSent` |
| | `OneResponseSent` | `OneSent` |
| | `OneResponseAccepted` | `OneAcceptance` |
| | `BoundedRetries` | `RetriesBounded` |
| | `NoteInOnePlace` | `OnePlace` |
| | `GatesAndCauses` | `NothingBypassesGates`, `RetriedWasQueued`, `AcceptedWasAsked` (of the module) |
| `MsgBoxProofs` | `TypeCorrect` | `TypeOK` |
| | `FlagHasSession` | `AuthenticatedHasSession` |
| | `TextFlagHasLiveSession` | `LiveSession` (of the module), where what sets the flag comes as text |
| | `ChainsDoNotMultiply` | `OneChainPerStart` |
| | `SendsReachSession` | `SendsGoToSession` |
| | `StopLeavesNothing` | `NoStraySocket`, `StoppedIsDown` (of the module) |

A property "of the module" is defined beside its theorem and is no property of a
run: it says more than the runs ask, or is the reason behind what they ask.

*Assumptions.* They are named in the modules that declare the constants, and
TLC evaluates them: the unset value is no agent, key, number, persona or socket
(`NullAssumption`, `TaskAssumption`); the sets whose elements are counted are
finite (`TaskIdAssumption`, `TaskAssumption`, `FiniteAssumption`); queries, answers
and notes are different messages (`MessageAssumption`); ServiceApproval is about
one approval and its delegation (`IdsAssumption`); a new task is what
`validateInput` lets through (`NewTasksAssumption`), and the two tasks that Brain
creates are among those (`CreatesAssumption`); limits and bounds are numbers
(`DeadlineAssumption`, `LimitAssumption`, `DeliveryAssumption`,
`RestartsAssumption`, `BoundAssumption`).

**Workflow.** Every step treats each row in one of eight ways (`RowStep`: idle,
inserted, approved, settled, leased, released, started, rolled back). One
lemma per group of handlers shows this (`ServiceRowStep`, `AgentRowStep`,
`QueryRowStep`, `RespondRowStep`, `SweepRowStep`), and each conjunct of the
invariant is then kept by the eight cases alone, whatever handler they come
from. `IInv` adds two facts to the checked invariants, neither of which is
implied by them: a task that still waits for its operator has announced no
approval (without it a second `approved` event could not be excluded), and a
handler that awaits a send holds a row with a deadline (without it the row that
`ServiceQuerySent` turns to `running` might be out of every sweeper's reach).
`LeaseIffRunningDelegation` is needed in the step itself: it tells the lease
sweep apart from a rollback. `StoreImplementsLease` maps each action, under
`IInv`, to a step of the contract: creation offers, a claim takes, a heartbeat
renews, the lease sweep takes back every lapsed hold at once, whatever settles
a row finishes it, and time lets holds lapse; the moves of approvals and queries
between live states are not seen. What an agent may count on is read off the
contract: a live hold ends only with its task (`LiveLeaseKept`). What the store
may count on of an agent is less, since `completeTask` does not ask who holds
the task (`core/src/workflow/service.ts:376`): an agent that lost its lease can
still settle a task another agent holds. It cannot settle one that nobody holds
(`LateReportsNeedHold`): what an agent believes it runs is a delegation that is
queued, running or ended, and from `queued` the transition table lets no report
through.

**ServiceApproval.** `AInv` says when a refusal may be sent. An approval has no
lease, so no lease sweep hands it to a second caller (`RowShape`); at most one
caller is between its claim and its return, and meanwhile the row is running or
ended (`OneSender`). How many refusals went out can then be read from the row
and the callers (`RefusalsCounted`): none before a claim and while one sends, one
if the mark is set, the row is completed, or a caller is back from the send.
`EventHandled` follows the consumer's tick: past the create there is a
delegation, past the cancel a delegation or an ended approval. Each step of the
composition is one of the store or leaves the tasks alone (`StoreSteps`), so
what was proved of the store holds here: `StoreUnderApproval`, and with
`StoreInductive` and `ContractStep`, the invariants, `TerminalIsFinal` and the
lease contract without a second proof. A result may be sent more than once, after a
crash, a timeout or from a stale batch; what `ResultsAreFinal` says is that it is
always the same one. The bridge gets an answer only from the report that ends
the execution (`ResultIsFinal`), and by `FinalStep` no later report, sweep or
repeated query touches an execution that has ended (`ResultStands`).

**EventDelivery.** `DInv` is the store's `IInv`, the types, and what a tick and
the chat may rely on: what is left of a batch is not retired and was appended
(`TickInv`); what was told is the outcome of a query (`ToldInv`). The steps of
the store keep it by `RowStep` again. In `ToldAsPromised` a step of
the store is a `Proceed` or not seen, and one of the consumer is a `Tell`, a
`Repeat`, a `Doubt` or not seen; that an outcome told stays the outcome is
`OneTerminalEvent`. `RetiredInv` says the converse of `ToldInv`: what is
acknowledged, or about to be, is of a routed kind and was told when it is the
outcome of a query; so no acknowledgement, crash or late list loses one
(`NoOutcomeLost`; that it is told *eventually* is left to TLC).

**ResponseBridge.** `Order`: completions are strictly ordered, so a batch has at
most `Limit` entries, and what is left of it fewer (`Snapshot`), which `TypeOK`
states. `Settled`: only what went out is on its way to being cleared, so a
record is dropped only after its delivery, or with the memory of a crash. With
it, `NothingUnreachable` needs each way out of a send to leave the claim and the
record in step. For the second response to one completion, `Apart` says that the
table and the map never hold the same task, that a first send is the first, and
that no retry sends what is marked; `Cleared` that what went out and was neither
given up nor caught by a crash is being cleared, marked or without a record.
Then only an entry read before its record was cleared can send again
(`OnlyStaleEntriesRepeat`, for every batch size: it is what `bridge_stale_batch`
finds). `NobodyIsPassedOver` rests on the order of completions: with no more
than `Limit` rows the batch is all of them, and going on to the next entry skips
only what is being sent or marked.

**StagingInbox.** `TypeInv` adds to `TypeOK` what an item's status says of its
other fields (`ItemOK`: no item has default fields, a present one has an id,
and one that may still fail has retries left, which is what bounds
`retry_count`). `TargetInv` says of each item and persona (`TargetOK`): nothing
is written, copied or chosen before the item is settled, what waits is chosen
and not written, what is written is chosen, once, and of an enriched item every
chosen persona has its record or something that waits. `OneRecord` and
`NothingForgotten` follow; for `PromiseKept` each action is a step of the
contract or a stutter, with the open and the locked targets as the witnesses of
`Settle`. `ResolvedForGood` is about one settled item and any step: until the
item is deleted it stays settled for the same personas, no record of it goes
away, and what waits for a persona waits on or is written.

**D2DExchange.** One invariant for each theorem. `AcceptInv`: the requester's
window is opened by the query's one call, and while it is there nothing was
accepted. `SpentMeansSent` is inductive as it stands. `TurnInv` counts
turns: the sends under way, a free window and the respond call that awaits its
send (which may release the window once more) are no more than the query's
receipt and two for each call of the respond route; with the responses sent, no
more than that and one for each crash. Every reservation has a send under way,
since only a claim makes one and its send's end commits or releases it. `RetryInv`
bounds a retry count by the attempts of the passes that have it in their
snapshot, and `PlaceInv` says that a placed note is in the replay cache.
`GatesAndCauses` needs the two facts about every message together: what is on
the relay has passed the gates, and what the outbox holds, or a pass has in its
snapshot, is what its call reported as queued. A retry is thus of something
that passed the gates, and never of what was reported as sent or as lost.

**MsgBoxSession.** `StopInv`: a stop takes `started` away, which only a start
that came to its end gave, so stops are bounded by starts. `OneChainPerStart` is
kept because a timer becomes a socket, a socket's close a timer, and only a
start adds one. `SessionInv`: a Blob that is being read was sent by a relay that
had come so far (`BlobInv`), so what sets the flag always has an acceptance;
every close resets the flag, so it has a live socket as well unless a Blob was
handled after its socket's end (`FlagInv`). `TextFlagHasLiveSession` adds that
without such Blobs `belated` stays FALSE. For `SendsGoToSession` the chain bound
leaves a single live socket (`OneLink`), and `WsAlive` says that `ws` is one
that lives. By the same lemma the socket of a node that is started once is the
client's `ws`, and with `LinkInv` none is up after `stop()`, whatever timer or
`onclose` comes late (`StopLeavesNothing`).

*Only model-checked.* Liveness under fairness (`ComesBack`, `EverythingEnds`,
`DeadAgentLosesTask`, `ApprovalEnds`, `ClaimsAreReleased`, `RetriedByRestarts`,
the liveness of `ImplementsQueryPromise`), which is out of the prover's reach.
Every invariant and action property that a passing run checks is proved.
Induction over data and recursive operators are out of reach too; no module
declares one.

## Not modelled

* The RPC pool with its bridge and idempotency cache: no node constructs them,
  the relay's handler calls the router directly. The handlers of inbound RPC
  envelopes (cancellation, duplicate ids) are left out of the session's module.
* The in-memory task queue, approval manager and message buffer, which the
  workflow store has superseded.
* Progress notes (`updateTaskProgress`), and how the chat words an outcome.
* Reminders: synchronous maps with one caller at a time, written to the database
  and not read back. From the reading only: `listPending` takes `pending`
  reminders and `snoozeReminder` makes them `snoozed`, so a snoozed reminder is
  not fired again (`core/src/reminders/service.ts:159`, 255), and nothing calls
  `startReminderScheduler`.
* `deliverEventsForTask` and the in-memory repository, which mirror what the node
  uses; the automatic branch of the service handler, which creates the
  delegation at once and has no second party until an agent claims it.
* Pairing, audit, identity, crypto, personas' keys, vault search,
  PII, contacts, trust scores, export, LLM routing, briefing and the user
  interface: sequential CRUD, data transformations and I/O. They are most of the
  repository's lines, and have no order of steps a model checker could get wrong.
* Wording, logging, audit entries and encryption everywhere.
