---------------------------- MODULE D2DExchange ----------------------------
(***************************************************************************)
(* Two nodes exchange sealed messages: a requester sends a service query   *)
(* and a provider answers it, by its bridge or by /v1/service/respond,     *)
(* while ordinary notes reach the provider too.  The module composes       *)
(* sendD2D, the respond route, the query windows of both nodes, the outbox *)
(* and its retry passes, the replay cache, the receive pipeline and the    *)
(* quarantine.  All of it but the approval's row is in memory: a crash     *)
(* loses it.                                                               *)
(*                                                                         *)
(* A message is named by the sendD2D call that builds it: the id and the   *)
(* sealed bytes are made once, and every later copy carries them.  An      *)
(* action is one synchronous block, from one await to the next.  The relay *)
(* may deliver what it took never, late, or any number of times.           *)
(***************************************************************************)
EXTENDS Naturals, FiniteSets

CONSTANTS
  Query,        \* the requester's service.query
  Answer,       \* the sends of the provider's bridge, retries included
  Refusal,      \* the calls of the provider's /v1/service/respond
  Note,         \* ordinary messages of any sender, on their way to the provider
  Pass,         \* calls of retryPendingOutbox that may overlap
  Max_retries,  \* MAX_RETRIES, 5 in the code
  Max_queue,    \* MAX_QUEUE_SIZE, 100 in the code
  MaxFaults     \* bound: crashes, failed deliveries and calls of the respond
                \* route, together

Reply == Answer \cup Refusal
Sealed == {Query} \cup Reply
Msg == Sealed \cup Note
Node == {"requester", "provider"}

ASSUME MessageAssumption ==
  /\ Query \notin Reply \cup Note
  /\ Answer \cap Refusal = {} /\ Reply \cap Note = {}
ASSUME FiniteAssumption == IsFiniteSet(Reply) /\ IsFiniteSet(Pass)
ASSUME BoundAssumption ==
  Max_retries \in Nat \ {0} /\ Max_queue \in Nat /\ MaxFaults \in Nat

VARIABLES
  window,     \* per node, its QueryWindow entry for the query
  lapsed,     \* the nodes whose entry, or the one they had, has expired
  call,       \* per message, where its sendD2D call is
  wire,       \* the messages the relay has taken
  outbox,     \* per message, its entry in its sender's outbox
  pass,       \* per retry pass, the entries of its snapshot still to try
  seen,       \* the replay caches: messages their receiver has recorded
  handed,     \* the provider's Brain was handed the query
  approval,   \* the status of the query's approval, as the route moves it
  refusing,   \* the call of /v1/service/respond that awaits its send
  accepted,   \* responses the requester accepted: 0, 1 or 2 (and more)
  quarantine, \* the provider's quarantined notes
  staged,     \* the provider's staged notes
  crashes     \* per node

queue == <<outbox, pass>>
route == <<approval, refusing>>
receipts == <<seen, handed, accepted, quarantine, staged>>
vars == <<window, lapsed, call, wire, outbox, pass, approval, refusing, seen,
          handed, accepted, quarantine, staged, crashes>>

From(m) == IF m \in Reply THEN "provider" ELSE "requester"
To(m) == IF m \in Reply THEN "requester" ELSE "provider"

NoEntry == [status |-> "none", retryCount |-> 0]
Entry == [status : {"none", "pending", "delivered", "failed"}, retryCount : Nat]

Outbox(n) == {m \in Sealed : From(m) = n /\ outbox[m].status # "none"}

TypeOK ==
  /\ window \in [Node -> {"none", "free", "reserved"}]
  /\ lapsed \subseteq Node
  /\ call \in [Sealed -> {"idle", "checking", "delivering", "sent", "queued",
                       "unqueued", "denied", "dead"}]
  /\ wire \subseteq Msg /\ seen \subseteq Msg
  /\ outbox \in [Sealed -> Entry]
  /\ \A n \in Node : Cardinality(Outbox(n)) <= Max_queue
  /\ pass \in [Pass -> SUBSET Sealed]
  /\ approval \in {"queued", "running", "completed"}
  /\ refusing \subseteq Refusal
  /\ handed \in BOOLEAN /\ accepted \in 0..2
  /\ quarantine \subseteq Note /\ staged \subseteq Note
  /\ crashes \in [Node -> Nat]

(* The calls of /v1/service/respond so far, and the deliveries that failed *)
(* as far as their sender knows.                                           *)
Refused == {m \in Refusal : call[m] # "idle"}
Failed == {m \in Sealed : call[m] \in {"queued", "unqueued"}}

(* The bound, on any mix of faults.                                        *)
FaultLeft ==
  crashes["requester"] + crashes["provider"] + Cardinality(Refused)
    + Cardinality(Failed) < MaxFaults

Init ==
  /\ window = [n \in Node |-> "none"] /\ lapsed = {}
  /\ call = [m \in Sealed |-> "idle"]
  /\ wire = Note /\ seen = {}
  /\ outbox = [m \in Sealed |-> NoEntry]
  /\ pass = [p \in Pass |-> {}]
  /\ approval = "queued" /\ refusing = {}
  /\ handed = FALSE /\ accepted = 0
  /\ quarantine = {} /\ staged = {}
  /\ crashes = [n \in Node |-> 0]

-----------------------------------------------------------------------------
(* QueryWindow, for the one triple of peer, query id and capability.       *)

(* open overwrites whatever entry there is, a reserved one too.            *)
Open(n) ==
  /\ window' = [window EXCEPT ![n] = "free"]
  /\ lapsed' = lapsed \ {n}

Live(n) == window[n] # "none" /\ n \notin lapsed

CanReserve(n) == window[n] = "free" /\ n \notin lapsed

(* commit and release look at the reservation, not at the expiry.          *)
Commit(n) ==
  window' = [window EXCEPT ![n] = IF @ = "reserved" THEN "none" ELSE @]

Release(n) ==
  window' = [window EXCEPT ![n] = IF @ = "reserved" THEN "free" ELSE @]

(* The TTL of an entry runs out.                                           *)
Lapse(n) ==
  /\ window[n] # "none" /\ n \notin lapsed
  /\ lapsed' = lapsed \cup {n}
  /\ UNCHANGED <<window, call, wire, queue, route, receipts, crashes>>

(* The sweep of the expired entries, reserved or not.                      *)
Cleanup(n) ==
  /\ window[n] # "none" /\ n \in lapsed
  /\ window' = [window EXCEPT ![n] = "none"]
  /\ UNCHANGED <<lapsed, call, wire, queue, route, receipts, crashes>>

-----------------------------------------------------------------------------
(* The outbox.                                                             *)

(* Slip: the queue has no limit.                                           *)
EnqueueAny(m) ==
  /\ outbox' = [outbox EXCEPT ![m] = [status |-> "pending", retryCount |-> 0]]
  /\ call' = [call EXCEPT ![m] = "queued"]

(* tryEnqueue: the caller hears of a full queue.                           *)
Enqueue(m) ==
  IF Cardinality(Outbox(From(m))) < Max_queue
  THEN /\ outbox' = [outbox EXCEPT ![m] =
            [status |-> "pending", retryCount |-> 0]]
       /\ call' = [call EXCEPT ![m] = "queued"]
  ELSE /\ call' = [call EXCEPT ![m] = "unqueued"]
       /\ UNCHANGED outbox

MarkDelivered(m) ==
  outbox' = [outbox EXCEPT ![m].status = IF @ = "none" THEN @ ELSE "delivered"]

(* markFailed looks at no status: a delivered entry becomes a failed one.  *)
MarkFailed(m) ==
  outbox' = IF outbox[m].status = "none" THEN outbox
            ELSE [outbox EXCEPT ![m].status = "failed", ![m].retryCount = @ + 1]

ReadyForRetry(n) ==
  {m \in Outbox(n) : /\ outbox[m].status \in {"pending", "failed"}
                     /\ outbox[m].retryCount < Max_retries}

Deletable(n) == {m \in Outbox(n) : outbox[m].status \in {"delivered", "failed"}}

(* resumeAfterApproval takes an entry of any status, keeps its retryCount. *)
ResumeAfterApproval(m) ==
  /\ outbox[m].status # "none"
  /\ outbox' = [outbox EXCEPT ![m].status = "pending"]
  /\ UNCHANGED <<window, lapsed, call, wire, pass, route, receipts, crashes>>

(* Slip: dead letters are picked up again.                                 *)
RetryDeadLetters(p, n, old, due) ==
  /\ pass[p] = {}
  /\ old \subseteq Deletable(n)
  /\ due \subseteq Outbox(n) \ old
  /\ outbox' = [m \in Sealed |-> IF m \in old THEN NoEntry ELSE outbox[m]]
  /\ pass' = [pass EXCEPT ![p] = due]
  /\ UNCHANGED <<window, lapsed, call, wire, route, receipts, crashes>>

(* retryPendingOutbox, up to its first delivery: what is `old', 24 hours,  *)
(* is deleted; of the rest, what is `due', past its backoff, is tried.     *)
(* Nothing keeps a second pass from starting while the first one waits.    *)
RetryPendingOutbox(p, n, old, due) ==
  /\ pass[p] = {}
  /\ old \subseteq Deletable(n)
  /\ due \subseteq ReadyForRetry(n) \ old
  /\ outbox' = [m \in Sealed |-> IF m \in old THEN NoEntry ELSE outbox[m]]
  /\ pass' = [pass EXCEPT ![p] = due]
  /\ UNCHANGED <<window, lapsed, call, wire, route, receipts, crashes>>

(* An attempt of the pass ends.  The order of the snapshot is abstracted.  *)
RetryDelivers(p, m) ==
  /\ m \in pass[p]
  /\ pass' = [pass EXCEPT ![p] = @ \ {m}]
  /\ wire' = wire \cup {m}
  /\ MarkDelivered(m)
  /\ UNCHANGED <<window, lapsed, call, route, receipts, crashes>>

(* What is reported as a failure may have reached the relay all the same.  *)
RetryFails(p, m, took) ==
  /\ m \in pass[p]
  /\ pass' = [pass EXCEPT ![p] = @ \ {m}]
  /\ wire' = IF took THEN wire \cup {m} ELSE wire
  /\ MarkFailed(m)
  /\ UNCHANGED <<window, lapsed, call, route, receipts, crashes>>

-----------------------------------------------------------------------------
(* sendD2D.                                                                *)

(* The call, up to the bypass decision.  The provider's bridge answers a   *)
(* query only after its Brain was handed it; its row survives a crash.     *)
SendD2D(m) ==
  /\ m \notin Refusal /\ call[m] = "idle"
  /\ m \in Answer => handed
  /\ call' = [call EXCEPT ![m] = "checking"]
  /\ UNCHANGED <<window, lapsed, wire, queue, route, receipts, crashes>>

(* The bypass decision or the egress gates refuse, or a response has no    *)
(* window to reserve, or the seal fails: its reservation is released.      *)
Denied(m) ==
  /\ call[m] = "checking"
  /\ call' = [call EXCEPT ![m] = "denied"]
  /\ UNCHANGED <<window, lapsed, wire, queue, route, receipts, crashes>>

(* The seal of a query fails after its requester window was opened.        *)
SealFails ==
  /\ call[Query] = "checking"
  /\ call' = [call EXCEPT ![Query] = "denied"]
  /\ Open("requester")
  /\ UNCHANGED <<wire, queue, route, receipts, crashes>>

(* Slip: the window is read, and not reserved.                             *)
Admit(m) ==
  IF m = Query THEN Open("requester")
  ELSE CanReserve("provider") /\ UNCHANGED <<window, lapsed>>

(* The second block: a response reserves the provider's window, a query    *)
(* opens the requester's.                                                  *)
Claim(m) ==
  IF m = Query THEN Open("requester")
  ELSE /\ CanReserve("provider")
       /\ window' = [window EXCEPT !["provider"] = "reserved"]
       /\ UNCHANGED lapsed

(* ... and the delivery over HTTP begins.                                  *)
BeginDelivery(m) ==
  /\ call[m] = "checking"
  /\ Claim(m)
  /\ call' = [call EXCEPT ![m] = "delivering"]
  /\ UNCHANGED <<wire, queue, route, receipts, crashes>>

(* ... or the WebSocket takes the message in the same block: the window    *)
(* that it reserves is committed at once.                                  *)
DeliverByWS(m) ==
  /\ call[m] = "checking"
  /\ IF m = Query THEN Open("requester")
     ELSE /\ CanReserve("provider")
          /\ window' = [window EXCEPT !["provider"] = "none"]
          /\ UNCHANGED lapsed
  /\ call' = [call EXCEPT ![m] = "sent"]
  /\ wire' = wire \cup {m}
  /\ UNCHANGED <<queue, route, receipts, crashes>>

(* The relay takes a message whose delivery has not been answered.         *)
RelayTakes(m) ==
  /\ call[m] = "delivering" /\ m \notin wire
  /\ wire' = wire \cup {m}
  /\ UNCHANGED <<window, lapsed, call, queue, route, receipts, crashes>>

(* `delivered' or `buffered'.                                              *)
Delivered(m) ==
  /\ call[m] = "delivering" /\ m \in wire
  /\ call' = [call EXCEPT ![m] = "sent"]
  /\ IF m \in Reply THEN Commit("provider") ELSE UNCHANGED window
  /\ UNCHANGED <<lapsed, wire, queue, route, receipts, crashes>>

(* Slip: the window is committed although the delivery failed.             *)
FailedCommits(m) ==
  /\ call[m] = "delivering" /\ FaultLeft
  /\ Enqueue(m)
  /\ IF m \in Reply THEN Commit("provider") ELSE UNCHANGED window
  /\ UNCHANGED <<lapsed, wire, pass, route, receipts, crashes>>

(* Failed, as far as the sender knows: the window is released, for the     *)
(* caller to answer again, and the message is queued as well.              *)
DeliveryFailed(m) ==
  /\ call[m] = "delivering" /\ FaultLeft
  /\ Enqueue(m)
  /\ IF m \in Reply THEN Release("provider") ELSE UNCHANGED window
  /\ UNCHANGED <<lapsed, wire, pass, route, receipts, crashes>>

-----------------------------------------------------------------------------
(* /v1/service/respond.                                                    *)

(* The claim admits one caller at a time, and none after the approval's    *)
(* row is completed, or left running by a crash.  The route then opens the *)
(* provider's window anew, whoever has reserved it or used it up, and      *)
(* starts its send.                                                        *)
Respond(m) ==
  /\ handed /\ approval = "queued" /\ call[m] = "idle" /\ FaultLeft
  /\ approval' = "running" /\ refusing' = {m}
  /\ Open("provider")
  /\ call' = [call EXCEPT ![m] = "checking"]
  /\ UNCHANGED <<wire, queue, receipts, crashes>>

(* The send returns, and the row is completed.  That it was only queued,   *)
(* or denied, is no failure if the node's sender does not throw.           *)
RespondReturns(m) ==
  /\ m \in refusing /\ call[m] \in {"sent", "denied", "queued", "unqueued"}
  /\ approval' = "completed" /\ refusing' = refusing \ {m}
  /\ UNCHANGED <<window, lapsed, call, wire, queue, receipts, crashes>>

(* ... or the sender throws, and the route releases the window, which may  *)
(* be reserved by another send by now, and puts the approval back.         *)
RespondFails(m) ==
  /\ m \in refusing /\ call[m] \in {"denied", "queued", "unqueued"}
  /\ Release("provider")
  /\ approval' = "queued" /\ refusing' = refusing \ {m}
  /\ UNCHANGED <<lapsed, call, wire, queue, receipts, crashes>>

-----------------------------------------------------------------------------
(* receiveD2D.                                                             *)

(* Slip: no replay detection.                                              *)
NotReplayed(m) == m \in wire /\ seen' = seen \cup {m}

(* A copy arrives, one the receiver has not recorded yet; other copies are *)
(* dropped.                                                                *)
FirstCopy(m) == m \in wire \ seen /\ seen' = seen \cup {m}

(* Blocked sender, no such capability, no requester window, scenario       *)
(* policy, a body that is not valid: dropped after it was recorded.        *)
ReceiveDrops(m) ==
  /\ FirstCopy(m)
  /\ UNCHANGED <<window, lapsed, call, wire, queue, route, handed, accepted,
                 quarantine, staged, crashes>>

ReceiveQuery ==
  /\ FirstCopy(Query)
  /\ Open("provider")
  /\ handed' = TRUE
  /\ UNCHANGED <<call, wire, queue, route, accepted, quarantine, staged,
                 crashes>>

(* Slip: the requester's window is peeked at and stays.                    *)
PeekOnly(m) ==
  /\ FirstCopy(m)
  /\ Live("requester")
  /\ accepted' = IF accepted = 2 THEN 2 ELSE accepted + 1
  /\ UNCHANGED <<window, lapsed, call, wire, queue, route, handed, quarantine,
                 staged, crashes>>

(* checkAndConsume, one-shot.                                              *)
ReceiveResponse(m) ==
  /\ FirstCopy(m)
  /\ Live("requester")
  /\ window' = [window EXCEPT !["requester"] = "none"]
  /\ accepted' = IF accepted = 2 THEN 2 ELSE accepted + 1
  /\ UNCHANGED <<lapsed, call, wire, queue, route, handed, quarantine, staged,
                 crashes>>

(* receiveAndStage, for the trust that was read before the payload was     *)
(* opened: whatever the sender's trust was at some time.                   *)
ReceiveNote(m, isContact) ==
  /\ FirstCopy(m)
  /\ IF isContact
     THEN staged' = staged \cup {m} /\ UNCHANGED quarantine
     ELSE quarantine' = quarantine \cup {m} /\ UNCHANGED staged
  /\ UNCHANGED <<window, lapsed, call, wire, queue, route, handed, accepted,
                 crashes>>

(* acceptFromQuarantine and blockFromQuarantine both drop every message of *)
(* the sender; what unquarantineSender returns, the app does not use.      *)
LeaveQuarantine ==
  /\ quarantine # {}
  /\ quarantine' = {}
  /\ UNCHANGED <<window, lapsed, call, wire, queue, route, seen, handed,
                 accepted, staged, crashes>>

(* The 30 days of a quarantined message are over, or it is deleted.        *)
SweepQuarantined(m) ==
  /\ m \in quarantine
  /\ quarantine' = quarantine \ {m}
  /\ UNCHANGED <<window, lapsed, call, wire, queue, route, seen, handed,
                 accepted, staged, crashes>>

-----------------------------------------------------------------------------
(* A node dies: its windows, outbox, passes, replay cache, quarantine and  *)
(* inbox are gone, and the calls it was making.                            *)
Crash(n) ==
  /\ FaultLeft
  /\ crashes' = [crashes EXCEPT ![n] = @ + 1]
  /\ window' = [window EXCEPT ![n] = "none"]
  /\ outbox' = [m \in Sealed |-> IF From(m) = n THEN NoEntry ELSE outbox[m]]
  /\ pass' = [p \in Pass |-> {m \in pass[p] : From(m) # n}]
  /\ seen' = {m \in seen : To(m) # n}
  /\ call' = [m \in Sealed |->
       IF From(m) = n /\ call[m] \in {"checking", "delivering"}
       THEN "dead" ELSE call[m]]
  /\ quarantine' = IF n = "provider" THEN {} ELSE quarantine
  /\ staged' = IF n = "provider" THEN {} ELSE staged
  /\ refusing' = IF n = "provider" THEN {} ELSE refusing
  /\ UNCHANGED <<lapsed, wire, approval, handed, accepted>>

SendStep(m) ==
  SendD2D(m) \/ Denied(m) \/ BeginDelivery(m) \/ DeliverByWS(m) \/ RelayTakes(m)
  \/ Delivered(m) \/ DeliveryFailed(m)

RespondStep(m) == Respond(m) \/ RespondReturns(m) \/ RespondFails(m)

OutboxStep(m) ==
  \/ ResumeAfterApproval(m)
  \/ \E p \in Pass : \/ RetryDelivers(p, m)
                     \/ \E took \in BOOLEAN : RetryFails(p, m, took)

Next ==
  \/ \E m \in Sealed : SendStep(m) \/ OutboxStep(m)
  \/ \E m \in Refusal : RespondStep(m)
  \/ \E m \in Msg : ReceiveDrops(m)
  \/ SealFails \/ ReceiveQuery
  \/ \E m \in Reply : ReceiveResponse(m)
  \/ \E m \in Note : \/ \E isContact \in BOOLEAN : ReceiveNote(m, isContact)
                     \/ SweepQuarantined(m)
  \/ LeaveQuarantine
  \/ \E n \in Node : \/ Lapse(n) \/ Cleanup(n) \/ Crash(n)
                     \/ \E p \in Pass : \E old, due \in SUBSET Outbox(n) :
                          RetryPendingOutbox(p, n, old, due)

Spec == Init /\ [][Next]_vars

-----------------------------------------------------------------------------
(* Properties.                                                             *)

Sending == {m \in Reply : call[m] = "delivering"}
Sent == {m \in Reply : call[m] = "sent"}

(* A response is sent under a reservation, which the query's arrival gives *)
(* once: as long as nobody calls /v1/service/respond, two responses are    *)
(* never under way at once, and each call adds two at most: it opens the   *)
(* window anew, and releases it once more when its send fails.  Also when  *)
(* the query arrives again; and no reservation is left without a send that *)
(* will commit or release it.                                              *)
OneReservation ==
  /\ Cardinality(Sending) <= 1 + 2 * Cardinality(Refused)
  /\ window["provider"] = "reserved" => Sending # {}

(* However often the bridge answers, a life of the provider's node reports *)
(* one response as sent, and two more for each call of the respond route.  *)
OneSent ==
  Cardinality(Sent) <= 1 + crashes["provider"] + 2 * Cardinality(Refused)

(* What QueryWindow.reserve is for: two responses to one query are not     *)
(* under way at once.  The respond route's reopening lets a second one by. *)
OneAtATime == \A c, d \in Sending : c = d

(* A provider's window is used up only by a response that went out: a send *)
(* that fails leaves it for the next one.                                  *)
SpentMeansSent ==
  handed /\ window["provider"] = "none" =>
    \/ "provider" \in lapsed \/ crashes["provider"] > 0
    \/ \E m \in Reply : call[m] = "sent" /\ m \in wire

(* The requester accepts one response to its query, although a failed send *)
(* leaves a copy in the outbox and lets the bridge send another one,       *)
(* although copies repeat, and although either node loses its memory.      *)
OneAcceptance == accepted <= 1

(* Overlapping passes may exceed MAX_RETRIES, by one attempt each.         *)
RetriesBounded ==
  \A m \in Sealed :
    outbox[m].retryCount + Cardinality({p \in Pass : m \in pass[p]})
      <= Max_retries + Cardinality(Pass) - 1

(* A note is quarantined or staged, not both, whatever becomes of its      *)
(* sender's trust between two copies of it.                                *)
OnePlace == quarantine \cap staged = {}
=============================================================================
