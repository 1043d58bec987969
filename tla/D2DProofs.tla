----------------------------- MODULE D2DProofs -----------------------------
(***************************************************************************)
(* Proofs about the exchange of a query, for any number of responses,      *)
(* notes, retry passes and crashes, and any limits of the outbox.          *)
(***************************************************************************)
EXTENDS D2DExchange, FiniteSetTheorems, TLAPS

(* The type invariant without the limit of the outbox, which is apart.     *)
Typed ==
  /\ window \in [Node -> {"none", "free", "reserved"}]
  /\ lapsed \subseteq Node
  /\ call \in [Sealed -> {"idle", "checking", "delivering", "sent", "queued",
                          "unqueued", "denied", "dead"}]
  /\ wire \subseteq Msg /\ seen \subseteq Msg
  /\ outbox \in [Sealed -> Entry]
  /\ pass \in [Pass -> SUBSET Sealed]
  /\ approval \in {"queued", "running", "completed"}
  /\ refusing \subseteq Refusal
  /\ handed \in BOOLEAN /\ accepted \in 0..2
  /\ quarantine \subseteq Note /\ staged \subseteq Note
  /\ crashes \in [Node -> Nat]

QueueOK == \A n \in Node : Cardinality(Outbox(n)) <= Max_queue

LEMMA Names ==
  /\ Query \in Sealed /\ Reply \subseteq Sealed /\ Query \notin Reply
  /\ Refusal \subseteq Reply /\ Answer \subseteq Reply
  /\ From(Query) = "requester" /\ To(Query) = "provider"
  /\ \A m \in Reply : From(m) = "provider" /\ To(m) = "requester"
  /\ \A m \in Note : To(m) = "provider"
  /\ "requester" \in Node /\ "provider" \in Node
BY MessageAssumption DEF Sealed, Reply, From, To, Node

LEMMA InitTyped == Init => Typed
<1> SUFFICES ASSUME Init PROVE Typed
  OBVIOUS
<1>1. NoEntry \in Entry
  BY DEF Entry, NoEntry
<1>3. outbox \in [Sealed -> Entry]
  BY <1>1 DEF Init
<1>4. crashes \in [Node -> Nat]
  BY DEF Init
<1>5. /\ window \in [Node -> {"none", "free", "reserved"}]
      /\ call \in [Sealed -> {"idle", "checking", "delivering", "sent", "queued",
                              "unqueued", "denied", "dead"}]
      /\ pass \in [Pass -> SUBSET Sealed]
  BY DEF Init
<1>6. /\ lapsed \subseteq Node /\ wire \subseteq Msg /\ seen \subseteq Msg
      /\ quarantine \subseteq Note /\ staged \subseteq Note
  BY DEF Init, Msg
<1>7. /\ handed \in BOOLEAN /\ refusing \subseteq Refusal
      /\ approval \in {"queued", "running", "completed"}
  BY DEF Init
<1>8. accepted \in 0..2
  BY DEF Init
<1> QED
  BY <1>3, <1>4, <1>5, <1>6, <1>7, <1>8 DEF Typed

LEMMA EntryStep ==
  ASSUME Typed, NEW m \in Sealed
  PROVE  /\ Enqueue(m) => outbox' \in [Sealed -> Entry]
         /\ MarkDelivered(m) => outbox' \in [Sealed -> Entry]
         /\ MarkFailed(m) => outbox' \in [Sealed -> Entry]
         /\ ResumeAfterApproval(m) => outbox' \in [Sealed -> Entry]
         /\ NoEntry \in Entry
<1>1. outbox \in [Sealed -> Entry] /\ outbox[m] \in Entry
  BY DEF Typed
<1>2. Enqueue(m) => outbox' \in [Sealed -> Entry]
  BY <1>1 DEF Enqueue, Entry
<1>3. MarkDelivered(m) => outbox' \in [Sealed -> Entry]
  BY <1>1 DEF MarkDelivered, Entry
<1>4. MarkFailed(m) => outbox' \in [Sealed -> Entry]
  BY <1>1 DEF MarkFailed, Entry
<1>5. ResumeAfterApproval(m) => outbox' \in [Sealed -> Entry]
  BY <1>1 DEF ResumeAfterApproval, Entry
<1> QED
  BY <1>2, <1>3, <1>4, <1>5 DEF NoEntry, Entry

LEMMA TypedStep == Typed /\ [Next]_vars => Typed'
<1> SUFFICES ASSUME Typed, [Next]_vars PROVE Typed'
  OBVIOUS
<1>1. ASSUME NEW m \in Sealed, SendStep(m) PROVE Typed'
  <2>1. CASE SendD2D(m)
    BY <2>1 DEF Typed, SendD2D, queue, route, receipts
  <2>2. CASE Denied(m)
    BY <2>2 DEF Typed, Denied, queue, route, receipts
  <2>3. CASE BeginDelivery(m)
    BY <2>3, Names DEF Typed, BeginDelivery, Claim, Open, queue, route, receipts
  <2>4. CASE DeliverByWS(m)
    BY <2>4, Names DEF Typed, DeliverByWS, Open, queue, route, receipts, Msg
  <2>5. CASE RelayTakes(m)
    BY <2>5 DEF Typed, RelayTakes, queue, route, receipts, Msg
  <2>6. CASE Delivered(m)
    BY <2>6, Names DEF Typed, Delivered, Commit, queue, route, receipts
  <2>7. CASE DeliveryFailed(m)
    <3>1. outbox' \in [Sealed -> Entry]
      BY <2>7, EntryStep DEF DeliveryFailed
    <3> QED
      BY <2>7, <3>1, Names DEF Typed, DeliveryFailed, Enqueue, Release, route,
         receipts
  <2> QED
    BY <1>1, <2>1, <2>2, <2>3, <2>4, <2>5, <2>6, <2>7 DEF SendStep
<1>2. ASSUME NEW m \in Sealed, OutboxStep(m) PROVE Typed'
  <2>1. CASE ResumeAfterApproval(m)
    BY <2>1, EntryStep DEF Typed, ResumeAfterApproval, route, receipts
  <2>2. ASSUME NEW p \in Pass, RetryDelivers(p, m) PROVE Typed'
    <3>1. outbox' \in [Sealed -> Entry]
      BY <2>2, EntryStep DEF RetryDelivers
    <3> QED
      BY <2>2, <3>1 DEF Typed, RetryDelivers, route, receipts, Msg
  <2>3. ASSUME NEW p \in Pass, NEW took \in BOOLEAN, RetryFails(p, m, took)
        PROVE  Typed'
    <3>1. outbox' \in [Sealed -> Entry]
      BY <2>3, EntryStep DEF RetryFails
    <3> QED
      BY <2>3, <3>1 DEF Typed, RetryFails, route, receipts, Msg
  <2> QED
    BY <1>2, <2>1, <2>2, <2>3 DEF OutboxStep
<1>3. ASSUME NEW m \in Msg, FirstCopy(m) PROVE seen' \subseteq Msg
  BY <1>3 DEF Typed, FirstCopy
<1>4. ASSUME NEW m \in Msg, ReceiveDrops(m) PROVE Typed'
  BY <1>3, <1>4 DEF Typed, ReceiveDrops, queue, route
<1>5. CASE SealFails
  BY <1>5, Names DEF Typed, SealFails, Open, queue, route, receipts
<1>6. CASE ReceiveQuery
  BY <1>3, <1>6, Names DEF Typed, ReceiveQuery, Open, queue, route, Msg
<1>7. ASSUME NEW m \in Reply, ReceiveResponse(m) PROVE Typed'
  BY <1>3, <1>7, Names DEF Typed, ReceiveResponse, queue, route, Msg
<1>8. ASSUME NEW m \in Note, NEW isContact \in BOOLEAN, ReceiveNote(m, isContact)
      PROVE  Typed'
  BY <1>3, <1>8 DEF Typed, ReceiveNote, queue, route, Msg
<1>9. ASSUME NEW m \in Note, SweepQuarantined(m) PROVE Typed'
  BY <1>9 DEF Typed, SweepQuarantined, queue, route
<1>10. CASE LeaveQuarantine
  BY <1>10 DEF Typed, LeaveQuarantine, queue, route
<1>11. ASSUME NEW n \in Node, Lapse(n) \/ Cleanup(n) PROVE Typed'
  BY <1>11 DEF Typed, Lapse, Cleanup, queue, route, receipts
<1>12. ASSUME NEW n \in Node, Crash(n) PROVE Typed'
  <2>1. outbox' \in [Sealed -> Entry]
    BY <1>12, EntryStep, Names DEF Typed, Crash
  <2>2. crashes' \in [Node -> Nat]
    BY <1>12 DEF Typed, Crash
  <2>3. pass' \in [Pass -> SUBSET Sealed] /\ window' \in
          [Node -> {"none", "free", "reserved"}]
    BY <1>12 DEF Typed, Crash
  <2>4. call' \in [Sealed -> {"idle", "checking", "delivering", "sent",
                              "queued", "unqueued", "denied", "dead"}]
    BY <1>12 DEF Typed, Crash
  <2> QED
    BY <1>12, <2>1, <2>2, <2>3, <2>4 DEF Typed, Crash
<1>13. ASSUME NEW n \in Node, NEW p \in Pass, NEW old \in SUBSET Outbox(n),
              NEW due \in SUBSET Outbox(n), RetryPendingOutbox(p, n, old, due)
       PROVE  Typed'
  <2>1. outbox' \in [Sealed -> Entry]
    BY <1>13, EntryStep, Names DEF Typed, RetryPendingOutbox
  <2>2. due \in SUBSET Sealed
    BY DEF Outbox
  <2> QED
    BY <1>13, <2>1, <2>2 DEF Typed, RetryPendingOutbox, route, receipts
<1>14. ASSUME NEW m \in Refusal, RespondStep(m) PROVE Typed'
  <2>1. CASE Respond(m)
    BY <1>14, <2>1, Names DEF Typed, Respond, Open, queue, receipts
  <2>2. CASE RespondReturns(m)
    BY <1>14, <2>2 DEF Typed, RespondReturns, queue, receipts
  <2>3. CASE RespondFails(m)
    BY <1>14, <2>3, Names DEF Typed, RespondFails, Release, queue, receipts
  <2> QED
    BY <1>14, <2>1, <2>2, <2>3 DEF RespondStep
<1>15. CASE UNCHANGED vars
  BY <1>15 DEF Typed, vars
<1> QED
  BY <1>1, <1>2, <1>4, <1>5, <1>6, <1>7, <1>8, <1>9, <1>10, <1>11, <1>12,
     <1>13, <1>14, <1>15 DEF Next

LEMMA FiniteOutbox == \A n \in Node : IsFiniteSet(Outbox(n))
<1>1. IsFiniteSet(Sealed)
  BY FiniteAssumption, FS_AddElement DEF Sealed
<1>2. \A n \in Node : Outbox(n) \subseteq Sealed
  BY DEF Outbox
<1> QED
  BY <1>1, <1>2, FS_Subset

LEMMA InitQueue == Init => QueueOK
<1> SUFFICES ASSUME Init, NEW n \in Node PROVE Cardinality(Outbox(n)) <= Max_queue
  BY DEF QueueOK
<1>1. Outbox(n) = {}
  BY DEF Init, Outbox, NoEntry
<1> QED
  BY <1>1, FS_EmptySet, BoundAssumption

(* Steps that bring no new entry keep the limit.                           *)
LEMMA NoNewEntry ==
  ASSUME QueueOK,
         \A m \in Sealed : outbox'[m].status # "none" => outbox[m].status # "none"
  PROVE  QueueOK'
<1> SUFFICES ASSUME NEW n \in Node PROVE Cardinality(Outbox(n)') <= Max_queue
  BY DEF QueueOK
<1>1. Outbox(n)' \subseteq Outbox(n)
  BY DEF Outbox
<1>2. Cardinality(Outbox(n)') <= Cardinality(Outbox(n)) /\ IsFiniteSet(Outbox(n)')
  BY <1>1, FiniteOutbox, FS_Subset
<1>3. Cardinality(Outbox(n)) \in Nat /\ Cardinality(Outbox(n)') \in Nat
  BY <1>2, FiniteOutbox, FS_CardinalityType
<1> QED
  BY <1>2, <1>3, BoundAssumption DEF QueueOK

LEMMA EnqueueKeepsLimit ==
  ASSUME Typed, QueueOK, NEW m \in Sealed, Enqueue(m)
  PROVE  QueueOK'
<1> SUFFICES ASSUME NEW n \in Node PROVE Cardinality(Outbox(n)') <= Max_queue
  BY DEF QueueOK
<1>1. CASE Cardinality(Outbox(From(m))) < Max_queue
  <2>1. /\ outbox'[m].status = "pending"
        /\ \A k \in Sealed \ {m} : outbox'[k] = outbox[k]
    BY <1>1 DEF Typed, Enqueue
  <2>2. CASE n = From(m)
    <3>1. Outbox(n)' = Outbox(n) \cup {m}
      BY <2>1, <2>2 DEF Outbox
    <3>2. \/ Cardinality(Outbox(n)') = Cardinality(Outbox(n))
          \/ Cardinality(Outbox(n)') = Cardinality(Outbox(n)) + 1
      BY <3>1, FiniteOutbox, FS_AddElement
    <3>3. IsFiniteSet(Outbox(n)')
      BY <3>1, FiniteOutbox, FS_AddElement
    <3>4. Cardinality(Outbox(n)) \in Nat /\ Cardinality(Outbox(n)') \in Nat
      BY <3>3, FiniteOutbox, FS_CardinalityType
    <3> QED
      BY <1>1, <2>2, <3>2, <3>4, BoundAssumption
  <2>3. CASE n # From(m)
    <3>1. Outbox(n)' = Outbox(n)
      BY <2>1, <2>3 DEF Outbox
    <3> QED
      BY <3>1 DEF QueueOK
  <2> QED
    BY <2>2, <2>3
<1>2. CASE ~(Cardinality(Outbox(From(m))) < Max_queue)
  <2>1. Outbox(n)' = Outbox(n)
    BY <1>2 DEF Enqueue, Outbox
  <2> QED
    BY <2>1 DEF QueueOK
<1> QED
  BY <1>1, <1>2

LEMMA QueueStep ==
  ASSUME Typed, QueueOK, [Next]_vars
  PROVE  QueueOK'
<1> DEFINE Fewer ==
  \A m \in Sealed : outbox'[m].status # "none" => outbox[m].status # "none"
<1>1. outbox \in [Sealed -> Entry]
  BY DEF Typed
<1>2. ASSUME NEW m \in Sealed, SendStep(m), ~DeliveryFailed(m) PROVE Fewer
  BY <1>2 DEF SendStep, SendD2D, Denied, BeginDelivery, DeliverByWS, RelayTakes,
              Delivered, queue
<1>3. ASSUME NEW m \in Sealed, DeliveryFailed(m) PROVE QueueOK'
  BY <1>3, EnqueueKeepsLimit DEF DeliveryFailed
<1>4. ASSUME NEW m \in Sealed, OutboxStep(m) PROVE Fewer
  <2>1. CASE ResumeAfterApproval(m)
    BY <1>1, <2>1 DEF ResumeAfterApproval, Entry
  <2>2. CASE MarkDelivered(m)
    BY <1>1, <2>2 DEF MarkDelivered, Entry
  <2>3. CASE MarkFailed(m)
    BY <1>1, <2>3 DEF MarkFailed, Entry
  <2> QED
    BY <1>4, <2>1, <2>2, <2>3 DEF OutboxStep, RetryDelivers, RetryFails
<1>5. ASSUME UNCHANGED outbox PROVE Fewer
  BY <1>5
<1>6. ASSUME NEW n \in Node, Crash(n) PROVE Fewer
  BY <1>6 DEF Crash, NoEntry
<1>7. ASSUME NEW n \in Node, NEW p \in Pass, NEW old \in SUBSET Outbox(n),
             NEW due \in SUBSET Outbox(n), RetryPendingOutbox(p, n, old, due)
      PROVE  Fewer
  BY <1>7 DEF RetryPendingOutbox, NoEntry
<1> HIDE DEF Fewer
<1>8. Fewer \/ QueueOK'
  BY <1>2, <1>3, <1>4, <1>5, <1>6, <1>7
     DEF Next, RespondStep, Respond, RespondReturns, RespondFails,
        ReceiveDrops, SealFails, ReceiveQuery, ReceiveResponse,
         ReceiveNote, SweepQuarantined, LeaveQuarantine, Lapse, Cleanup, queue,
         vars
<1> QED
  BY <1>8, NoNewEntry DEF Fewer

LEMMA TypeInvariant == Spec => [](Typed /\ QueueOK)
<1>1. Typed /\ QueueOK /\ [Next]_vars => Typed' /\ QueueOK'
  BY TypedStep, QueueStep
<1> QED
  BY <1>1, InitTyped, InitQueue, PTL DEF Spec

(* The exchange keeps its types, and no outbox goes beyond MAX_QUEUE_SIZE. *)
THEOREM TypeCorrect == Spec => []TypeOK
<1>1. Typed /\ QueueOK => TypeOK
  BY DEF Typed, QueueOK, TypeOK
<1> QED
  BY <1>1, TypeInvariant, PTL

-----------------------------------------------------------------------------
(* The requester accepts one response: its window is opened by the query,  *)
(* whose call opens it once, and the first response takes it away.         *)

AcceptInv ==
  /\ accepted <= 1
  /\ accepted > 0 \/ window["requester"] # "none" =>
       call[Query] \notin {"idle", "checking"}
  /\ window["requester"] # "none" => accepted = 0

(* Nothing that the requester's acceptance depends on moves.               *)
LEMMA AcceptStill ==
  ASSUME AcceptInv, accepted' = accepted, call'[Query] = call[Query],
         window'["requester"] = window["requester"]
         \/ window'["requester"] = "none"
  PROVE  AcceptInv'
BY DEF AcceptInv

LEMMA AcceptStep ==
  ASSUME Typed, AcceptInv, [Next]_vars
  PROVE  AcceptInv'
<1>1. ASSUME UNCHANGED <<accepted, call, window>> PROVE AcceptInv'
  BY <1>1, AcceptStill
<1>2. ASSUME NEW m \in Sealed, SendStep(m) PROVE AcceptInv'
  <2>1. CASE m = Query
    <3>1. CASE SendD2D(m) \/ Denied(m)
      BY <2>1, <3>1, Names DEF Typed, AcceptInv, SendD2D, Denied, route,
         receipts
    <3>2. CASE BeginDelivery(m) \/ DeliverByWS(m)
      BY <2>1, <3>2, Names
         DEF Typed, AcceptInv, BeginDelivery, DeliverByWS, Claim, Open, route,
            receipts
    <3>3. CASE RelayTakes(m) \/ Delivered(m)
      BY <2>1, <3>3, Names DEF Typed, AcceptInv, RelayTakes, Delivered, route,
         receipts
    <3>4. CASE DeliveryFailed(m)
      BY <2>1, <3>4, Names DEF Typed, AcceptInv, DeliveryFailed, Enqueue,
         route, receipts
    <3> QED
      BY <1>2, <3>1, <3>2, <3>3, <3>4 DEF SendStep
  <2>2. CASE m # Query
    <3>1. m \in Reply /\ accepted' = accepted
      BY <1>2, <2>2 DEF Sealed, SendStep, SendD2D, Denied, BeginDelivery,
         DeliverByWS, RelayTakes, Delivered, DeliveryFailed, route, receipts
    <3>2. call'[Query] = call[Query]
      BY <1>2, <2>2, Names DEF Typed, SendStep, SendD2D, Denied, BeginDelivery,
         DeliverByWS, RelayTakes, Delivered, DeliveryFailed, Enqueue
    <3>3. window'["requester"] = window["requester"]
      BY <1>2, <2>2, <3>1, Names DEF Typed, SendStep, SendD2D, Denied,
         BeginDelivery, Claim, DeliverByWS, RelayTakes, Delivered, Commit,
         DeliveryFailed, Release
    <3> QED
      BY <3>1, <3>2, <3>3, AcceptStill
  <2> QED
    BY <2>1, <2>2
<1>3. CASE SealFails
  BY <1>3, Names DEF Typed, AcceptInv, SealFails, Open, route, receipts
<1>4. CASE ReceiveQuery
  BY <1>4, Names, AcceptStill DEF Typed, ReceiveQuery, Open
<1>5. ASSUME NEW m \in Reply, ReceiveResponse(m) PROVE AcceptInv'
  BY <1>5, Names DEF Typed, AcceptInv, ReceiveResponse, Live
<1>6. ASSUME NEW n \in Node, Cleanup(n) PROVE AcceptInv'
  BY <1>6, Names, AcceptStill DEF Typed, Cleanup, route, receipts
<1>7. ASSUME NEW n \in Node, Crash(n) PROVE AcceptInv'
  BY <1>7, Names DEF Typed, AcceptInv, Crash
<1>8. ASSUME NEW m \in Refusal, RespondStep(m) PROVE AcceptInv'
  <2>1. m # Query /\ accepted' = accepted
    BY <1>8, Names DEF RespondStep, Respond, RespondReturns, RespondFails,
       receipts
  <2>2. call'[Query] = call[Query] /\ window'["requester"] = window["requester"]
    BY <1>8, <2>1, Names DEF Typed, RespondStep, Respond, RespondReturns,
       RespondFails, Open, Release
  <2> QED
    BY <2>1, <2>2, AcceptStill
<1> QED
  BY <1>1, <1>2, <1>3, <1>4, <1>5, <1>6, <1>7, <1>8
     DEF Next, OutboxStep, ResumeAfterApproval, RetryDelivers, RetryFails,
         ReceiveDrops, ReceiveNote, SweepQuarantined, LeaveQuarantine, Lapse,
         RetryPendingOutbox, route, receipts, vars

(* The requester accepts at most one response to its query, whatever       *)
(* failed sends, retries, copies and crashes there are.                    *)
THEOREM OneResponseAccepted == Spec => []OneAcceptance
<1>1. Init => AcceptInv
  BY Names DEF Init, AcceptInv
<1>2. AcceptInv => OneAcceptance
  BY DEF AcceptInv, OneAcceptance
<1> QED
  BY <1>1, <1>2, AcceptStep, TypeInvariant, PTL DEF Spec

-----------------------------------------------------------------------------
(* The provider's window.  A response takes its turn from a window that is *)
(* free; the query's arrival frees it once in a life of the node, a call   *)
(* of the respond route once more and, when its send fails, a third time:  *)
(* until it has returned, the call keeps that turn in reserve.             *)

Free == IF window["provider"] = "free" THEN 1 ELSE 0
Asked == IF Query \in seen THEN 1 ELSE 0

TurnInv ==
  /\ window["provider"] = "reserved" => Sending # {}
  /\ Cardinality(Sending) + Free + Cardinality(refusing)
       <= Asked + 2 * Cardinality(Refused)
  /\ Cardinality(Sent) + Cardinality(Sending) + Free + Cardinality(refusing)
       <= crashes["provider"] + Asked + 2 * Cardinality(Refused)

LEMMA TurnType ==
  ASSUME Typed
  PROVE  /\ IsFiniteSet(Sent) /\ Cardinality(Sent) \in Nat
         /\ IsFiniteSet(Sending) /\ Cardinality(Sending) \in Nat
         /\ IsFiniteSet(Refused) /\ Cardinality(Refused) \in Nat
         /\ IsFiniteSet(refusing) /\ Cardinality(refusing) \in Nat
         /\ Free \in 0..1 /\ Asked \in 0..1 /\ crashes["provider"] \in Nat
<1>1. /\ Sent \in SUBSET Reply /\ Sending \in SUBSET Reply
      /\ Refused \in SUBSET Reply /\ refusing \in SUBSET Reply
  BY Names DEF Sent, Sending, Refused, Typed
<1>2. \A S \in SUBSET Reply : IsFiniteSet(S) /\ Cardinality(S) \in Nat
  BY FiniteAssumption, FS_Subset, FS_CardinalityType
<1>3. crashes["provider"] \in Nat
  BY Names DEF Typed
<1> QED
  BY <1>1, <1>2, <1>3 DEF Free, Asked

(* Nothing is freed, sent or forgotten.                                    *)
LEMMA TurnStill ==
  ASSUME Typed, Typed', TurnInv, Sent' = Sent, Sending' = Sending,
         Refused' = Refused, refusing' = refusing, Asked <= Asked',
         window'["provider"] = window["provider"] \/ window'["provider"] = "none",
         crashes'["provider"] = crashes["provider"]
  PROVE  TurnInv'
<1>1. Free' <= Free
  BY DEF Free
<1>2. /\ Free' \in 0..1 /\ Asked' \in 0..1
      /\ Cardinality(Sent)' = Cardinality(Sent)
      /\ Cardinality(Sending)' = Cardinality(Sending)
      /\ Cardinality(Refused)' = Cardinality(Refused)
      /\ Cardinality(refusing)' = Cardinality(refusing)
  BY DEF Free, Asked
<1> QED
  BY <1>1, <1>2, TurnType DEF TurnInv

(* A block of sendD2D for a response.                                      *)
LEMMA TurnSend ==
  ASSUME Typed, Typed', TurnInv, NEW m \in Reply, SendStep(m)
  PROVE  TurnInv'
<1>1. m \in Sealed
  BY Names
<1>2. /\ Asked' = Asked /\ crashes' = crashes /\ refusing' = refusing
      /\ \A r \in Reply \ {m} : call'[r] = call[r]
  <2>1. Asked' = Asked /\ crashes' = crashes /\ refusing' = refusing
    BY DEF SendStep, SendD2D, Denied, BeginDelivery, DeliverByWS, RelayTakes,
       Delivered, DeliveryFailed, receipts, route, Asked
  <2>2. \A r \in Reply \ {m} : call'[r] = call[r]
    BY <1>1, Names DEF Typed, SendStep, SendD2D, Denied, BeginDelivery,
       DeliverByWS, RelayTakes, Delivered, DeliveryFailed, Enqueue
  <2> QED
    BY <2>1, <2>2
<1>3. Refused' = Refused
  <2>1. m \in Refusal => call[m] # "idle" /\ call'[m] # "idle"
    BY <1>1 DEF Typed, SendStep, SendD2D, Denied, BeginDelivery, DeliverByWS,
       RelayTakes, Delivered, DeliveryFailed, Enqueue
  <2> QED
    BY <1>2, <2>1, Names DEF Refused
<1>4. /\ Cardinality(Refused)' = Cardinality(Refused)
      /\ Cardinality(refusing)' = Cardinality(refusing)
      /\ Free' \in 0..1
  BY <1>2, <1>3 DEF Free
<1>5. CASE SendD2D(m) \/ Denied(m) \/ RelayTakes(m)
  <2>1. /\ call'[m] = "delivering" <=> call[m] = "delivering"
        /\ call'[m] = "sent" <=> call[m] = "sent"
    BY <1>1, <1>5 DEF Typed, SendD2D, Denied, RelayTakes
  <2>2. Sent' = Sent /\ Sending' = Sending
    BY <1>2, <2>1 DEF Sent, Sending
  <2>3. window' = window
    BY <1>5 DEF SendD2D, Denied, RelayTakes
  <2> QED
    BY <1>2, <1>3, <2>2, <2>3, TurnStill, TurnType
<1>6. CASE BeginDelivery(m)
  <2>1. Sent' = Sent /\ Sending' = Sending \cup {m} /\ m \notin Sending
    BY <1>1, <1>2, <1>6 DEF Typed, BeginDelivery, Sent, Sending
  <2>2. Free = 1 /\ Free' = 0
    BY <1>6, Names DEF Typed, BeginDelivery, Claim, CanReserve, Free
  <2>3. /\ Cardinality(Sending)' = Cardinality(Sending) + 1
        /\ Cardinality(Sent)' = Cardinality(Sent)
    BY <2>1, TurnType, FS_AddElement
  <2> QED
    BY <1>2, <1>4, <2>1, <2>2, <2>3, TurnType DEF TurnInv
<1>7. CASE DeliverByWS(m)
  <2>1. Sent' = Sent \cup {m} /\ Sending' = Sending /\ m \notin Sent
    BY <1>1, <1>2, <1>7 DEF Typed, DeliverByWS, Sent, Sending
  <2>2. Free = 1 /\ window'["provider"] = "none"
    BY <1>7, Names DEF Typed, DeliverByWS, CanReserve, Free
  <2>3. Free' = 0
    BY <2>2 DEF Free
  <2>4. /\ Cardinality(Sent)' = Cardinality(Sent) + 1
        /\ Cardinality(Sending)' = Cardinality(Sending)
    BY <2>1, TurnType, FS_AddElement
  <2> QED
    BY <1>2, <1>4, <2>2, <2>3, <2>4, TurnType DEF TurnInv
<1>8. CASE Delivered(m)
  <2>1. /\ Sent' = Sent \cup {m} /\ m \notin Sent
        /\ Sending' = Sending \ {m} /\ m \in Sending
    BY <1>1, <1>2, <1>8 DEF Typed, Delivered, Sent, Sending
  <2>2. Free' = Free /\ window'["provider"] # "reserved"
    BY <1>8, Names DEF Typed, Delivered, Commit, Free
  <2>3. /\ Cardinality(Sent)' = Cardinality(Sent) + 1
        /\ Cardinality(Sending)' = Cardinality(Sending) - 1
    BY <2>1, TurnType, FS_AddElement, FS_RemoveElement
  <2> QED
    BY <1>2, <1>4, <2>2, <2>3, TurnType DEF TurnInv
<1>9. CASE DeliveryFailed(m)
  <2>1. Sent' = Sent /\ Sending' = Sending \ {m} /\ m \in Sending
    BY <1>1, <1>2, <1>9 DEF Typed, DeliveryFailed, Enqueue, Sent, Sending
  <2>2. window'["provider"] # "reserved"
    BY <1>9, Names DEF Typed, DeliveryFailed, Release
  <2>3. /\ Cardinality(Sent)' = Cardinality(Sent)
        /\ Cardinality(Sending)' = Cardinality(Sending) - 1
    BY <2>1, TurnType, FS_RemoveElement
  <2>4. Free' <= Free + 1
    BY <1>4, TurnType
  <2> QED
    BY <1>2, <1>4, <2>2, <2>3, <2>4, TurnType DEF TurnInv
<1> QED
  BY <1>5, <1>6, <1>7, <1>8, <1>9 DEF SendStep

(* The respond route: its call brings two turns, and keeps one of them     *)
(* until it returns.                                                       *)
LEMMA TurnRespond ==
  ASSUME Typed, Typed', TurnInv, NEW m \in Refusal, RespondStep(m)
  PROVE  TurnInv'
<1>1. m \in Sealed /\ Free' \in 0..1
  BY Names DEF Free
<1>2. /\ Asked' = Asked /\ crashes' = crashes
      /\ Sent' = Sent /\ Sending' = Sending
  <2>1. Asked' = Asked /\ crashes' = crashes
    BY DEF RespondStep, Respond, RespondReturns, RespondFails, receipts, Asked
  <2>2. \A r \in Reply : /\ call'[r] = "delivering" <=> call[r] = "delivering"
                         /\ call'[r] = "sent" <=> call[r] = "sent"
    BY <1>1, Names DEF Typed, RespondStep, Respond, RespondReturns, RespondFails
  <2> QED
    BY <2>1, <2>2 DEF Sent, Sending
<1>3. /\ Cardinality(Sent)' = Cardinality(Sent)
      /\ Cardinality(Sending)' = Cardinality(Sending)
  BY <1>2
<1>4. CASE Respond(m)
  <2>1. Refused' = Refused \cup {m} /\ m \notin Refused
    BY <1>1, <1>4, Names DEF Typed, Respond, Refused
  <2>2. Cardinality(Refused)' = Cardinality(Refused) + 1
    BY <2>1, TurnType, FS_AddElement
  <2>3. Cardinality(refusing)' = 1
    BY <1>4, FS_Singleton DEF Respond
  <2>4. window'["provider"] # "reserved"
    BY <1>4, Names DEF Typed, Respond, Open
  <2> QED
    BY <1>1, <1>2, <1>3, <2>2, <2>3, <2>4, TurnType DEF TurnInv
<1>5. CASE RespondReturns(m) \/ RespondFails(m)
  <2>1. refusing' = refusing \ {m} /\ m \in refusing /\ call' = call
    BY <1>5 DEF RespondReturns, RespondFails
  <2>2. /\ Cardinality(refusing)' = Cardinality(refusing) - 1
        /\ Cardinality(Refused)' = Cardinality(Refused)
    BY <2>1, TurnType, FS_RemoveElement DEF Refused
  <2>3. window' = window \/ window'["provider"] # "reserved"
    BY <1>5, Names DEF Typed, RespondReturns, RespondFails, Release
  <2> QED
    BY <1>1, <1>2, <1>3, <2>2, <2>3, TurnType DEF TurnInv
<1> QED
  BY <1>4, <1>5 DEF RespondStep

LEMMA TurnStep ==
  ASSUME Typed, Typed', TurnInv, [Next]_vars
  PROVE  TurnInv'
<1>1. ASSUME UNCHANGED <<call, refusing, crashes>>, seen \subseteq seen',
             window'["provider"] = window["provider"]
             \/ window'["provider"] = "none"
      PROVE  TurnInv'
  <2>1. /\ Sent' = Sent /\ Sending' = Sending /\ Refused' = Refused
        /\ Asked <= Asked'
    BY <1>1 DEF Sent, Sending, Refused, Asked
  <2> QED
    BY <1>1, <2>1, TurnStill
<1>2. ASSUME NEW m \in Sealed, SendStep(m) PROVE TurnInv'
  <2>1. CASE m = Query
    <3>1. \A r \in Reply : call'[r] = call[r]
      BY <1>2, <2>1, Names DEF Typed, SendStep, SendD2D, Denied, BeginDelivery,
         DeliverByWS, RelayTakes, Delivered, DeliveryFailed, Enqueue
    <3>2. window'["provider"] = window["provider"]
      BY <1>2, <2>1, Names DEF Typed, SendStep, SendD2D, Denied, BeginDelivery,
         Claim, Open, DeliverByWS, RelayTakes, Delivered, DeliveryFailed
    <3>3. Sent' = Sent /\ Sending' = Sending /\ Refused' = Refused
      BY <3>1, Names DEF Sent, Sending, Refused
    <3>4. Asked' = Asked /\ crashes' = crashes /\ refusing' = refusing
      BY <1>2 DEF SendStep, SendD2D, Denied, BeginDelivery, DeliverByWS,
         RelayTakes, Delivered, DeliveryFailed, receipts, route, Asked
    <3> QED
      BY <3>2, <3>3, <3>4, TurnStill, TurnType
  <2>2. CASE m # Query
    BY <1>2, <2>2, TurnSend DEF Sealed
  <2> QED
    BY <2>1, <2>2
<1>3. CASE SealFails
  <2>1. /\ \A r \in Reply : call'[r] = call[r]
        /\ window'["provider"] = window["provider"]
        /\ Asked' = Asked /\ crashes' = crashes /\ refusing' = refusing
    BY <1>3, Names DEF Typed, SealFails, Open, receipts, route, Asked
  <2>2. Sent' = Sent /\ Sending' = Sending /\ Refused' = Refused
    BY <2>1, Names DEF Sent, Sending, Refused
  <2> QED
    BY <2>1, <2>2, TurnStill, TurnType
<1>4. CASE ReceiveQuery
  <2>1. Asked = 0 /\ Asked' = 1
    BY <1>4 DEF ReceiveQuery, FirstCopy, Asked
  <2>2. /\ call' = call /\ refusing' = refusing /\ crashes' = crashes
        /\ window'["provider"] = "free"
    BY <1>4, Names DEF Typed, ReceiveQuery, Open, route
  <2>3. Sent' = Sent /\ Sending' = Sending /\ Refused' = Refused /\ Free' = 1
    BY <2>2 DEF Sent, Sending, Refused, Free
  <2>4. /\ Cardinality(Sent)' = Cardinality(Sent)
        /\ Cardinality(Sending)' = Cardinality(Sending)
        /\ Cardinality(Refused)' = Cardinality(Refused)
        /\ Cardinality(refusing)' = Cardinality(refusing)
    BY <2>2, <2>3
  <2> QED
    BY <2>1, <2>2, <2>3, <2>4, TurnType DEF TurnInv
<1>5. ASSUME NEW m \in Msg, ReceiveDrops(m) PROVE TurnInv'
  BY <1>1, <1>5 DEF ReceiveDrops, FirstCopy, route
<1>6. ASSUME NEW m \in Reply, ReceiveResponse(m) PROVE TurnInv'
  BY <1>1, <1>6, Names DEF Typed, ReceiveResponse, FirstCopy, route
<1>7. ASSUME NEW m \in Note, NEW c \in BOOLEAN, ReceiveNote(m, c) PROVE TurnInv'
  BY <1>1, <1>7 DEF ReceiveNote, FirstCopy, route
<1>8. ASSUME NEW n \in Node, Cleanup(n) PROVE TurnInv'
  BY <1>1, <1>8, Names DEF Typed, Cleanup, receipts, route
<1>9. ASSUME NEW n \in Node, Crash(n) PROVE TurnInv'
  <2>1. /\ \A r \in Reply : call'[r] = "sent" <=> call[r] = "sent"
        /\ \A r \in Reply : call'[r] = "idle" <=> call[r] = "idle"
    BY <1>9, Names DEF Typed, Crash
  <2>2. Sent' = Sent /\ Refused' = Refused
    BY <2>1, Names DEF Sent, Refused
  <2>3. CASE n = "provider"
    <3>1. /\ crashes'["provider"] = crashes["provider"] + 1
          /\ window'["provider"] = "none" /\ Sending' = {} /\ refusing' = {}
      BY <1>9, <2>3, Names DEF Typed, Crash, Sending
    <3>2. Free' = 0 /\ Cardinality(Sending)' = 0 /\ Cardinality(refusing)' = 0
      BY <3>1, FS_EmptySet DEF Free
    <3>3. /\ Cardinality(Sent)' = Cardinality(Sent)
          /\ Cardinality(Refused)' = Cardinality(Refused)
          /\ Asked' \in 0..1
      BY <2>2 DEF Asked
    <3> QED
      BY <3>1, <3>2, <3>3, TurnType DEF TurnInv
  <2>4. CASE n = "requester"
    <3>1. /\ crashes'["provider"] = crashes["provider"]
          /\ window'["provider"] = window["provider"] /\ refusing' = refusing
          /\ Query \in seen => Query \in seen'
      BY <1>9, <2>4, Names DEF Typed, Crash
    <3>2. \A r \in Reply : call'[r] = call[r]
      BY <1>9, <2>4, Names DEF Typed, Crash
    <3>3. Sending' = Sending /\ Asked <= Asked'
      BY <3>1, <3>2 DEF Sending, Asked
    <3> QED
      BY <2>2, <3>1, <3>3, TurnStill
  <2> QED
    BY <2>3, <2>4 DEF Node
<1>10. ASSUME NEW m \in Sealed, OutboxStep(m) PROVE TurnInv'
  BY <1>1, <1>10 DEF OutboxStep, ResumeAfterApproval, RetryDelivers, RetryFails,
     receipts, route
<1>11. ASSUME NEW m \in Refusal, RespondStep(m) PROVE TurnInv'
  BY <1>11, TurnRespond
<1> QED
  BY <1>1, <1>2, <1>3, <1>4, <1>5, <1>6, <1>7, <1>8, <1>9, <1>10, <1>11
     DEF Next, SweepQuarantined, LeaveQuarantine, Lapse, RetryPendingOutbox,
         receipts, route, vars

LEMMA TurnInvariant == Spec => [](Typed /\ TurnInv)
<1>1. Init => TurnInv
  <2> SUFFICES ASSUME Init PROVE TurnInv
    OBVIOUS
  <2>1. Sent = {} /\ Sending = {} /\ Refused = {} /\ refusing = {} /\ Free = 0
    BY Names DEF Init, Sent, Sending, Refused, Free
  <2>2. Asked = 0 /\ crashes["provider"] = 0 /\ window["provider"] = "none"
    BY Names DEF Init, Asked
  <2> QED
    BY <2>1, <2>2, FS_EmptySet DEF TurnInv
<1>2. Typed /\ Typed' /\ TurnInv /\ [Next]_vars => TurnInv'
  BY TurnStep
<1> QED
  BY <1>1, <1>2, TypeInvariant, PTL DEF Spec

(* Two responses are under way at once only after a call of the respond    *)
(* route, and then by two more for each call at most; a reservation always *)
(* has a response that will commit or release it.                          *)
THEOREM ReservationHasOwner == Spec => []OneReservation
<1>1. Typed /\ TurnInv => OneReservation
  BY TurnType DEF TurnInv, OneReservation
<1> QED
  BY <1>1, TurnInvariant, PTL

(* However often the bridge answers, a life of the provider's node reports *)
(* one response as sent, and two more for each call of the respond route.  *)
THEOREM OneResponseSent == Spec => []OneSent
<1>1. Typed /\ TurnInv => OneSent
  BY TurnType DEF TurnInv, OneSent
<1> QED
  BY <1>1, TurnInvariant, PTL

-----------------------------------------------------------------------------
(* A provider's window is used up by what was sent.                        *)

LEMMA SpentStill ==
  ASSUME SpentMeansSent, handed' = handed, crashes' = crashes,
     wire \subseteq wire',
         "provider" \in lapsed => "provider" \in lapsed',
         window'["provider"] = "none" => window["provider"] = "none",
         \A m \in Reply : call[m] = "sent" => call'[m] = "sent"
  PROVE  SpentMeansSent'
BY DEF SpentMeansSent

LEMMA SpentStep ==
  ASSUME Typed, SpentMeansSent, [Next]_vars
  PROVE  SpentMeansSent'
<1>1. ASSUME UNCHANGED <<handed, crashes, window, lapsed, call>>, wire \subseteq wire'
      PROVE  SpentMeansSent'
  BY <1>1, SpentStill
<1>2. ASSUME NEW m \in Sealed, SendStep(m) PROVE SpentMeansSent'
  <2>1. handed' = handed /\ crashes' = crashes /\ wire \subseteq wire'
    BY <1>2 DEF SendStep, SendD2D, Denied, BeginDelivery, DeliverByWS,
       RelayTakes,
                Delivered, DeliveryFailed, route, receipts
  <2>2. \A r \in Reply : call[r] = "sent" => call'[r] = "sent"
    <3>1. CASE DeliveryFailed(m)
      BY <3>1, Names DEF Typed, DeliveryFailed, Enqueue
    <3>2. CASE ~DeliveryFailed(m)
      BY <1>2, <3>2, Names DEF Typed, SendStep, SendD2D, Denied, BeginDelivery,
         DeliverByWS, RelayTakes, Delivered
    <3> QED
      BY <3>1, <3>2
  <2>3. "provider" \in lapsed => "provider" \in lapsed'
    BY <1>2, Names DEF SendStep, SendD2D, Denied, BeginDelivery, Claim, Open,
       DeliverByWS, RelayTakes, Delivered, DeliveryFailed
  <2>4. CASE m \in Reply /\ DeliverByWS(m)
    BY <2>4, Names DEF Typed, DeliverByWS, SpentMeansSent
  <2>5. CASE m \in Reply /\ Delivered(m)
    BY <2>5, Names DEF Typed, Delivered, SpentMeansSent
  <2>6. CASE m \notin Reply \/ ~(DeliverByWS(m) \/ Delivered(m))
    <3>1. window'["provider"] = "none" => window["provider"] = "none"
      BY <1>2, <2>6, Names DEF Typed, Sealed, SendStep, SendD2D, Denied,
         BeginDelivery, Claim, Open, DeliverByWS, RelayTakes, Delivered,
         DeliveryFailed, Release
    <3> QED
      BY <2>1, <2>2, <2>3, <3>1, SpentStill
  <2> QED
    BY <2>4, <2>5, <2>6
<1>3. CASE SealFails
  BY <1>3, Names, SpentStill DEF Typed, SealFails, Open, route, receipts
<1>4. CASE ReceiveQuery
  BY <1>4, Names DEF Typed, SpentMeansSent, ReceiveQuery, Open
<1>5. ASSUME NEW m \in Reply, ReceiveResponse(m) PROVE SpentMeansSent'
  BY <1>5, Names, SpentStill DEF Typed, ReceiveResponse
<1>6. ASSUME NEW n \in Node, Lapse(n) \/ Cleanup(n) PROVE SpentMeansSent'
  BY <1>6, Names DEF Typed, SpentMeansSent, Lapse, Cleanup, route, receipts
<1>7. ASSUME NEW n \in Node, Crash(n) PROVE SpentMeansSent'
  <2>1. crashes["requester"] \in Nat /\ crashes["provider"] \in Nat
    BY Names, BoundAssumption DEF Typed
  <2>2. CASE n = "provider"
    BY <1>7, <2>1, <2>2, Names, BoundAssumption DEF Typed, SpentMeansSent, Crash
  <2>3. CASE n = "requester"
    <3>1. /\ handed' = handed /\ wire' = wire /\ lapsed' = lapsed
          /\ crashes'["provider"] = crashes["provider"]
          /\ window'["provider"] = window["provider"]
      BY <1>7, <2>3, Names DEF Typed, Crash
    <3>2. \A r \in Reply : call[r] = "sent" => call'[r] = "sent"
      BY <1>7, Names DEF Typed, Crash
    <3> QED
      BY <3>1, <3>2 DEF SpentMeansSent
  <2> QED
    BY <2>2, <2>3 DEF Node
<1>8. ASSUME NEW m \in Sealed, OutboxStep(m) PROVE SpentMeansSent'
  BY <1>1, <1>8 DEF OutboxStep, ResumeAfterApproval, RetryDelivers, RetryFails,
     route, receipts
<1>9. ASSUME NEW m \in Refusal, RespondStep(m) PROVE SpentMeansSent'
  <2>1. \A r \in Reply : call[r] = "sent" => call'[r] = "sent"
    BY <1>9, Names DEF Typed, RespondStep, Respond, RespondReturns, RespondFails
  <2>2. CASE Respond(m)
    BY <2>2, Names DEF Typed, SpentMeansSent, Respond, Open
  <2>3. CASE RespondReturns(m) \/ RespondFails(m)
    BY <2>1, <2>3, Names, SpentStill DEF Typed, RespondReturns, RespondFails,
       Release, receipts
  <2> QED
    BY <1>9, <2>2, <2>3 DEF RespondStep
<1> QED
  BY <1>1, <1>2, <1>3, <1>4, <1>5, <1>6, <1>7, <1>8, <1>9
     DEF Next, ReceiveDrops, ReceiveNote, SweepQuarantined, LeaveQuarantine,
         RetryPendingOutbox, route, receipts, vars

(* No failed send uses the provider's window up.                           *)
THEOREM WindowSpentBySent == Spec => []SpentMeansSent
<1>1. Init => SpentMeansSent
  BY DEF Init, SpentMeansSent
<1> QED
  BY <1>1, SpentStep, TypeInvariant, PTL DEF Spec

-----------------------------------------------------------------------------
(* A note that was put somewhere has been recorded in the replay cache.    *)

PlaceInv == OnePlace /\ quarantine \cup staged \subseteq seen

LEMMA PlaceStep ==
  ASSUME Typed, PlaceInv, [Next]_vars
  PROVE  PlaceInv'
<1>1. ASSUME quarantine' \subseteq quarantine, staged' = staged,
             seen \subseteq seen'
      PROVE  PlaceInv'
  BY <1>1 DEF PlaceInv, OnePlace
<1>2. ASSUME NEW m \in Note, NEW c \in BOOLEAN, ReceiveNote(m, c) PROVE PlaceInv'
  BY <1>2 DEF PlaceInv, OnePlace, ReceiveNote, FirstCopy
<1>3. ASSUME NEW n \in Node, Crash(n) PROVE PlaceInv'
  BY <1>3, Names DEF Typed, PlaceInv, OnePlace, Crash, Node
<1>4. ASSUME NEW m \in Sealed, SendStep(m) PROVE PlaceInv'
  BY <1>1, <1>4 DEF SendStep, SendD2D, Denied, BeginDelivery, DeliverByWS,
     RelayTakes, Delivered, DeliveryFailed, route, receipts
<1> QED
  BY <1>1, <1>2, <1>3, <1>4
     DEF Next, RespondStep, Respond, RespondReturns, RespondFails, OutboxStep,
         ResumeAfterApproval, RetryDelivers, RetryFails,
         ReceiveDrops, SealFails, ReceiveQuery, ReceiveResponse, FirstCopy,
         SweepQuarantined, LeaveQuarantine, Lapse, Cleanup,
         RetryPendingOutbox, route, receipts, vars

(* A note is quarantined or staged, not both.                              *)
THEOREM NoteInOnePlace == Spec => []OnePlace
<1>1. Init => PlaceInv
  BY DEF Init, PlaceInv, OnePlace
<1>2. PlaceInv => OnePlace
  BY DEF PlaceInv
<1> QED
  BY <1>1, <1>2, PlaceStep, TypeInvariant, PTL DEF Spec

-----------------------------------------------------------------------------
(* The attempts of overlapping passes.                                     *)

Holding(m) == {p \in Pass : m \in pass[p]}

LEMMA HoldingType ==
  \A m : /\ IsFiniteSet(Holding(m)) /\ Cardinality(Holding(m)) \in Nat
         /\ Cardinality(Holding(m)) <= Cardinality(Pass)
         /\ Cardinality(Pass) \in Nat
<1> SUFFICES ASSUME NEW m

                            PROVE  /\ IsFiniteSet(Holding(m)) /\ Cardinality(Holding(m)) \in Nat
                    /\ Cardinality(Holding(m)) <= Cardinality(Pass)
                    /\ Cardinality(Pass) \in Nat
  OBVIOUS
<1>1. Holding(m) \in SUBSET Pass
  BY DEF Holding
<1> QED
  BY <1>1, FiniteAssumption, FS_Subset, FS_CardinalityType

RetryInv(m) == outbox[m].retryCount + Cardinality(Holding(m))
                 <= Max_retries + Cardinality(Pass) - 1

LEMMA RetryStill ==
  ASSUME Typed, NEW m \in Sealed, RetryInv(m), Holding(m)' \subseteq Holding(m),
         outbox'[m].retryCount = outbox[m].retryCount
         \/ outbox'[m].retryCount = 0
  PROVE  RetryInv(m)'
<1>1. outbox[m].retryCount \in Nat
  BY DEF Typed, Entry
<1>2. IsFiniteSet(Holding(m)) /\ IsFiniteSet(Holding(m)')
  BY HoldingType, FS_Subset
<1>3. Cardinality(Holding(m)') <= Cardinality(Holding(m))
  BY <1>2, FS_Subset
<1>4. /\ Cardinality(Holding(m)') \in Nat /\ Cardinality(Holding(m)) \in Nat
      /\ Cardinality(Pass) \in Nat
  BY <1>2, HoldingType, FS_CardinalityType
<1>5. Cardinality(Pass)' = Cardinality(Pass)
  OBVIOUS
<1> QED
  BY <1>1, <1>3, <1>4, BoundAssumption DEF RetryInv

LEMMA RetryStep ==
  ASSUME Typed, NEW m \in Sealed, RetryInv(m), [Next]_vars
  PROVE  RetryInv(m)'
<1>1. /\ outbox \in [Sealed -> Entry] /\ outbox[m].retryCount \in Nat
      /\ pass \in [Pass -> SUBSET Sealed]
  BY DEF Typed, Entry
<1>2. ASSUME UNCHANGED pass,
             outbox'[m].retryCount = outbox[m].retryCount
             \/ outbox'[m].retryCount = 0
      PROVE  RetryInv(m)'
  <2>1. Holding(m)' = Holding(m)
    BY <1>2 DEF Holding
  <2> QED
    BY <1>2, <2>1, RetryStill
<1>3. ASSUME UNCHANGED queue PROVE RetryInv(m)'
  BY <1>2, <1>3 DEF queue, route
<1>4. ASSUME NEW k \in Sealed, SendStep(k) PROVE RetryInv(m)'
  <2>1. CASE DeliveryFailed(k)
    BY <1>1, <1>2, <2>1 DEF DeliveryFailed, Enqueue
  <2>2. CASE ~DeliveryFailed(k)
    BY <1>3, <1>4, <2>2 DEF SendStep, SendD2D, Denied, BeginDelivery,
       DeliverByWS,
       RelayTakes, Delivered
  <2> QED
    BY <2>1, <2>2
<1>5. ASSUME NEW k \in Sealed, ResumeAfterApproval(k) PROVE RetryInv(m)'
  <2>1. outbox'[m].retryCount = outbox[m].retryCount
    BY <1>1, <1>5 DEF ResumeAfterApproval, Entry
  <2> QED
    BY <1>2, <1>5, <2>1 DEF ResumeAfterApproval
<1>6. ASSUME NEW k \in Sealed, NEW q \in Pass, RetryDelivers(q, k)
      PROVE  RetryInv(m)'
  <2>1. PICK S \in SUBSET Sealed : S = pass[q] \ {k}
    BY <1>1
  <2>2. pass' = [pass EXCEPT ![q] = S]
    BY <1>6, <2>1 DEF RetryDelivers
  <2>3. Holding(m)' \subseteq Holding(m)
    BY <1>1, <2>1, <2>2 DEF Holding
  <2>4. outbox'[m].retryCount = outbox[m].retryCount
    BY <1>1, <1>6 DEF RetryDelivers, MarkDelivered, Entry
  <2> QED
    BY <2>3, <2>4, RetryStill
<1>7. ASSUME NEW k \in Sealed, NEW q \in Pass, NEW took \in BOOLEAN,
             RetryFails(q, k, took)
      PROVE  RetryInv(m)'
  <2>1. PICK S \in SUBSET Sealed : S = pass[q] \ {k}
    BY <1>1
  <2>2. pass' = [pass EXCEPT ![q] = S] /\ q \in Holding(k)
    BY <1>7, <2>1 DEF RetryFails, Holding
  <2>3. CASE m = k
    <3>1. Holding(m)' = Holding(m) \ {q}
      BY <1>1, <2>1, <2>2, <2>3 DEF Holding
    <3>2. Cardinality(Holding(m)') = Cardinality(Holding(m)) - 1
      BY <2>2, <2>3, <3>1, HoldingType, FS_RemoveElement
    <3>3. \/ outbox'[m].retryCount = outbox[m].retryCount
          \/ outbox'[m].retryCount = outbox[m].retryCount + 1
      BY <1>1, <1>7, <2>3 DEF RetryFails, MarkFailed, Entry
    <3>4. /\ Cardinality(Holding(m)) \in Nat /\ Cardinality(Pass) \in Nat
          /\ Cardinality(Pass)' = Cardinality(Pass)
      BY HoldingType
    <3> QED
      BY <1>1, <3>2, <3>3, <3>4, BoundAssumption DEF RetryInv
  <2>4. CASE m # k
    <3>1. Holding(m)' \subseteq Holding(m)
      BY <1>1, <2>1, <2>2 DEF Holding
    <3>2. outbox'[m].retryCount = outbox[m].retryCount
      BY <1>1, <1>7, <2>4 DEF RetryFails, MarkFailed, Entry
    <3> QED
      BY <3>1, <3>2, RetryStill
  <2> QED
    BY <2>3, <2>4
<1>8. ASSUME NEW n \in Node, Crash(n) PROVE RetryInv(m)'
  <2>1. Holding(m)' \subseteq Holding(m)
    BY <1>1, <1>8 DEF Crash, Holding
  <2>2. \/ outbox'[m].retryCount = outbox[m].retryCount
        \/ outbox'[m].retryCount = 0
    BY <1>8 DEF Crash, NoEntry
  <2> QED
    BY <2>1, <2>2, RetryStill
<1>9. ASSUME NEW n \in Node, NEW q \in Pass, NEW old \in SUBSET Outbox(n),
             NEW due \in SUBSET Outbox(n), RetryPendingOutbox(q, n, old, due)
      PROVE  RetryInv(m)'

      <2>1. due \in SUBSET Sealed /\ pass' = [pass EXCEPT ![q] = due] /\ pass[q] = {}
    BY <1>9 DEF Outbox, RetryPendingOutbox
  <2>2. \/ outbox'[m].retryCount = outbox[m].retryCount
        \/ m \in old /\ outbox'[m].retryCount = 0
    BY <1>9 DEF RetryPendingOutbox, NoEntry
  <2>3. CASE m \in due
    <3>1. /\ outbox[m].retryCount < Max_retries
          /\ outbox'[m].retryCount = outbox[m].retryCount
      BY <1>9, <2>2, <2>3 DEF RetryPendingOutbox, ReadyForRetry
    <3>2. /\ Cardinality(Holding(m)') <= Cardinality(Pass)
          /\ Cardinality(Holding(m)') \in Nat /\ Cardinality(Pass) \in Nat
      <4>1. Holding(m)' \in SUBSET Pass
        BY DEF Holding
      <4> QED
        BY <4>1, FiniteAssumption, FS_Subset, FS_CardinalityType
    <3> QED
      BY <1>1, <3>1, <3>2, BoundAssumption DEF RetryInv
  <2>4. CASE m \notin due
    <3>1. Holding(m)' \subseteq Holding(m)
      BY <1>1, <2>1, <2>4 DEF Holding
    <3> QED
      BY <2>2, <3>1, RetryStill
  <2> QED
    BY <2>3, <2>4
<1> QED
  BY <1>3, <1>4, <1>5, <1>6, <1>7, <1>8, <1>9
     DEF Next, RespondStep, Respond, RespondReturns, RespondFails, OutboxStep,
         ReceiveDrops, SealFails, ReceiveQuery, ReceiveResponse, ReceiveNote,
            SweepQuarantined, LeaveQuarantine, Lapse,
         Cleanup, queue, vars

(* Retry passes that overlap exceed MAX_RETRIES by one attempt each, and   *)
(* by no more.                                                             *)
THEOREM BoundedRetries == Spec => []RetriesBounded
<1>1. Init => \A m \in Sealed : RetryInv(m)
  <2> SUFFICES ASSUME Init, NEW m \in Sealed PROVE RetryInv(m)
    OBVIOUS
  <2>1. outbox[m].retryCount = 0 /\ Holding(m) = {}
    BY DEF Init, NoEntry, Holding
  <2> QED
    BY <2>1, HoldingType, FS_EmptySet, BoundAssumption DEF RetryInv
<1>2. Typed /\ (\A m \in Sealed : RetryInv(m)) /\ [Next]_vars =>
        (\A m \in Sealed : RetryInv(m))'
  BY RetryStep
<1>3. (\A m \in Sealed : RetryInv(m)) => RetriesBounded
  BY DEF RetryInv, Holding, RetriesBounded
<1> QED
  BY <1>1, <1>2, <1>3, TypeInvariant, PTL DEF Spec

-----------------------------------------------------------------------------
(* What goes out was let out, and what is accepted was asked for.          *)

(* The call has passed the gates and begun to deliver.                     *)
GoneOut == {"delivering", "sent", "queued", "unqueued", "dead"}

(* An attempt to deliver m again is due, or under way.                     *)
Retried(m) == outbox[m].status # "none" \/ \E p \in Pass : m \in pass[p]

(* A message that a gate refused, or has not seen yet, is nowhere: not on  *)
(* the relay, and not in the outbox to be sent behind the gates' back.     *)
NothingBypassesGates ==
  \A m \in Sealed : m \in wire \/ Retried(m) => call[m] \in GoneOut

(* The outbox retries what its caller was told is queued, never a message  *)
(* that was reported as sent or as lost.                                   *)
RetriedWasQueued == \A m \in Sealed : Retried(m) => call[m] = "queued"

(* An accepted response was sent by the provider, whose Brain was handed   *)
(* the query, which the requester had sent; through all crashes.           *)
AcceptedWasAsked ==
  /\ accepted > 0 => Reply \cap wire # {}
  /\ \A m \in Reply : call[m] # "idle" => handed
  /\ handed => Query \in wire

Gated(m) ==
  /\ m \in wire => call[m] \in GoneOut
  /\ Retried(m) => call[m] = "queued"

(* A step that sends nothing, queues nothing and moves no call.            *)
LEMMA GatedStill ==
  ASSUME NEW m \in Sealed, Gated(m), call'[m] = call[m],
     m \in wire' => m \in wire,
         Retried(m)' => Retried(m)
  PROVE  Gated(m)'
BY DEF Gated

(* A block of sendD2D: it moves its own call only.                         *)
LEMMA GatedSend ==
  ASSUME Typed, NEW m \in Sealed, Gated(m), NEW k \in Sealed, SendStep(k)
  PROVE  Gated(m)'
<1>1. CASE k = m
  <2>1. pass' = pass
    BY DEF SendStep, SendD2D, Denied, BeginDelivery, DeliverByWS, RelayTakes,
       Delivered, DeliveryFailed, queue
  <2>2. CASE SendD2D(m) \/ Denied(m)
    BY <2>1, <2>2 DEF Typed, SendD2D, Denied, Gated, Retried, GoneOut, queue,
       route
  <2>3. CASE BeginDelivery(m) \/ DeliverByWS(m)
    BY <2>1, <2>3
    DEF Typed, BeginDelivery, DeliverByWS, Gated, Retried, GoneOut, queue, route
  <2>4. CASE RelayTakes(m) \/ Delivered(m)
    BY <2>1, <2>4 DEF Typed, RelayTakes, Delivered, Gated, Retried, GoneOut,
       queue, route
  <2>5. CASE DeliveryFailed(m)
    <3>1. \/ call'[m] = "queued"
          \/ call'[m] = "unqueued" /\ outbox' = outbox
      BY <2>5 DEF DeliveryFailed, Enqueue, Typed
    <3>2. ~Retried(m) /\ wire' = wire
      BY <2>5 DEF DeliveryFailed, Gated
    <3> QED
      BY <2>1, <3>1, <3>2 DEF Gated, Retried, GoneOut
  <2> QED
    BY <1>1, <2>2, <2>3, <2>4, <2>5 DEF SendStep
<1>2. CASE k # m
  <2>1. /\ call'[m] = call[m] /\ outbox'[m] = outbox[m] /\ pass' = pass
        /\ m \in wire' => m \in wire
    BY <1>2 DEF Typed, SendStep, SendD2D, Denied, BeginDelivery, DeliverByWS,
       RelayTakes, Delivered, DeliveryFailed, Enqueue, queue
  <2> QED
    BY <2>1, GatedStill DEF Retried
<1> QED
  BY <1>1, <1>2

(* The outbox and its passes move only what is queued.                     *)
LEMMA GatedRetry ==
  ASSUME Typed, NEW m \in Sealed, Gated(m), NEW k \in Sealed, OutboxStep(k)
  PROVE  Gated(m)'
<1>1. outbox \in [Sealed -> Entry] /\ pass \in [Pass -> SUBSET Sealed]
  BY DEF Typed
<1>2. outbox'[m].status # "none" => outbox[m].status # "none"
  <2>1. CASE ResumeAfterApproval(k)
    BY <1>1, <2>1 DEF ResumeAfterApproval
  <2>2. CASE MarkDelivered(k)
    BY <1>1, <2>2 DEF MarkDelivered, Entry
  <2>3. CASE MarkFailed(k)
    BY <1>1, <2>3 DEF MarkFailed
  <2> QED
    BY <2>1, <2>2, <2>3 DEF OutboxStep, RetryDelivers, RetryFails
<1>3. \A p \in Pass : pass'[p] \subseteq pass[p]
  BY <1>1 DEF OutboxStep, ResumeAfterApproval, RetryDelivers, RetryFails
<1>4. Retried(m)' => Retried(m)
  BY <1>2, <1>3 DEF Retried
<1>5. call' = call
  BY DEF OutboxStep, ResumeAfterApproval, RetryDelivers, RetryFails
<1>6. m \in wire' => m \in wire \/ Retried(m)
  BY DEF OutboxStep, ResumeAfterApproval, RetryDelivers, RetryFails, Retried
<1> QED
  BY <1>4, <1>5, <1>6 DEF Gated, GoneOut

LEMMA GatedStep ==
  ASSUME Typed, [Next]_vars, NEW m \in Sealed, Gated(m)
  PROVE  Gated(m)'
<1>1. ASSUME UNCHANGED <<call, wire, outbox, pass>> PROVE Gated(m)'
  BY <1>1 DEF Gated, Retried
<1>2. CASE SealFails
  <2>1. /\ call'[m] = call[m] \/ (m = Query /\ call[m] = "checking")
        /\ UNCHANGED <<wire, outbox, pass>>
    BY <1>2, Names DEF SealFails, Typed, queue, route
  <2> QED
    BY <2>1 DEF Gated, Retried, GoneOut
<1>3. ASSUME NEW n \in Node, NEW p \in Pass, NEW old, NEW due,
             old \subseteq Outbox(n), due \subseteq Outbox(n),
             RetryPendingOutbox(p, n, old, due)
      PROVE  Gated(m)'
  <2>1. m \in due => outbox[m].status # "none"
    BY <1>3 DEF Outbox
  <2>2. \A q \in Pass : m \in pass'[q] => m \in pass[q] \/ m \in due
    BY <1>3 DEF RetryPendingOutbox, Typed
  <2>3. outbox'[m].status # "none" => outbox[m].status # "none"
    BY <1>3 DEF RetryPendingOutbox, NoEntry
  <2>4. Retried(m)' => Retried(m)
    BY <2>1, <2>2, <2>3 DEF Retried
  <2> QED
    BY <1>3, <2>4, GatedStill DEF RetryPendingOutbox
<1>4. ASSUME NEW n \in Node, Crash(n) PROVE Gated(m)'
  <2>1. Retried(m)' => Retried(m)
    BY <1>4 DEF Crash, Retried, NoEntry, Typed
  <2>2. wire' = wire
    BY <1>4 DEF Crash
  <2>3. CASE call'[m] = call[m]
    BY <2>1, <2>2, <2>3, GatedStill
  <2>4. CASE call'[m] # call[m]
    <3>1. call[m] \in {"checking", "delivering"} /\ call'[m] = "dead"
      BY <1>4, <2>4 DEF Crash
    <3> QED
      BY <2>1, <2>2, <3>1 DEF Gated, GoneOut
  <2> QED
    BY <2>3, <2>4
<1>5. ASSUME NEW k \in Refusal, RespondStep(k) PROVE Gated(m)'
  <2>1. UNCHANGED <<wire, outbox, pass>>
    BY <1>5 DEF RespondStep, Respond, RespondReturns, RespondFails, queue
  <2>2. \/ call'[m] = call[m]
        \/ call[m] = "idle" /\ call'[m] = "checking"
    BY <1>5, Names DEF Typed, RespondStep, Respond, RespondReturns, RespondFails
  <2> QED
    BY <2>1, <2>2 DEF Gated, Retried, GoneOut
<1> QED
  BY <1>1, <1>2, <1>3, <1>4, <1>5, GatedSend, GatedRetry
     DEF Next, ReceiveDrops, ReceiveQuery, ReceiveResponse, ReceiveNote,
         SweepQuarantined, LeaveQuarantine, Lapse, Cleanup, queue, vars

(* The chain from the query to its answer grows from its front.            *)
LEMMA AskedStep ==
  ASSUME Typed, AcceptedWasAsked, [Next]_vars
  PROVE  AcceptedWasAsked'
<1>1. ASSUME accepted' = accepted, handed' = handed, wire \subseteq wire',
             \A m \in Reply : call'[m] # "idle" => call[m] # "idle"
      PROVE  AcceptedWasAsked'
  BY <1>1 DEF AcceptedWasAsked
<1>2. ASSUME NEW k \in Sealed, SendStep(k) PROVE AcceptedWasAsked'
  <2>1. accepted' = accepted /\ handed' = handed /\ wire \subseteq wire'
    BY <1>2 DEF SendStep, SendD2D, Denied, BeginDelivery, DeliverByWS,
       RelayTakes,
       Delivered, DeliveryFailed, route, receipts
  <2>2. ASSUME NEW m \in Reply, call'[m] # "idle" PROVE handed
    <3>1. m \in Sealed
      BY Names
    <3>2. CASE SendD2D(k)
      BY <2>2, <3>1, <3>2 DEF Reply, SendD2D, Typed, AcceptedWasAsked
    <3>3. CASE ~SendD2D(k)
      BY <1>2, <2>2, <3>1, <3>3
      DEF SendStep, Denied, BeginDelivery, DeliverByWS, RelayTakes, Delivered,
          DeliveryFailed, Enqueue, Typed, AcceptedWasAsked
    <3> QED
      BY <3>2, <3>3
  <2> QED
    BY <2>1, <2>2 DEF AcceptedWasAsked
<1>3. ASSUME NEW k \in Sealed, OutboxStep(k) PROVE AcceptedWasAsked'
  BY <1>1, <1>3 DEF OutboxStep, ResumeAfterApproval, RetryDelivers,
     RetryFails, route, receipts
<1>4. CASE SealFails
  <2>1. \A m \in Reply : call'[m] = call[m]
    BY <1>4, Names DEF SealFails, Typed
  <2> QED
    BY <1>1, <1>4, <2>1 DEF SealFails, route, receipts
<1>5. CASE ReceiveQuery
  BY <1>5 DEF ReceiveQuery, FirstCopy, AcceptedWasAsked
<1>6. ASSUME NEW m \in Reply, ReceiveResponse(m) PROVE AcceptedWasAsked'
  BY <1>6 DEF ReceiveResponse, FirstCopy, AcceptedWasAsked
<1>7. ASSUME NEW n \in Node, Crash(n) PROVE AcceptedWasAsked'
  <2>1. \A m \in Reply : call'[m] # "idle" => call[m] # "idle"
    BY <1>7, Names DEF Crash
  <2> QED
    BY <1>1, <1>7, <2>1 DEF Crash
<1>8. ASSUME NEW m \in Refusal, RespondStep(m) PROVE AcceptedWasAsked'
  <2>1. \A r \in Reply : call'[r] # "idle" => call[r] # "idle" \/ handed
    BY <1>8, Names DEF Typed, RespondStep, Respond, RespondReturns, RespondFails
  <2>2. UNCHANGED <<accepted, handed, wire>>
    BY <1>8 DEF RespondStep, Respond, RespondReturns, RespondFails, receipts
  <2> QED
    BY <2>1, <2>2 DEF AcceptedWasAsked
<1> QED
  BY <1>1, <1>2, <1>3, <1>4, <1>5, <1>6, <1>7, <1>8
     DEF Next, ReceiveDrops, ReceiveNote, SweepQuarantined, LeaveQuarantine,
         Lapse, Cleanup, RetryPendingOutbox, route, receipts, vars

(* What the egress gates refused never reaches the relay, by no retry and  *)
(* no crash; the outbox sends again only what its caller knows is queued;  *)
(* and no response is accepted that was not asked for.                     *)
THEOREM GatesAndCauses ==
  Spec => [](NothingBypassesGates /\ RetriedWasQueued /\ AcceptedWasAsked)
<1>1. Init => AcceptedWasAsked /\ \A m \in Sealed : Gated(m)
  <2> SUFFICES ASSUME Init PROVE AcceptedWasAsked /\ \A m \in Sealed : Gated(m)
    OBVIOUS
  <2>1. \A m \in Sealed : m \notin wire /\ ~Retried(m)
    BY MessageAssumption DEF Init, Sealed, Retried, NoEntry
  <2>2. AcceptedWasAsked
    BY Names DEF Init, AcceptedWasAsked
  <2> QED
    BY <2>1, <2>2 DEF Gated
<1>2. Typed /\ [Next]_vars /\ (\A m \in Sealed : Gated(m)) => (\A m \in Sealed : Gated(m))'
  BY GatedStep
<1>3. (\A m \in Sealed : Gated(m)) => NothingBypassesGates /\ RetriedWasQueued
  BY DEF Gated, NothingBypassesGates, RetriedWasQueued, GoneOut
<1> QED
  BY <1>1, <1>2, <1>3, AskedStep, TypeInvariant, PTL DEF Spec
=============================================================================
