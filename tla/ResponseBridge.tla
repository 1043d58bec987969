--------------------------- MODULE ResponseBridge ---------------------------
(***************************************************************************)
(* The Response Bridge of workflow/service.ts: when a delegation that      *)
(* executes a service query completes, the response goes out on a detached *)
(* promise, and a record of it (the row's internal_stash, or a map in      *)
(* memory when that write fails) lets retryPendingBridges send it again.   *)
(* BridgePendingSweeper and the node's start, stop and drainOnce decide    *)
(* when that happens.                                                      *)
(*                                                                         *)
(* An action is one synchronous block, from one await to the next.  The    *)
(* sender is known by its contract: it resolves when the response went     *)
(* out, rejects when it did not, and may do neither for 30 seconds; then   *)
(* the attempt is abandoned, yet the response may still go out.            *)
(***************************************************************************)
EXTENDS Naturals, FiniteSets

CONSTANTS
  Task,         \* service-query delegations
  Reachable,    \* those whose requester can be reached
  Null,         \* no task
  Limit,        \* batchSize of the sweeper, the limit of retryPendingBridges
  MaxRestarts   \* bound: crashes of the node

ASSUME TaskAssumption ==
  Null \notin Task /\ Reachable \subseteq Task /\ IsFiniteSet(Task)
ASSUME LimitAssumption == Limit \in Nat \ {0} /\ MaxRestarts \in Nat

VARIABLES
  completed,     \* the tasks whose row is `completed'
  earlier,       \* per completed task, those that completed before it
  stash,         \* the rows with a `bridge_pending:' stash
  fallback,      \* the keys of bridgeInMemoryFallback
  inFlight,      \* bridgeInFlight
  awaitingClear, \* bridgeDeliveredAwaitingClear
  initial,       \* per task, the detached first send
  retry,         \* the suspended retryPendingBridges call
  started,       \* the sweeper's timer is set
  tickInFlight,  \* BridgePendingSweeper.tickInFlight
  late,          \* per task, what became of an abandoned attempt
  delivered,     \* per task, responses the requester got: 0, 1 or 2 (and more)
  restarts

rows == <<completed, earlier>>
record == <<rows, stash, fallback>>
sends == <<initial, late, delivered>>
vars == <<completed, earlier, stash, fallback, inFlight, awaitingClear, initial,
          retry, started, tickInFlight, late, delivered, restarts>>

Retry == [now : Task \cup {Null}, surface : {"stash", "fallback"},
          sent : BOOLEAN, left : SUBSET Task]
Idle == [now |-> Null, surface |-> "stash", sent |-> FALSE, left |-> {}]

TypeOK ==
  /\ completed \subseteq Task
  /\ earlier \in [Task -> SUBSET completed]
  /\ \A t \in Task : t \notin earlier[t]
  /\ stash \subseteq completed /\ fallback \subseteq completed
  /\ inFlight \subseteq Task /\ awaitingClear \subseteq Task
  /\ initial \in [Task -> {"none", "sending", "sent"}]
  /\ retry \in Retry /\ Cardinality(retry.left) < Limit
  /\ started \in BOOLEAN
  /\ tickInFlight \in {"none", "tick", "wrapper"}
  /\ late \in [Task -> {"none", "pending", "over"}]
  /\ delivered \in [Task -> 0..2]
  /\ restarts \in 0..MaxRestarts

Init ==
  /\ completed = {} /\ earlier = [t \in Task |-> {}]
  /\ stash = {} /\ fallback = {}
  /\ inFlight = {} /\ awaitingClear = {}
  /\ initial = [t \in Task |-> "none"] /\ retry = Idle
  /\ started = FALSE /\ tickInFlight = "none"
  /\ late = [t \in Task |-> "none"]
  /\ delivered = [t \in Task |-> 0]
  /\ restarts = 0

-----------------------------------------------------------------------------
Recorded(t) == t \in stash \cup fallback

(* Both surfaces are read in the order in which the tasks completed: the   *)
(* rows by updated_at, the map in insertion order.                         *)
Batch(S) == {t \in S : Cardinality(S \cap earlier[t]) < Limit}

First(S) == {t \in S : S \cap earlier[t] = {}}

After(t, S) == {u \in S : t \in earlier[u]}

Deliver(t) == delivered' = [delivered EXCEPT ![t] = IF @ = 2 THEN 2 ELSE @ + 1]

(* Slip: an attempt that was given up counts as delivered.                 *)
AbandonClears(t, sent) ==
  /\ late' = [late EXCEPT ![t] = IF @ # "none" THEN @
                                 ELSE IF sent THEN "over" ELSE "pending"]
  /\ stash' = stash \ {t} /\ UNCHANGED fallback

(* withTimeout gives an attempt up: its record stays, and the response may *)
(* still go out, unless it has.                                            *)
Abandon(t, sent) ==
  /\ late' = [late EXCEPT ![t] = IF @ # "none" THEN @
                                 ELSE IF sent THEN "over" ELSE "pending"]
  /\ UNCHANGED <<stash, fallback>>

-----------------------------------------------------------------------------
(* Completion and the detached first send.                                 *)

(* Slip: a second report completes the task again.                         *)
CompleteAgain(t, written) ==
  /\ completed' = completed \cup {t}
  /\ earlier' = [earlier EXCEPT ![t] = completed]
  /\ stash' = IF written THEN stash \cup {t} ELSE stash
  /\ fallback' = IF written THEN fallback ELSE fallback \cup {t}
  /\ inFlight' = inFlight \cup {t}
  /\ initial' = [initial EXCEPT ![t] = "sending"]
  /\ UNCHANGED <<awaitingClear, retry, started, tickInFlight, late, delivered,
                 restarts>>

(* complete() or fail() commits the row and, in the same block, records    *)
(* the response (in memory if the write of the stash throws), claims it    *)
(* and sends it.                                                           *)
Complete(t, written) ==
  /\ t \notin completed
  /\ completed' = completed \cup {t}
  /\ earlier' = [earlier EXCEPT ![t] = completed]
  /\ stash' = IF written THEN stash \cup {t} ELSE stash
  /\ fallback' = IF written THEN fallback ELSE fallback \cup {t}
  /\ inFlight' = inFlight \cup {t}
  /\ initial' = [initial EXCEPT ![t] = "sending"]
  /\ UNCHANGED <<awaitingClear, retry, started, tickInFlight, late, delivered,
                 restarts>>

InitialDelivers(t) ==
  /\ initial[t] = "sending"
  /\ initial' = [initial EXCEPT ![t] = "sent"]
  /\ Deliver(t)
  /\ UNCHANGED <<record, inFlight, awaitingClear, retry, started, tickInFlight,
                 late, restarts>>

(* Slip: the clear that keeps failing is not remembered.                   *)
ClearsUnmarked(t, ok) ==
  /\ initial[t] = "sent"
  /\ initial' = [initial EXCEPT ![t] = "none"]
  /\ inFlight' = inFlight \ {t}
  /\ fallback' = fallback \ {t}
  /\ stash' = IF ok THEN stash \ {t} ELSE stash
  /\ UNCHANGED <<rows, awaitingClear, retry, started, tickInFlight, late,
                 delivered, restarts>>

(* clearBridgeRecord, then `finally': three failed writes leave the stash  *)
(* and mark the task as delivered.                                         *)
InitialClears(t, ok) ==
  /\ initial[t] = "sent"
  /\ initial' = [initial EXCEPT ![t] = "none"]
  /\ inFlight' = inFlight \ {t}
  /\ fallback' = fallback \ {t}
  /\ IF t \in stash /\ ~ok
     THEN /\ awaitingClear' = awaitingClear \cup {t}
          /\ UNCHANGED stash
     ELSE /\ awaitingClear' = awaitingClear \ {t}
          /\ stash' = stash \ {t}
  /\ UNCHANGED <<rows, retry, started, tickInFlight, late, delivered, restarts>>

(* Slip: a send that fails is marked like one whose clear fails.           *)
RejectMarks(t) ==
  /\ initial[t] = "sending"
  /\ initial' = [initial EXCEPT ![t] = "none"]
  /\ inFlight' = inFlight \ {t}
  /\ awaitingClear' = awaitingClear \cup {t}
  /\ UNCHANGED <<record, retry, started, tickInFlight, late, delivered, restarts>>

InitialRejects(t) ==
  /\ initial[t] = "sending"
  /\ initial' = [initial EXCEPT ![t] = "none"]
  /\ inFlight' = inFlight \ {t}
  /\ UNCHANGED <<record, awaitingClear, retry, started, tickInFlight, late,
                 delivered, restarts>>

(* Slip: no `finally', the claim stays.                                    *)
InitialPins(t) ==
  /\ initial[t] # "none"
  /\ initial' = [initial EXCEPT ![t] = "none"]
  /\ Abandon(t, initial[t] = "sent")
  /\ UNCHANGED <<rows, inFlight, awaitingClear, retry, started, tickInFlight,
                 delivered, restarts>>

InitialTimesOut(t) ==
  /\ initial[t] # "none"
  /\ initial' = [initial EXCEPT ![t] = "none"]
  /\ inFlight' = inFlight \ {t}
  /\ Abandon(t, initial[t] = "sent")
  /\ UNCHANGED <<rows, awaitingClear, retry, started, tickInFlight, delivered,
                 restarts>>

(* An attempt that was given up delivers after all.                        *)
LateDelivers(t) ==
  /\ late[t] = "pending"
  /\ late' = [late EXCEPT ![t] = "over"]
  /\ Deliver(t)
  /\ UNCHANGED <<record, inFlight, awaitingClear, initial, retry, started,
                 tickInFlight, restarts>>

-----------------------------------------------------------------------------
(* retryPendingBridges.                                                    *)

(* The entry t of q is the next to be sent.                                *)
Send(t, q, s, claims) ==
  /\ retry' = [now |-> t, surface |-> s, sent |-> FALSE, left |-> After(t, q)]
  /\ inFlight' = claims \cup {t}

(* Slip: the loops do not look at the claims.                              *)
GoOnUnclaimed(surface, left, claims, marked, stashed, inMemory) ==
  LET onStash == surface = "stash" /\ left # {}
      q == IF surface = "stash" /\ left = {} THEN Batch(inMemory) ELSE left
      next == First(q \ marked)
  IN /\ awaitingClear' = marked /\ stash' = stashed /\ fallback' = inMemory
     /\ \/ \E t \in next :
             Send(t, q, IF onStash THEN "stash" ELSE "fallback", claims)
        \/ next = {} /\ retry' = Idle /\ inFlight' = claims

(* The block from here to the next send: entries that are being sent are   *)
(* skipped; entries that were delivered are skipped too, and the write     *)
(* that clears their stash is tried again (`freed' are those it succeeds   *)
(* for); after the last stash the in-memory map is read.                   *)
GoOn(surface, left, claims, marked, stashed, inMemory) ==
  \E freed \in SUBSET (marked \ claims) :
    LET rest1 == IF surface = "stash" THEN left ELSE {}
        next1 == First(rest1 \ (claims \cup marked))
        passed == {u \in rest1 : \A t \in next1 : u \in earlier[t]}
        rest2 == IF surface = "stash" THEN Batch(inMemory) ELSE left
        next2 == First(rest2 \ (claims \cup (marked \ freed)))
    IN /\ freed \subseteq passed
       /\ awaitingClear' = marked \ freed
       /\ stash' = stashed \ freed
       /\ fallback' = inMemory
       /\ \/ \E t \in next1 : Send(t, rest1, "stash", claims)
          \/ next1 = {} /\ \E t \in next2 : Send(t, rest2, "fallback", claims)
          \/ next1 = {} /\ next2 = {} /\ retry' = Idle /\ inFlight' = claims

(* The first block of a call: the stashed rows are read once, here.        *)
RetryPendingBridges ==
  /\ retry = Idle
  /\ GoOn("stash", Batch(stash), inFlight, awaitingClear, stash, fallback)

(* The sweeper's own promise is dropped when its tick is over; the one that *)
(* start() and the timer store in its place never is.                      *)
TickOver ==
  tickInFlight' = IF tickInFlight = "tick" /\ retry' = Idle THEN "none" ELSE tickInFlight

RetryDelivers(t) ==
  /\ retry.now = t /\ ~retry.sent
  /\ retry' = [retry EXCEPT !.sent = TRUE]
  /\ Deliver(t)
  /\ UNCHANGED <<record, inFlight, awaitingClear, initial, started, tickInFlight,
                 late, restarts>>

RetryClears(t, ok) ==
  /\ retry.now = t /\ retry.sent
  /\ IF retry.surface = "stash" /\ ~ok
     THEN GoOn(retry.surface, retry.left, inFlight \ {t}, awaitingClear \cup {t},
               stash, fallback \ {t})
     ELSE GoOn(retry.surface, retry.left, inFlight \ {t}, awaitingClear \ {t},
               IF retry.surface = "stash" THEN stash \ {t} ELSE stash,
               fallback \ {t})
  /\ TickOver
  /\ UNCHANGED <<rows, sends, started, restarts>>

(* Slip: one failed send ends the call.                                    *)
RejectEndsCall(t) ==
  /\ retry.now = t /\ ~retry.sent
  /\ retry' = Idle /\ inFlight' = inFlight \ {t}
  /\ TickOver
  /\ UNCHANGED <<record, awaitingClear, sends, started, restarts>>

RetryRejects(t) ==
  /\ retry.now = t /\ ~retry.sent
  /\ GoOn(retry.surface, retry.left, inFlight \ {t}, awaitingClear, stash, fallback)
  /\ TickOver
  /\ UNCHANGED <<rows, sends, started, restarts>>

RetryTimesOut(t) ==
  /\ retry.now = t
  /\ late' = [late EXCEPT ![t] = IF @ # "none" THEN @
                                 ELSE IF retry.sent THEN "over" ELSE "pending"]
  /\ GoOn(retry.surface, retry.left, inFlight \ {t}, awaitingClear, stash, fallback)
  /\ TickOver
  /\ UNCHANGED <<rows, initial, delivered, started, restarts>>

-----------------------------------------------------------------------------
(* The sweeper in the node's life.                                         *)

(* runTick, its promise stored by the caller.  It is an async function: the *)
(* promise it returns is not the one it keeps.                             *)
ScheduledTick ==
  IF tickInFlight = "none"
  THEN /\ RetryPendingBridges
       /\ tickInFlight' = "wrapper"
  ELSE /\ tickInFlight' = "wrapper"
       /\ UNCHANGED <<stash, fallback, inFlight, awaitingClear, retry>>

Start ==
  /\ ~started
  /\ started' = TRUE
  /\ ScheduledTick
  /\ UNCHANGED <<rows, sends, restarts>>

IntervalTick ==
  /\ started
  /\ ScheduledTick
  /\ UNCHANGED <<rows, sends, started, restarts>>

(* stop() clears the timer and flushes: it ends when the call is over.     *)
Stop ==
  /\ started /\ retry = Idle
  /\ started' = FALSE /\ tickInFlight' = "none"
  /\ UNCHANGED <<record, inFlight, awaitingClear, retry, sends, restarts>>

DrainOnce ==
  /\ tickInFlight = "none"
  /\ RetryPendingBridges
  /\ tickInFlight' = IF retry' = Idle THEN "none" ELSE "tick"
  /\ UNCHANGED <<rows, sends, started, restarts>>

(* The process dies: what is left is the rows.                             *)
LoseMemory ==
  /\ restarts < MaxRestarts /\ restarts' = restarts + 1
  /\ fallback' = {} /\ inFlight' = {} /\ awaitingClear' = {}
  /\ initial' = [t \in Task |-> "none"] /\ retry' = Idle
  /\ started' = FALSE /\ tickInFlight' = "none"
  /\ late' = [t \in Task |-> IF late[t] = "pending" THEN "over" ELSE late[t]]
  /\ UNCHANGED <<stash, delivered>>

Crash == LoseMemory /\ UNCHANGED rows

(* The crash falls between the commit of the row and the stash write.      *)
CrashBeforeStash(t) ==
  /\ t \notin completed
  /\ completed' = completed \cup {t}
  /\ earlier' = [earlier EXCEPT ![t] = completed]
  /\ LoseMemory

-----------------------------------------------------------------------------
Next ==
  \/ \E t \in Task :
       \/ \E written \in BOOLEAN : Complete(t, written)
       \/ InitialDelivers(t) \/ InitialRejects(t) \/ InitialTimesOut(t)
       \/ \E ok \in BOOLEAN : InitialClears(t, ok)
       \/ LateDelivers(t)
       \/ RetryDelivers(t) \/ RetryRejects(t) \/ RetryTimesOut(t)
       \/ \E ok \in BOOLEAN : RetryClears(t, ok)
       \/ CrashBeforeStash(t)
  \/ Start \/ IntervalTick \/ Stop \/ DrainOnce \/ Crash

(* Timers fire: the 30 s limit of an attempt, the node's start, the        *)
(* sweeper's interval.  A requester that can be reached is reached by one  *)
(* of ever so many attempts, and the code goes on from there.              *)
Fairness ==
  /\ WF_vars(Start) /\ WF_vars(IntervalTick)
  /\ \A t \in Task :
       /\ WF_vars(InitialTimesOut(t) \/ \E ok \in BOOLEAN : InitialClears(t, ok))
       /\ WF_vars(RetryTimesOut(t) \/ \E ok \in BOOLEAN : RetryClears(t, ok))
  /\ \A t \in Reachable : SF_vars(RetryDelivers(t))

Spec == Init /\ [][Next]_vars /\ Fairness

-----------------------------------------------------------------------------
(* Properties.                                                             *)

(* bridgeInFlight holds exactly the tasks being sent, and each is sent by  *)
(* one attempt at a time: a claim that leaks would keep a response from    *)
(* ever being retried, a missing one would let the sweeper send it again.  *)
ClaimsMatchSends ==
  /\ inFlight = {t \in Task : initial[t] # "none" \/ retry.now = t}
  /\ \A t \in Task : initial[t] = "none" \/ retry.now # t

(* A response that went out, was not given up after 30 s, and whose node   *)
(* did not crash goes out again only from the snapshot of a retry, by an   *)
(* entry whose record was cleared since it was read: however first sends,  *)
(* retries, failed clears and the in-memory map mix, no other step repeats *)
(* it.                                                                     *)
RepeatsAreStale ==
  [][\A t \in Task :
       delivered[t] > 0 /\ delivered'[t] # delivered[t] /\ late[t] = "none"
         /\ restarts = 0 => retry.now = t /\ ~Recorded(t)]_vars

(* A response that did not go out keeps its record, in the table even      *)
(* across crashes, in memory until one.                                    *)
RecordKeptUntilDelivered ==
  [][\A t \in Task : Recorded(t) /\ ~Recorded(t)' =>
       delivered[t] > 0 \/ (t \notin stash /\ restarts' # restarts)]_vars

(* Without a crash, every response that did not go out is in the retries'  *)
(* reach: it has a record, and no mark in bridgeDeliveredAwaitingClear     *)
(* makes them pass it over.                                                *)
UndeliveredIsRetryable ==
  \A t \in completed :
    delivered[t] = 0 /\ restarts = 0 => Recorded(t) /\ t \notin awaitingClear

(* A send that never settles does not keep its claim.                      *)
ClaimsAreReleased == \A t \in Task : t \in inFlight ~> t \notin inFlight

(* As long as the node is stopped and started again now and then, a stashed *)
(* response reaches a requester that can be reached, also behind others    *)
(* whose requester cannot.                                                 *)
RetriedByRestarts ==
  []<><<Start>>_vars =>
    \A t \in Reachable : t \in stash ~> delivered[t] > 0

(* bridge_pending_sweeper.ts, of a failed send: "the stash sits until this *)
(* sweeper fires and retries the send".                                    *)
PendingIsRetried == \A t \in Reachable : t \in stash ~> delivered[t] > 0

(* service.ts:477-478, of the claims in bridgeInFlight: "prevents           *)
(* double-dispatch".  The requester gets one response per completion when  *)
(* no attempt was given up and the node did not crash.                     *)
OneResponse ==
  \A t \in Task : delivered[t] > 1 => late[t] # "none" \/ restarts > 0
=============================================================================
