---------------------------- MODULE BridgeProofs ----------------------------
(***************************************************************************)
(* Theorems about the Response Bridge, for any finite set of tasks, any    *)
(* batch size and any number of crashes.                                   *)
(***************************************************************************)
EXTENDS ResponseBridge, FiniteSetTheorems, TLAPS

-----------------------------------------------------------------------------
(* Types.  What is recorded, sent or still to be sent has completed.       *)

Typed ==
  /\ completed \subseteq Task
  /\ earlier \in [Task -> SUBSET completed]
  /\ stash \subseteq completed /\ fallback \subseteq completed
  /\ inFlight \subseteq Task /\ awaitingClear \subseteq Task
  /\ initial \in [Task -> {"none", "sending", "sent"}]
  /\ retry \in Retry
  /\ started \in BOOLEAN
  /\ tickInFlight \in {"none", "tick", "wrapper"}
  /\ late \in [Task -> {"none", "pending", "over"}]
  /\ delivered \in [Task -> 0..2]
  /\ restarts \in 0..MaxRestarts

Known ==
  /\ \A t \in Task : initial[t] # "none" => t \in completed
  /\ retry.now # Null => retry.now \in completed
  /\ retry.left \subseteq completed

(* The retries go on to the entry t, or end.                               *)
SendsNext(t, claims) ==
  /\ retry'.now = t /\ ~retry'.sent
  /\ inFlight' = claims \cup {t}

Ends(claims) == retry' = Idle /\ inFlight' = claims

LEMMA BoundsType == MaxRestarts \in Nat /\ 0 \in 0..MaxRestarts
BY LimitAssumption

LEMMA IdleType == Idle \in Retry /\ Idle.now = Null /\ Idle.left = {} /\ ~Idle.sent
BY DEF Idle, Retry

(* Of the marks and the surfaces, it drops only stashes it cleared.        *)
LEMMA GoOnDrops ==
  ASSUME NEW surface, NEW left, NEW claims, NEW marked, NEW stashed, NEW inMemory,
         GoOn(surface, left, claims, marked, stashed, inMemory)
  PROVE  /\ \E freed \in SUBSET marked :
              awaitingClear' = marked \ freed /\ stash' = stashed \ freed
         /\ fallback' = inMemory
<1>1. PICK freed \in SUBSET (marked \ claims) :
        /\ awaitingClear' = marked \ freed /\ stash' = stashed \ freed
        /\ fallback' = inMemory
  BY DEF GoOn
<1>2. freed \in SUBSET marked
  OBVIOUS
<1> QED
  BY <1>1, <1>2

(* What GoOn does to the records and the retry, whatever it passes over.   *)
LEMMA GoOnEffect ==
  ASSUME completed \subseteq Task, NEW surface \in {"stash", "fallback"},
         NEW left \in SUBSET completed, NEW claims \in SUBSET Task,
         NEW marked \in SUBSET Task, NEW stashed \in SUBSET completed,
         NEW inMemory \in SUBSET completed,
         GoOn(surface, left, claims, marked, stashed, inMemory)
  PROVE  /\ retry' \in Retry /\ retry'.left \subseteq completed
         /\ fallback' = inMemory
         /\ \E freed \in SUBSET marked :
              awaitingClear' = marked \ freed /\ stash' = stashed \ freed
         /\ \/ \E t \in completed \ claims : SendsNext(t, claims)
            \/ Ends(claims)
<1>1. ASSUME NEW q \in SUBSET completed, NEW t \in q,
             NEW s \in {"stash", "fallback"}, Send(t, q, s, claims)
      PROVE  /\ retry' \in Retry /\ retry'.left \subseteq completed
             /\ SendsNext(t, claims)
  BY <1>1 DEF Send, After, SendsNext, Retry
<1>2. PICK freed \in SUBSET (marked \ claims) :
        LET rest1 == IF surface = "stash" THEN left ELSE {}
            next1 == First(rest1 \ (claims \cup marked))
            rest2 == IF surface = "stash" THEN Batch(inMemory) ELSE left
            next2 == First(rest2 \ (claims \cup (marked \ freed)))
        IN /\ awaitingClear' = marked \ freed
           /\ stash' = stashed \ freed
           /\ fallback' = inMemory
           /\ \/ \E t \in next1 : Send(t, rest1, "stash", claims)
              \/ next1 = {} /\ \E t \in next2 : Send(t, rest2, "fallback", claims)
              \/ next1 = {} /\ next2 = {} /\ retry' = Idle /\ inFlight' = claims
  BY DEF GoOn
<1> DEFINE rest1 == IF surface = "stash" THEN left ELSE {}
           rest2 == IF surface = "stash" THEN Batch(inMemory) ELSE left
<1>3. rest1 \in SUBSET completed /\ rest2 \in SUBSET completed
  BY DEF Batch
<1>4. CASE \E t \in First(rest1 \ (claims \cup marked)) :
             Send(t, rest1, "stash", claims)
  <2>1. PICK t \in First(rest1 \ (claims \cup marked)) :
          Send(t, rest1, "stash", claims)
    BY <1>4
  <2>2. t \in rest1 /\ t \in completed \ claims
    BY <2>1, <1>3 DEF First
  <2> QED
    BY <1>1, <1>2, <1>3, <2>1, <2>2
<1>5. CASE \E t \in First(rest2 \ (claims \cup (marked \ freed))) :
             Send(t, rest2, "fallback", claims)
  <2>1. PICK t \in First(rest2 \ (claims \cup (marked \ freed))) :
          Send(t, rest2, "fallback", claims)
    BY <1>5
  <2>2. t \in rest2 /\ t \in completed \ claims
    BY <2>1, <1>3 DEF First
  <2> QED
    BY <1>1, <1>2, <1>3, <2>1, <2>2
<1>6. CASE Ends(claims)
  BY <1>2, <1>6, IdleType DEF Ends
<1> QED
  BY <1>2, <1>4, <1>5, <1>6 DEF Ends

LEMMA InitType == Init => Typed /\ Known
<1> SUFFICES ASSUME Init PROVE Typed /\ Known
  OBVIOUS
<1>1. retry \in Retry /\ retry.now = Null /\ retry.left = {}
  BY IdleType DEF Init
<1>2. restarts \in 0..MaxRestarts /\ delivered \in [Task -> 0..2]
  BY LimitAssumption DEF Init
<1>3. earlier \in [Task -> SUBSET completed] /\ completed \subseteq Task
  BY DEF Init
<1> QED
  BY <1>1, <1>2, <1>3 DEF Init, Typed, Known

LEMMA RetryTypes ==
  ASSUME Typed, Known, NEW t \in Task, retry.now = t
  PROVE  /\ t \in completed /\ retry.left \in SUBSET completed
         /\ retry.surface \in {"stash", "fallback"} /\ retry.sent \in BOOLEAN
BY TaskAssumption DEF Typed, Known, Retry

(* The types of what an action of the retries leaves to GoOn.              *)
Passed ==
  /\ stash' \subseteq completed /\ fallback' \subseteq completed
  /\ inFlight' \subseteq Task /\ awaitingClear' \subseteq Task
  /\ retry' \in Retry /\ retry'.left \subseteq completed
  /\ retry'.now # Null => retry'.now \in completed

LEMMA GoOnTypes ==
  ASSUME completed \subseteq Task, NEW surface \in {"stash", "fallback"},
         NEW left \in SUBSET completed, NEW claims \in SUBSET Task,
         NEW marked \in SUBSET Task, NEW stashed \in SUBSET completed,
         NEW inMemory \in SUBSET completed,
         GoOn(surface, left, claims, marked, stashed, inMemory)
  PROVE  Passed
<1>1. CASE \E t \in completed \ claims : SendsNext(t, claims)
  BY <1>1, GoOnEffect DEF Passed, SendsNext
<1>2. CASE Ends(claims)
  BY <1>2, GoOnEffect, IdleType DEF Passed, Ends
<1> QED
  BY <1>1, <1>2, GoOnEffect

LEMMA CallTypes ==
  ASSUME Typed, Known, RetryPendingBridges
  PROVE  Passed
<1>1. Batch(stash) \in SUBSET completed
  BY DEF Typed, Batch
<1> QED
  BY <1>1, GoOnTypes DEF Typed, RetryPendingBridges

LEMMA ClearsTypes ==
  ASSUME Typed, Known, NEW t \in Task, NEW ok \in BOOLEAN, RetryClears(t, ok)
  PROVE  Passed
<1>1. retry.now = t
  BY DEF RetryClears
<1>2. CASE retry.surface = "stash" /\ ~ok
  BY <1>1, <1>2, RetryTypes, GoOnTypes DEF Typed, RetryClears
<1>3. CASE ~(retry.surface = "stash" /\ ~ok)
  <2> DEFINE kept == IF retry.surface = "stash" THEN stash \ {t} ELSE stash
  <2>1. kept \in SUBSET completed /\ fallback \ {t} \in SUBSET completed
    BY DEF Typed
  <2>2. inFlight \ {t} \in SUBSET Task /\ awaitingClear \ {t} \in SUBSET Task
    BY DEF Typed
  <2>3. GoOn(retry.surface, retry.left, inFlight \ {t}, awaitingClear \ {t}, kept,
             fallback \ {t})
    BY <1>3 DEF RetryClears
  <2> HIDE DEF kept
  <2> QED
    BY <1>1, <2>1, <2>2, <2>3, RetryTypes, GoOnTypes DEF Typed
<1> QED
  BY <1>2, <1>3

LEMMA MissesTypes ==
  ASSUME Typed, Known, NEW t \in Task, RetryRejects(t) \/ RetryTimesOut(t)
  PROVE  Passed
<1>1. retry.now = t /\ GoOn(retry.surface, retry.left, inFlight \ {t},
                           awaitingClear, stash, fallback)
  BY DEF RetryRejects, RetryTimesOut
<1> QED
  BY <1>1, RetryTypes, GoOnTypes DEF Typed

LEMMA CrashTypes ==
  ASSUME Typed, LoseMemory,
         completed' \in SUBSET Task, completed \subseteq completed'
  PROVE  /\ stash' \subseteq completed' /\ fallback' \subseteq completed'
         /\ inFlight' \subseteq Task /\ awaitingClear' \subseteq Task
         /\ initial' \in [Task -> {"none", "sending", "sent"}]
         /\ \A t \in Task : initial'[t] = "none"
         /\ retry' \in Retry /\ retry'.now = Null /\ retry'.left = {}
         /\ started' \in BOOLEAN
         /\ tickInFlight' \in {"none", "tick", "wrapper"}
         /\ late' \in [Task -> {"none", "pending", "over"}]
         /\ delivered' \in [Task -> 0..2]
         /\ restarts' \in 0..MaxRestarts
<1>1. retry' \in Retry /\ retry'.now = Null /\ retry'.left = {}
  BY IdleType DEF LoseMemory
<1>2. restarts' \in 0..MaxRestarts /\ delivered' \in [Task -> 0..2]
  BY LimitAssumption DEF Typed, LoseMemory
<1>3. late' \in [Task -> {"none", "pending", "over"}]
  BY DEF Typed, LoseMemory
<1> QED
  BY <1>1, <1>2, <1>3 DEF Typed, LoseMemory

LEMMA TypeStep ==
  ASSUME Typed, Known, [Next]_vars
  PROVE  Typed' /\ Known'
<1>1. ASSUME NEW t \in Task, NEW written \in BOOLEAN, Complete(t, written)
      PROVE  Typed' /\ Known'
  BY <1>1 DEF Typed, Known, Complete
<1>2. ASSUME NEW t \in Task, InitialDelivers(t) PROVE Typed' /\ Known'
  BY <1>2 DEF Typed, Known, InitialDelivers, Deliver, record, rows
<1>3. ASSUME NEW t \in Task, InitialRejects(t) PROVE Typed' /\ Known'
  BY <1>3 DEF Typed, Known, InitialRejects, record, rows
<1>4. ASSUME NEW t \in Task, InitialTimesOut(t) PROVE Typed' /\ Known'
  BY <1>4 DEF Typed, Known, InitialTimesOut, Abandon, rows
<1>5. ASSUME NEW t \in Task, NEW ok \in BOOLEAN, InitialClears(t, ok)
      PROVE  Typed' /\ Known'
  BY <1>5 DEF Typed, Known, InitialClears, rows
<1>6. ASSUME NEW t \in Task, LateDelivers(t) PROVE Typed' /\ Known'
  BY <1>6 DEF Typed, Known, LateDelivers, Deliver, record, rows
<1>7. ASSUME NEW t \in Task, RetryDelivers(t) PROVE Typed' /\ Known'
  <2>1. retry' \in Retry /\ retry'.now = retry.now /\ retry'.left = retry.left
    BY <1>7 DEF Typed, RetryDelivers, Retry
  <2> QED
    BY <1>7, <2>1 DEF Typed, Known, RetryDelivers, Deliver, record, rows
<1>8. ASSUME NEW t \in Task, NEW ok \in BOOLEAN, RetryClears(t, ok)
      PROVE  Typed' /\ Known'
  BY <1>8, ClearsTypes DEF Typed, Known, Passed, RetryClears, TickOver, sends, rows
<1>9. ASSUME NEW t \in Task, RetryRejects(t) PROVE Typed' /\ Known'
  BY <1>9, MissesTypes DEF Typed, Known, Passed, RetryRejects, TickOver, sends, rows
<1>10. ASSUME NEW t \in Task, RetryTimesOut(t) PROVE Typed' /\ Known'
  BY <1>10, MissesTypes DEF Typed, Known, Passed, RetryTimesOut, TickOver, rows
<1>11. ASSUME NEW t \in Task, CrashBeforeStash(t) PROVE Typed' /\ Known'
  <2>1. /\ completed' \in SUBSET Task /\ completed \subseteq completed'
        /\ earlier' \in [Task -> SUBSET completed']
    BY <1>11 DEF Typed, CrashBeforeStash
  <2> QED
    BY <1>11, <2>1, CrashTypes DEF Typed, Known, CrashBeforeStash
<1>12. ASSUME ScheduledTick, UNCHANGED <<rows, sends, restarts>>,
              started' \in BOOLEAN
       PROVE  Typed' /\ Known'
  <2>1. CASE tickInFlight = "none"
    BY <1>12, <2>1, CallTypes DEF Typed, Known, Passed, ScheduledTick, sends, rows
  <2>2. CASE tickInFlight # "none"
    BY <1>12, <2>2 DEF Typed, Known, ScheduledTick, sends, rows
  <2> QED
    BY <2>1, <2>2
<1>13. CASE Start \/ IntervalTick
  BY <1>12, <1>13 DEF Start, IntervalTick, Typed
<1>14. CASE Stop
  BY <1>14 DEF Typed, Known, Stop, record, rows, sends
<1>15. CASE DrainOnce
  BY <1>15, CallTypes DEF Typed, Known, Passed, DrainOnce, sends, rows
<1>16. CASE Crash
  BY <1>16, CrashTypes DEF Typed, Known, Crash, rows
<1>17. CASE UNCHANGED vars
  BY <1>17 DEF Typed, Known, vars
<1> QED
  BY <1>1, <1>2, <1>3, <1>4, <1>5, <1>6, <1>7, <1>8, <1>9, <1>10, <1>11, <1>13,
     <1>14, <1>15, <1>16, <1>17 DEF Next

LEMMA TypeInvariant == Spec => [](Typed /\ Known)
BY InitType, TypeStep, PTL DEF Spec

-----------------------------------------------------------------------------
(* Completions are in a strict linear order, so a batch has no more than   *)
(* Limit entries, and what is left of it has fewer.                        *)

Order ==
  /\ \A t \in Task : t \notin earlier[t]
  /\ \A t, u \in completed : t # u => t \in earlier[u] \/ u \in earlier[t]
  /\ \A t, u \in completed : u \in earlier[t] => earlier[u] \subseteq earlier[t]

LEMMA OrderStep ==
  ASSUME Typed, Order, [Next]_vars
  PROVE  Order'
<1>1. ASSUME NEW t \in Task, t \notin completed, completed' = completed \cup {t},
             earlier' = [earlier EXCEPT ![t] = completed]
      PROVE  Order'
  <2>1. earlier'[t] = completed /\ \A u \in completed : earlier'[u] = earlier[u]
    BY <1>1 DEF Typed
  <2>2. \A u \in Task : u \notin earlier'[u]
    BY <1>1 DEF Typed, Order
  <2>3. \A v, u \in completed' : v # u => v \in earlier'[u] \/ u \in earlier'[v]
    BY <1>1, <2>1 DEF Typed, Order
  <2>4. \A v, u \in completed' : u \in earlier'[v] => earlier'[u] \subseteq earlier'[v]
    BY <1>1, <2>1 DEF Typed, Order
  <2> QED
    BY <2>2, <2>3, <2>4 DEF Order
<1>2. ASSUME UNCHANGED rows PROVE Order'
  BY <1>2 DEF Order, rows
<1>3. ASSUME NEW t \in Task, NEW written \in BOOLEAN, Complete(t, written)
      PROVE  Order'
  BY <1>1, <1>3 DEF Complete
<1>4. ASSUME NEW t \in Task, CrashBeforeStash(t) PROVE Order'
  BY <1>1, <1>4 DEF CrashBeforeStash
<1>5. ASSUME NEW t \in Task, NEW ok \in BOOLEAN,
             \/ InitialDelivers(t) \/ InitialRejects(t) \/ InitialTimesOut(t)
             \/ InitialClears(t, ok) \/ LateDelivers(t) \/ RetryDelivers(t)
             \/ RetryRejects(t) \/ RetryTimesOut(t) \/ RetryClears(t, ok)
      PROVE  UNCHANGED rows
  BY <1>5 DEF InitialDelivers, InitialRejects, InitialTimesOut, InitialClears,
     LateDelivers, RetryDelivers, RetryRejects, RetryTimesOut, RetryClears, record
<1>6. CASE Start \/ IntervalTick \/ Stop \/ DrainOnce \/ Crash \/ UNCHANGED vars
  BY <1>2, <1>6 DEF Start, IntervalTick, Stop, DrainOnce, Crash, record, vars, rows
<1> QED
  BY <1>2, <1>3, <1>4, <1>5, <1>6 DEF Next

LEMMA CompletedFinite ==
  ASSUME Typed, NEW S \in SUBSET completed
  PROVE  IsFiniteSet(S) /\ Cardinality(S) \in Nat
BY TaskAssumption, FS_Subset, FS_CardinalityType DEF Typed

(* The entries of a batch have different numbers of entries before them,   *)
(* all below Limit.                                                        *)
LEMMA BatchBound ==
  ASSUME Typed, Order, NEW S \in SUBSET completed
  PROVE  Cardinality(Batch(S)) <= Limit
<1> DEFINE Rank(t) == Cardinality(S \cap earlier[t])
           f == [t \in Batch(S) |-> Rank(t)]
<1>1. Batch(S) \in SUBSET completed /\ Batch(S) \subseteq S
  BY DEF Batch
<1>2. \A t \in S : Rank(t) \in Nat
  BY CompletedFinite
<1>3. \A t \in Batch(S) : Rank(t) \in 0..(Limit - 1)
  BY <1>1, <1>2, LimitAssumption DEF Batch
<1>4. IsFiniteSet(0..(Limit - 1)) /\ Cardinality(0..(Limit - 1)) = Limit
  BY FS_Interval, LimitAssumption
<1>5. ASSUME NEW t \in S, NEW u \in S, u \in earlier[t]
      PROVE  Rank(u) # Rank(t)
  <2>1. S \cap earlier[u] \in SUBSET (S \cap earlier[t])
    BY <1>5 DEF Order
  <2>2. S \cap earlier[u] # S \cap earlier[t]
    BY <1>5 DEF Order, Typed
  <2>3. IsFiniteSet(S \cap earlier[t])
    BY CompletedFinite
  <2> QED
    BY <2>1, <2>2, <2>3, FS_Subset
<1>6. \A t, u \in Batch(S) : t # u => f[t] # f[u]
  BY <1>1, <1>5 DEF Order
<1>7. f \in [Batch(S) -> 0..(Limit - 1)]
  BY <1>3
<1>8. IsFiniteSet(Batch(S)) /\ Cardinality(Batch(S)) \in Nat
  BY <1>1, CompletedFinite
<1> HIDE DEF f, Rank
<1>9. ~(Limit < Cardinality(Batch(S)))
  BY <1>4, <1>6, <1>7, <1>8, FS_PigeonHole
<1> QED
  BY <1>8, <1>9, LimitAssumption

LEMMA AfterSmaller ==
  ASSUME Typed, Order, NEW q \in SUBSET completed, NEW t \in q,
         Cardinality(q) <= Limit
  PROVE  Cardinality(After(t, q)) < Limit
<1>1. After(t, q) \in SUBSET (q \ {t})
  BY DEF After, Order, Typed
<1>2. IsFiniteSet(q) /\ Cardinality(q) \in Nat
  BY CompletedFinite
<1>3. IsFiniteSet(q \ {t}) /\ Cardinality(q \ {t}) = Cardinality(q) - 1
  BY <1>2, FS_RemoveElement
<1>4. Cardinality(After(t, q)) \in Nat /\ Cardinality(After(t, q)) <= Cardinality(q \ {t})
  BY <1>1, <1>3, FS_Subset, FS_CardinalityType
<1> QED
  BY <1>2, <1>3, <1>4, LimitAssumption

Snapshot == Cardinality(retry.left) < Limit

LEMMA IdleSnapshot == Cardinality(Idle.left) < Limit
BY IdleType, FS_EmptySet, LimitAssumption

LEMMA GoOnSnapshot ==
  ASSUME Typed, Order, NEW surface \in {"stash", "fallback"},
         NEW left \in SUBSET completed, Cardinality(left) <= Limit,
         NEW claims \in SUBSET Task, NEW marked \in SUBSET Task,
         NEW stashed \in SUBSET completed, NEW inMemory \in SUBSET completed,
         GoOn(surface, left, claims, marked, stashed, inMemory)
  PROVE  Snapshot'
<1> DEFINE rest1 == IF surface = "stash" THEN left ELSE {}
           rest2 == IF surface = "stash" THEN Batch(inMemory) ELSE left
<1>1. rest1 \in SUBSET completed /\ rest2 \in SUBSET completed
  BY DEF Batch
<1>2. Cardinality(rest1) <= Limit /\ Cardinality(rest2) <= Limit
  BY BatchBound, FS_EmptySet, LimitAssumption
<1>3. \/ \E t \in rest1 : Send(t, rest1, "stash", claims)
      \/ \E t \in rest2 : Send(t, rest2, "fallback", claims)
      \/ retry' = Idle
  BY DEF GoOn, First
<1> HIDE DEF rest1, rest2
<1>4. \/ \E t \in rest1 : retry'.left = After(t, rest1)
      \/ \E t \in rest2 : retry'.left = After(t, rest2)
      \/ retry' = Idle
  BY <1>3 DEF Send
<1> QED
  BY <1>1, <1>2, <1>4, AfterSmaller, IdleSnapshot DEF Snapshot

LEMMA SnapshotStep ==
  ASSUME Typed, Known, Order, Snapshot, [Next]_vars
  PROVE  Snapshot'
<1>1. Cardinality(retry.left) <= Limit
  BY CompletedFinite, LimitAssumption DEF Snapshot, Known
<1>2. ASSUME retry'.left = retry.left PROVE Snapshot'
  BY <1>2 DEF Snapshot
<1>3. ASSUME retry' = Idle PROVE Snapshot'
  BY <1>3, IdleSnapshot DEF Snapshot
<1>4. ASSUME RetryPendingBridges PROVE Snapshot'
  <2>1. Batch(stash) \in SUBSET completed /\ Cardinality(Batch(stash)) <= Limit
    BY BatchBound DEF Typed, Batch
  <2> QED
    BY <1>4, <2>1, GoOnSnapshot DEF Typed, RetryPendingBridges
<1>5. ASSUME NEW t \in Task, NEW ok \in BOOLEAN, RetryClears(t, ok)
      PROVE  Snapshot'
  <2> DEFINE marked == IF retry.surface = "stash" /\ ~ok THEN awaitingClear \cup {t}
                       ELSE awaitingClear \ {t}
             kept == IF retry.surface = "stash" /\ ok THEN stash \ {t} ELSE stash
  <2>1. marked \in SUBSET Task /\ kept \in SUBSET completed
    BY DEF Typed
  <2>2. inFlight \ {t} \in SUBSET Task /\ fallback \ {t} \in SUBSET completed
    BY DEF Typed
  <2>3. GoOn(retry.surface, retry.left, inFlight \ {t}, marked, kept, fallback \ {t})
    <3>1. CASE retry.surface = "stash" /\ ~ok
      BY <1>5, <3>1 DEF RetryClears
    <3>2. CASE ~(retry.surface = "stash" /\ ~ok)
      <4>1. GoOn(retry.surface, retry.left, inFlight \ {t}, awaitingClear \ {t},
                 IF retry.surface = "stash" THEN stash \ {t} ELSE stash,
                 fallback \ {t})
        BY <1>5, <3>2 DEF RetryClears
      <4>2. marked = awaitingClear \ {t}
            /\ kept = IF retry.surface = "stash" THEN stash \ {t} ELSE stash
        BY <3>2
      <4> HIDE DEF marked, kept
      <4> QED
        BY <4>1, <4>2
    <3> QED
      BY <3>1, <3>2
  <2>4. retry.surface \in {"stash", "fallback"} /\ retry.left \in SUBSET completed
    BY <1>5, RetryTypes DEF RetryClears
  <2> HIDE DEF marked, kept
  <2> QED
    BY <1>1, <2>1, <2>2, <2>3, <2>4, GoOnSnapshot
<1>6. ASSUME NEW t \in Task, RetryRejects(t) \/ RetryTimesOut(t) PROVE Snapshot'
  <2>1. retry.now = t /\ GoOn(retry.surface, retry.left, inFlight \ {t},
                             awaitingClear, stash, fallback)
    BY <1>6 DEF RetryRejects, RetryTimesOut
  <2> QED
    BY <1>1, <2>1, RetryTypes, GoOnSnapshot DEF Typed
<1>7. ASSUME NEW t \in Task, NEW ok \in BOOLEAN, NEW written \in BOOLEAN,
             \/ Complete(t, written) \/ InitialDelivers(t) \/ InitialRejects(t)
             \/ InitialTimesOut(t) \/ InitialClears(t, ok) \/ LateDelivers(t)
      PROVE  Snapshot'
  BY <1>2, <1>7 DEF Complete, InitialDelivers, InitialRejects, InitialTimesOut,
     InitialClears, LateDelivers
<1>8. ASSUME NEW t \in Task, RetryDelivers(t) PROVE Snapshot'
  BY <1>2, <1>8 DEF RetryDelivers, Typed, Retry
<1>9. ASSUME NEW t \in Task, CrashBeforeStash(t) PROVE Snapshot'
  BY <1>3, <1>9 DEF CrashBeforeStash, LoseMemory
<1>10. CASE Start \/ IntervalTick
  BY <1>2, <1>4, <1>10 DEF Start, IntervalTick, ScheduledTick
<1>11. CASE Stop \/ UNCHANGED vars
  BY <1>2, <1>11 DEF Stop, vars
<1>12. CASE DrainOnce
  BY <1>4, <1>12 DEF DrainOnce
<1>13. CASE Crash
  BY <1>3, <1>13 DEF Crash, LoseMemory
<1> QED
  BY <1>5, <1>6, <1>7, <1>8, <1>9, <1>10, <1>11, <1>12, <1>13 DEF Next

(* The bridge keeps its types: what is recorded has completed, completions *)
(* are ordered, and what is left of a call's snapshot fits into a batch.   *)
THEOREM TypeCorrect == Spec => []TypeOK
<1>1. Init => Order /\ Snapshot
  BY IdleSnapshot DEF Init, Order, Snapshot
<1>2. Typed /\ Order /\ Snapshot => TypeOK
  BY DEF Typed, Order, Snapshot, TypeOK
<1> QED
  BY <1>1, <1>2, TypeInvariant, OrderStep, SnapshotStep, PTL DEF Spec

-----------------------------------------------------------------------------
(* Claims.                                                                 *)

(* The claims without the one of the retries.                              *)
FirstSends == {t \in Task : initial[t] # "none"}

LEMMA ClaimsStep ==
  ASSUME Typed, Known, ClaimsMatchSends, [Next]_vars
  PROVE  ClaimsMatchSends'
<1>1. ASSUME NEW surface \in {"stash", "fallback"},
             NEW left \in SUBSET completed, NEW claims \in SUBSET Task,
             NEW marked \in SUBSET Task, NEW stashed \in SUBSET completed,
             NEW inMemory \in SUBSET completed,
             GoOn(surface, left, claims, marked, stashed, inMemory),
             claims = FirstSends, initial' = initial
      PROVE  ClaimsMatchSends'
  <2>1. CASE \E t \in completed \ claims : SendsNext(t, claims)
    BY <1>1, <2>1 DEF Typed, SendsNext, FirstSends, ClaimsMatchSends
  <2>2. CASE Ends(claims)
    BY <1>1, <2>2, IdleType, TaskAssumption
    DEF Typed, Ends, FirstSends, ClaimsMatchSends
  <2> QED
    BY <1>1, <2>1, <2>2, GoOnEffect DEF Typed
<1>2. ASSUME RetryPendingBridges, initial' = initial PROVE ClaimsMatchSends'
  <2>1. Batch(stash) \in SUBSET completed
    BY DEF Typed, Batch
  <2>2. inFlight = FirstSends
    BY <1>2, IdleType, TaskAssumption
    DEF RetryPendingBridges, ClaimsMatchSends, FirstSends
  <2> QED
    BY <1>1, <1>2, <2>1, <2>2 DEF Typed, RetryPendingBridges
<1>3. ASSUME NEW t \in Task, retry.now = t
      PROVE  inFlight \ {t} = FirstSends
  BY <1>3 DEF ClaimsMatchSends, FirstSends
<1>4. ASSUME NEW t \in Task, NEW ok \in BOOLEAN, RetryClears(t, ok)
      PROVE  ClaimsMatchSends'
  <2> DEFINE kept == IF retry.surface = "stash" THEN stash \ {t} ELSE stash
  <2>1. retry.now = t /\ initial' = initial
    BY <1>4 DEF RetryClears, sends
  <2>2. kept \in SUBSET completed /\ fallback \ {t} \in SUBSET completed
        /\ inFlight \ {t} \in SUBSET Task
        /\ awaitingClear \ {t} \in SUBSET Task /\ awaitingClear \cup {t} \in SUBSET Task
    BY DEF Typed
  <2>3. \/ GoOn(retry.surface, retry.left, inFlight \ {t}, awaitingClear \cup {t},
                stash, fallback \ {t})
        \/ GoOn(retry.surface, retry.left, inFlight \ {t}, awaitingClear \ {t},
                kept, fallback \ {t})
    BY <1>4 DEF RetryClears
  <2> HIDE DEF kept
  <2> QED
    BY <1>1, <1>3, <2>1, <2>2, <2>3, RetryTypes DEF Typed
<1>5. ASSUME NEW t \in Task, RetryRejects(t) \/ RetryTimesOut(t)
      PROVE  ClaimsMatchSends'
  <2>1. /\ retry.now = t /\ initial' = initial
        /\ GoOn(retry.surface, retry.left, inFlight \ {t},
                awaitingClear, stash, fallback)
    BY <1>5 DEF RetryRejects, RetryTimesOut, sends
  <2>2. inFlight \ {t} \in SUBSET Task /\ awaitingClear \in SUBSET Task
        /\ stash \in SUBSET completed /\ fallback \in SUBSET completed
    BY DEF Typed
  <2>3. inFlight \ {t} = FirstSends
    BY <1>3, <2>1
  <2> QED
    BY <1>1, <2>1, <2>2, <2>3, RetryTypes
<1>6. ASSUME NEW t \in Task, NEW written \in BOOLEAN, Complete(t, written)
      PROVE  ClaimsMatchSends'
  <2>1. retry.now # t
    BY <1>6, TaskAssumption DEF Complete, Known
  <2> QED
    BY <1>6, <2>1 DEF Typed, Complete, ClaimsMatchSends
<1>7. ASSUME NEW t \in Task, InitialDelivers(t) PROVE ClaimsMatchSends'
  BY <1>7 DEF Typed, InitialDelivers, ClaimsMatchSends
<1>8. ASSUME NEW t \in Task, NEW ok \in BOOLEAN,
             InitialRejects(t) \/ InitialTimesOut(t) \/ InitialClears(t, ok)
      PROVE  ClaimsMatchSends'
  <2>1. initial' = [initial EXCEPT ![t] = "none"] /\ inFlight' = inFlight \ {t}
        /\ retry' = retry /\ initial[t] # "none"
    BY <1>8 DEF InitialRejects, InitialTimesOut, InitialClears
  <2> QED
    BY <2>1 DEF Typed, ClaimsMatchSends
<1>9. ASSUME NEW t \in Task, LateDelivers(t) PROVE ClaimsMatchSends'
  BY <1>9 DEF LateDelivers, ClaimsMatchSends
<1>10. ASSUME NEW t \in Task, RetryDelivers(t) PROVE ClaimsMatchSends'
  BY <1>10 DEF Typed, Retry, RetryDelivers, ClaimsMatchSends
<1>11. ASSUME LoseMemory PROVE ClaimsMatchSends'
  BY <1>11, IdleType, TaskAssumption DEF LoseMemory, ClaimsMatchSends
<1>12. CASE Start \/ IntervalTick
  <2>1. CASE RetryPendingBridges
    BY <1>2, <1>12, <2>1 DEF Start, IntervalTick, sends
  <2>2. CASE UNCHANGED <<inFlight, retry, initial>>
    BY <2>2 DEF ClaimsMatchSends
  <2> QED
    BY <1>12, <2>1, <2>2 DEF Start, IntervalTick, ScheduledTick, sends
<1>13. CASE DrainOnce
  BY <1>2, <1>13 DEF DrainOnce, sends
<1>14. CASE Stop \/ UNCHANGED vars
  BY <1>14 DEF Stop, sends, vars, ClaimsMatchSends
<1> QED
  BY <1>4, <1>5, <1>6, <1>7, <1>8, <1>9, <1>10, <1>11, <1>12, <1>13, <1>14
  DEF Next, Crash, CrashBeforeStash

(* The claims are exactly the tasks being sent, each by one attempt, with  *)
(* any number of tasks, crashes and attempts that are given up.            *)
THEOREM ClaimsAreSends == Spec => []ClaimsMatchSends
<1>1. Init => ClaimsMatchSends
  BY IdleType, TaskAssumption DEF Init, ClaimsMatchSends
<1> QED
  BY <1>1, TypeInvariant, ClaimsStep, PTL DEF Spec

-----------------------------------------------------------------------------
(* Records.                                                                *)

(* What went out, and only that, is on its way to being cleared.           *)
Settled ==
  /\ \A t \in Task : initial[t] = "sent" => delivered[t] > 0
  /\ retry.now # Null /\ retry.sent => delivered[retry.now] > 0
  /\ \A t \in awaitingClear : delivered[t] > 0

Keeps ==
  \A t \in Task : Recorded(t) /\ ~Recorded(t)' =>
    delivered[t] > 0 \/ (t \notin stash /\ restarts' # restarts)

(* The block of the retries clears nothing but what was delivered.         *)
LEMMA GoOnKeeps ==
  ASSUME Typed, NEW surface \in {"stash", "fallback"},
         NEW left \in SUBSET completed, NEW claims \in SUBSET Task,
         NEW marked \in SUBSET Task, NEW stashed \in SUBSET completed,
         NEW inMemory \in SUBSET completed,
         GoOn(surface, left, claims, marked, stashed, inMemory),
         delivered' = delivered,
         \A t \in marked : delivered[t] > 0,
         \A t \in stash \ stashed : delivered[t] > 0,
         \A t \in fallback \ inMemory : delivered[t] > 0
  PROVE  /\ \A t \in awaitingClear' : delivered'[t] > 0
         /\ retry'.now # Null => ~retry'.sent
         /\ Keeps
<1>1. /\ fallback' = inMemory
      /\ \E freed \in SUBSET marked :
           awaitingClear' = marked \ freed /\ stash' = stashed \ freed
      /\ (\E t \in completed \ claims : SendsNext(t, claims)) \/ Ends(claims)
  BY GoOnEffect DEF Typed
<1>2. retry'.now # Null => ~retry'.sent
  BY <1>1, IdleType DEF SendsNext, Ends
<1>3. \A t \in awaitingClear' : delivered'[t] > 0
  BY <1>1
<1>4. Keeps
  BY <1>1 DEF Keeps, Recorded
<1> QED
  BY <1>2, <1>3, <1>4

LEMMA SettledStep ==
  ASSUME Typed, Known, Settled, [Next]_vars
  PROVE  Settled' /\ Keeps
<1>1. ASSUME NEW surface \in {"stash", "fallback"},
             NEW left \in SUBSET completed, NEW claims \in SUBSET Task,
             NEW marked \in SUBSET Task, NEW stashed \in SUBSET completed,
             NEW inMemory \in SUBSET completed,
             GoOn(surface, left, claims, marked, stashed, inMemory),
             delivered' = delivered, initial' = initial,
             \A t \in marked : delivered[t] > 0,
             \A t \in stash \ stashed : delivered[t] > 0,
             \A t \in fallback \ inMemory : delivered[t] > 0
      PROVE  Settled' /\ Keeps
  BY <1>1, GoOnKeeps DEF Settled
<1>2. ASSUME RetryPendingBridges, delivered' = delivered, initial' = initial
      PROVE  Settled' /\ Keeps
  <2>1. Batch(stash) \in SUBSET completed
    BY DEF Typed, Batch
  <2> QED
    BY <1>1, <1>2, <2>1 DEF Typed, Settled, RetryPendingBridges
<1>3. ASSUME NEW t \in Task, retry.now = t PROVE t # Null
  BY <1>3, TaskAssumption
<1>4. ASSUME NEW t \in Task, NEW ok \in BOOLEAN, RetryClears(t, ok)
      PROVE  Settled' /\ Keeps
  <2> DEFINE kept == IF retry.surface = "stash" THEN stash \ {t} ELSE stash
  <2>1. /\ retry.now = t /\ retry.sent
        /\ initial' = initial /\ delivered' = delivered
    BY <1>4 DEF RetryClears, sends
  <2>2. delivered[t] > 0
    BY <1>3, <2>1 DEF Settled
  <2>3. kept \in SUBSET completed /\ fallback \ {t} \in SUBSET completed
        /\ inFlight \ {t} \in SUBSET Task
        /\ awaitingClear \ {t} \in SUBSET Task /\ awaitingClear \cup {t} \in SUBSET Task
        /\ stash \in SUBSET completed
    BY DEF Typed
  <2>4. /\ \A u \in stash \ kept : delivered[u] > 0
        /\ \A u \in fallback \ (fallback \ {t}) : delivered[u] > 0
        /\ \A u \in awaitingClear \ {t} : delivered[u] > 0
        /\ \A u \in awaitingClear \cup {t} : delivered[u] > 0
    BY <2>2 DEF Settled
  <2>5. \/ GoOn(retry.surface, retry.left, inFlight \ {t}, awaitingClear \cup {t},
                stash, fallback \ {t})
        \/ GoOn(retry.surface, retry.left, inFlight \ {t}, awaitingClear \ {t},
                kept, fallback \ {t})
    BY <1>4 DEF RetryClears
  <2> HIDE DEF kept
  <2> QED
    BY <1>1, <2>1, <2>3, <2>4, <2>5, RetryTypes
<1>5. ASSUME NEW t \in Task, RetryRejects(t) \/ RetryTimesOut(t)
      PROVE  Settled' /\ Keeps
  <2>1. /\ retry.now = t /\ initial' = initial /\ delivered' = delivered
        /\ GoOn(retry.surface, retry.left, inFlight \ {t},
                awaitingClear, stash, fallback)
    BY <1>5 DEF RetryRejects, RetryTimesOut, sends
  <2>2. inFlight \ {t} \in SUBSET Task
    BY DEF Typed
  <2> QED
    BY <1>1, <2>1, <2>2, RetryTypes DEF Typed, Settled
<1>6. ASSUME NEW t \in Task, NEW written \in BOOLEAN, Complete(t, written)
      PROVE  Settled' /\ Keeps
  <2>1. Settled'
    BY <1>6 DEF Complete, Typed, Settled
  <2>2. Keeps
    BY <1>6 DEF Complete, Keeps, Recorded
  <2> QED
    BY <2>1, <2>2
<1>7. ASSUME NEW t \in Task, Deliver(t), UNCHANGED <<record, awaitingClear>>,
             \A u \in Task : initial'[u] = "sent" => u = t \/ initial[u] = "sent",
             retry'.now = retry.now,
             retry'.sent => retry.sent \/ retry.now = t
      PROVE  Settled' /\ Keeps
  <2>1. delivered'[t] > 0 /\ \A u \in Task \ {t} : delivered'[u] = delivered[u]
    BY <1>7 DEF Deliver, Typed
  <2>2. \A u \in Task : delivered[u] > 0 => delivered'[u] > 0
    BY <2>1
  <2>3. retry.now \in Task \cup {Null} /\ awaitingClear \subseteq Task
    BY DEF Typed, Retry
  <2>4. Settled'
    BY <1>7, <2>1, <2>2, <2>3 DEF Settled
  <2>5. Keeps
    BY <1>7 DEF record, Keeps, Recorded
  <2> QED
    BY <2>4, <2>5
<1>8. ASSUME NEW t \in Task, InitialDelivers(t) PROVE Settled' /\ Keeps
  <2>1. \A u \in Task : initial'[u] = "sent" => u = t \/ initial[u] = "sent"
    BY <1>8 DEF InitialDelivers, Typed
  <2> QED
    BY <1>7, <1>8, <2>1 DEF InitialDelivers
<1>9. ASSUME NEW t \in Task, LateDelivers(t) PROVE Settled' /\ Keeps
  BY <1>7, <1>9 DEF LateDelivers
<1>10. ASSUME NEW t \in Task, RetryDelivers(t) PROVE Settled' /\ Keeps
  <2>1. retry'.now = retry.now /\ retry.now = t
    BY <1>10 DEF RetryDelivers, Typed, Retry
  <2> QED
    BY <1>7, <1>10, <2>1 DEF RetryDelivers
<1>11. ASSUME NEW t \in Task, NEW ok \in BOOLEAN, InitialClears(t, ok)
       PROVE  Settled' /\ Keeps
  <2>1. delivered[t] > 0 /\ delivered' = delivered /\ retry' = retry
    BY <1>11 DEF InitialClears, Settled
  <2>2. \A u \in Task : initial'[u] = "sent" => initial[u] = "sent"
    BY <1>11 DEF InitialClears, Typed
  <2>3. /\ \A u \in awaitingClear' : u = t \/ u \in awaitingClear
        /\ \A u \in Task \ {t} : Recorded(u) => Recorded(u)'
    BY <1>11 DEF InitialClears, Recorded
  <2>4. Settled'
    BY <2>1, <2>2, <2>3 DEF Settled
  <2>5. Keeps
    BY <2>1, <2>3 DEF Keeps
  <2> QED
    BY <2>4, <2>5
<1>12. ASSUME NEW t \in Task, InitialRejects(t) \/ InitialTimesOut(t)
       PROVE  Settled' /\ Keeps
  <2>1. /\ UNCHANGED <<delivered, retry, awaitingClear, stash, fallback>>
        /\ initial' = [initial EXCEPT ![t] = "none"]
    BY <1>12 DEF InitialRejects, InitialTimesOut, Abandon, record
  <2>2. Settled'
    BY <2>1 DEF Typed, Settled
  <2>3. Keeps
    BY <2>1 DEF Keeps, Recorded
  <2> QED
    BY <2>2, <2>3
<1>13. ASSUME LoseMemory PROVE Settled' /\ Keeps
  <2>1. Settled'
    BY <1>13, IdleType DEF LoseMemory, Settled
  <2>2. restarts' # restarts /\ stash' = stash
    BY <1>13, BoundsType DEF LoseMemory, Typed
  <2>3. Keeps
    BY <2>2 DEF Keeps, Recorded
  <2> QED
    BY <2>1, <2>3
<1>14. ASSUME UNCHANGED <<record, awaitingClear, retry, initial, delivered>>
       PROVE  Settled' /\ Keeps
  BY <1>14 DEF record, Settled, Keeps, Recorded
<1>15. CASE Start \/ IntervalTick
  <2>1. CASE RetryPendingBridges
    BY <1>2, <1>15, <2>1 DEF Start, IntervalTick, sends
  <2>2. CASE UNCHANGED <<stash, fallback, awaitingClear, retry>>
    BY <1>14, <1>15, <2>2 DEF Start, IntervalTick, sends, record
  <2> QED
    BY <1>15, <2>1, <2>2 DEF Start, IntervalTick, ScheduledTick
<1>16. CASE DrainOnce
  BY <1>2, <1>16 DEF DrainOnce, sends
<1>17. CASE Stop \/ UNCHANGED vars
  BY <1>14, <1>17 DEF Stop, sends, record, rows, vars
<1> QED
  BY <1>4, <1>5, <1>6, <1>8, <1>9, <1>10, <1>11, <1>12, <1>13, <1>15, <1>16, <1>17
  DEF Next, Crash, CrashBeforeStash

(* Nothing takes a delivery back or a crash, and what completes outside    *)
(* one is recorded.                                                        *)
LEMMA GrowthStep ==
  ASSUME Typed, [Next]_vars
  PROVE  /\ \A t \in Task : delivered[t] > 0 => delivered'[t] > 0
         /\ restarts > 0 => restarts' > 0
         /\ \A t \in completed' \ completed : Recorded(t)' \/ restarts' > 0
<1>1. ASSUME NEW t \in Task, Deliver(t)
      PROVE  \A u \in Task : delivered[u] > 0 => delivered'[u] > 0
  BY <1>1 DEF Deliver, Typed
<1>2. ASSUME NEW t \in Task, NEW ok \in BOOLEAN, NEW written \in BOOLEAN,
             \/ Complete(t, written) \/ InitialRejects(t) \/ InitialTimesOut(t)
             \/ InitialClears(t, ok) \/ RetryRejects(t) \/ RetryTimesOut(t)
             \/ RetryClears(t, ok)
      PROVE  delivered' = delivered /\ restarts' = restarts
  BY <1>2 DEF Complete, InitialRejects, InitialTimesOut, InitialClears,
     RetryRejects, RetryTimesOut, RetryClears, sends
<1>3. ASSUME NEW t \in Task, NEW written \in BOOLEAN, Complete(t, written)
      PROVE  \A u \in completed' \ completed : Recorded(u)'
  BY <1>3 DEF Complete, Recorded
<1>4. ASSUME NEW t \in Task, NEW ok \in BOOLEAN,
             \/ InitialRejects(t) \/ InitialTimesOut(t)
             \/ InitialClears(t, ok) \/ RetryRejects(t) \/ RetryTimesOut(t)
             \/ RetryClears(t, ok)
      PROVE  completed' = completed
  BY <1>4 DEF InitialRejects, InitialTimesOut, InitialClears,
     RetryRejects, RetryTimesOut, RetryClears, record, rows
<1>5. ASSUME NEW t \in Task,
             InitialDelivers(t) \/ LateDelivers(t) \/ RetryDelivers(t)
      PROVE  Deliver(t) /\ completed' = completed /\ restarts' = restarts
  BY <1>5 DEF InitialDelivers, LateDelivers, RetryDelivers, record, rows
<1>6. ASSUME LoseMemory PROVE delivered' = delivered /\ restarts' > 0
  BY <1>6, BoundsType DEF LoseMemory, Typed
<1>7. ASSUME Start \/ IntervalTick \/ Stop \/ DrainOnce \/ UNCHANGED vars
      PROVE  delivered' = delivered /\ completed' = completed /\ restarts' = restarts
  BY <1>7 DEF Start, IntervalTick, Stop, DrainOnce, vars, sends, record, rows
<1> QED
  BY <1>1, <1>2, <1>3, <1>4, <1>5, <1>6, <1>7 DEF Next, Crash, CrashBeforeStash

LEMMA SettledInvariant == Spec => [](Typed /\ Known /\ Settled)
<1>1. Init => Settled
  BY IdleType DEF Init, Settled
<1> QED
  BY <1>1, TypeInvariant, SettledStep, PTL DEF Spec

(* The record of a response outlives everything but its delivery: the      *)
(* timeouts, the failed writes and, in the table, the crashes.             *)
THEOREM RecordOutlives == Spec => RecordKeptUntilDelivered
<1>1. Typed /\ Known /\ Settled /\ [Next]_vars =>
        [\A t \in Task : Recorded(t) /\ ~Recorded(t)' =>
           delivered[t] > 0 \/ (t \notin stash /\ restarts' # restarts)]_vars
  BY SettledStep DEF Keeps
<1> QED
  BY <1>1, SettledInvariant, PTL DEF Spec, RecordKeptUntilDelivered

(* Without a crash the retries reach every response that did not go out.   *)
THEOREM NothingUnreachable == Spec => []UndeliveredIsRetryable
<1>1. Init => UndeliveredIsRetryable
  BY DEF Init, UndeliveredIsRetryable
<1>2. ASSUME Typed, Known, Settled, UndeliveredIsRetryable, [Next]_vars
      PROVE  UndeliveredIsRetryable'
  <2>1. Typed' /\ Settled' /\ Keeps
    BY <1>2, TypeStep, SettledStep
  <2> SUFFICES ASSUME NEW t \in completed', delivered'[t] = 0, restarts' = 0
               PROVE  Recorded(t)' /\ t \notin awaitingClear'
    BY DEF UndeliveredIsRetryable
  <2>2. t \in Task /\ restarts \in Nat /\ delivered[t] \in Nat
    BY <1>2, <2>1, BoundsType DEF Typed
  <2>3. t \notin awaitingClear'
    BY <2>1 DEF Settled
  <2>4. restarts = 0 /\ delivered[t] = 0
    BY <1>2, <2>2, GrowthStep
  <2>5. CASE t \in completed
    <3>1. Recorded(t)
      BY <1>2, <2>4, <2>5 DEF UndeliveredIsRetryable
    <3> QED
      BY <2>1, <2>2, <2>3, <2>4, <3>1 DEF Keeps
  <2>6. CASE t \notin completed
    BY <1>2, <2>3, <2>6, GrowthStep
  <2> QED
    BY <2>5, <2>6
<1> QED
  BY <1>1, <1>2, SettledInvariant, PTL DEF Spec

-----------------------------------------------------------------------------
(* Second responses.                                                       *)

(* What is marked was taken from the map, the map and the table never hold *)
(* the same task, a first send is the first, and the retries send neither  *)
(* what is marked nor, from the map, what is in the table.                 *)
RetryApart ==
  /\ retry.now \notin awaitingClear
  /\ retry.surface = "fallback" =>
       retry.now \notin stash /\ retry.left \cap stash = {}

Apart ==
  /\ stash \cap fallback = {} /\ awaitingClear \cap fallback = {}
  /\ \A t \in Task : delivered[t] > 0 \/ late[t] # "none" =>
       t \in completed /\ initial[t] # "sending"
  /\ RetryApart

(* What went out is being cleared, is marked, or has no record.            *)
Cleared ==
  \A t \in Task : delivered[t] > 0 /\ late[t] = "none" /\ restarts = 0 =>
    \/ initial[t] = "sent" \/ (retry.now = t /\ retry.sent)
    \/ t \in awaitingClear \/ ~Recorded(t)

(* Where the next entry comes from.                                        *)
LEMMA GoOnNext ==
  ASSUME completed \subseteq Task, NEW surface \in {"stash", "fallback"},
         NEW left \in SUBSET completed, NEW claims \in SUBSET Task,
         NEW marked \in SUBSET Task, NEW stashed \in SUBSET completed,
         NEW inMemory \in SUBSET completed,
         GoOn(surface, left, claims, marked, stashed, inMemory)
  PROVE  \/ Ends(claims)
         \/ \E t \in completed \ claims :
              /\ SendsNext(t, claims) /\ t \notin awaitingClear'
              /\ \/ /\ surface = "stash" /\ retry'.surface = "stash"
                    /\ t \in left /\ t \notin marked /\ retry'.left \subseteq left
                 \/ /\ retry'.surface = "fallback"
                    /\ {t} \cup retry'.left
                         \subseteq IF surface = "stash" THEN inMemory ELSE left
<1> DEFINE rest1 == IF surface = "stash" THEN left ELSE {}
           rest2 == IF surface = "stash" THEN Batch(inMemory) ELSE left
<1>1. PICK freed \in SUBSET (marked \ claims) :
        LET next1 == First(rest1 \ (claims \cup marked))
            next2 == First(rest2 \ (claims \cup (marked \ freed)))
        IN /\ awaitingClear' = marked \ freed
           /\ \/ \E t \in next1 : Send(t, rest1, "stash", claims)
              \/ next1 = {} /\ \E t \in next2 : Send(t, rest2, "fallback", claims)
              \/ next1 = {} /\ next2 = {} /\ retry' = Idle /\ inFlight' = claims
  BY DEF GoOn
<1>2. /\ rest1 \in SUBSET completed /\ rest2 \in SUBSET completed
      /\ rest1 \subseteq left /\ (rest1 # {} => surface = "stash")
      /\ rest2 \subseteq IF surface = "stash" THEN inMemory ELSE left
  BY DEF Batch
<1> HIDE DEF rest1, rest2
<1>3. CASE \E t \in First(rest1 \ (claims \cup marked)) :
             Send(t, rest1, "stash", claims)
  <2>1. PICK t \in First(rest1 \ (claims \cup marked)) :
          Send(t, rest1, "stash", claims)
    BY <1>3
  <2>2. t \in rest1 /\ t \notin claims /\ t \notin marked
    BY <2>1 DEF First
  <2>3. SendsNext(t, claims) /\ retry'.surface = "stash" /\ retry'.left \subseteq rest1
    BY <2>1 DEF Send, SendsNext, After
  <2> QED
    BY <1>1, <1>2, <2>2, <2>3
<1>4. CASE \E t \in First(rest2 \ (claims \cup (marked \ freed))) :
             Send(t, rest2, "fallback", claims)
  <2>1. PICK t \in First(rest2 \ (claims \cup (marked \ freed))) :
          Send(t, rest2, "fallback", claims)
    BY <1>4
  <2>2. t \in rest2 /\ t \notin claims /\ t \notin marked \ freed
    BY <2>1 DEF First
  <2>3. SendsNext(t, claims) /\ retry'.surface = "fallback"
        /\ retry'.left \subseteq rest2
    BY <2>1 DEF Send, SendsNext, After
  <2> QED
    BY <1>1, <1>2, <2>2, <2>3
<1> QED
  BY <1>1, <1>3, <1>4 DEF Ends

(* The block of the retries keeps both, if what it drops from the two      *)
(* surfaces has no other record and was delivered, and what it keeps of    *)
(* the call's own task is marked.                                          *)
LEMMA GoOnApart ==
  ASSUME Typed, Known, ClaimsMatchSends, Apart, Cleared, NEW surface \in {"stash", "fallback"},
         NEW left \in SUBSET completed, NEW claims \in SUBSET Task,
         NEW marked \in SUBSET Task, NEW stashed \in SUBSET stash,
         NEW inMemory \in SUBSET fallback,
         GoOn(surface, left, claims, marked, stashed, inMemory),
         UNCHANGED <<rows, initial, delivered, restarts>>,
         \A t \in Task : late[t] # "none" => late'[t] # "none",
         \A t \in Task : late'[t] # "none" => late[t] # "none" \/ retry.now = t,
         marked \cap inMemory = {},
         surface = "fallback" => left \cap stash = {},
         \A t \in Task : t \in awaitingClear \/ (retry.now = t /\ retry.sent) =>
           \/ t \in marked \/ t \notin stashed \cup inMemory
           \/ late'[t] # "none"
  PROVE  Apart' /\ Cleared'
<1>1. /\ completed \subseteq Task
      /\ stashed \in SUBSET completed /\ inMemory \in SUBSET completed
  BY DEF Typed
<1>2. PICK freed \in SUBSET marked :
        awaitingClear' = marked \ freed /\ stash' = stashed \ freed
  BY GoOnDrops
<1>3. fallback' = inMemory
  BY GoOnDrops
<1>4. stash' \subseteq stash /\ fallback' \subseteq fallback
      /\ awaitingClear' \subseteq marked
  BY <1>2, <1>3
<1>5. RetryApart'
  <2>1. CASE Ends(claims)
    <3>1. retry'.now = Null /\ retry'.surface = "stash"
      BY <2>1 DEF Ends, Idle
    <3> QED
      BY <1>4, <3>1, TaskAssumption DEF RetryApart
  <2>2. ASSUME NEW t \in completed \ claims, SendsNext(t, claims),
               t \notin awaitingClear', retry'.surface = "stash"
        PROVE  RetryApart'
    BY <2>2 DEF SendsNext, RetryApart
  <2>3. ASSUME NEW t \in completed \ claims, SendsNext(t, claims),
               t \notin awaitingClear',
               {t} \cup retry'.left
                 \subseteq IF surface = "stash" THEN inMemory ELSE left
        PROVE  RetryApart'
    BY <1>4, <2>3 DEF SendsNext, Apart, RetryApart
  <2> QED
    BY <1>1, <2>1, <2>2, <2>3, GoOnNext DEF Typed
<1>6. Apart'
  BY <1>3, <1>4, <1>5, TaskAssumption DEF Apart, rows, Known, ClaimsMatchSends
<1>7. Cleared'
  <2> SUFFICES ASSUME NEW t \in Task, delivered'[t] > 0, late'[t] = "none",
                      restarts' = 0, initial'[t] # "sent", t \notin awaitingClear'
               PROVE  ~Recorded(t)'
    BY DEF Cleared
  <2>1. /\ delivered[t] > 0 /\ late[t] = "none" /\ restarts = 0
        /\ initial[t] # "sent"
    OBVIOUS
  <2>2. t \in freed \/ t \notin marked
    BY <1>2
  <2>3. CASE t \in freed
    BY <1>2, <1>3, <2>3 DEF Recorded
  <2>4. CASE t \notin marked
    <3>1. t \notin stashed \cup inMemory \/ ~Recorded(t)
      BY <2>1, <2>4 DEF Cleared
    <3> QED
      BY <1>2, <1>3, <3>1 DEF Recorded
  <2> QED
    BY <2>2, <2>3, <2>4
<1> QED
  BY <1>6, <1>7

LEMMA CallApart ==
  ASSUME Typed, Known, ClaimsMatchSends, Apart, Cleared, RetryPendingBridges,
         UNCHANGED <<rows, initial, delivered, late, restarts>>
  PROVE  Apart' /\ Cleared'
<1>1. Batch(stash) \in SUBSET completed
  BY DEF Typed, Batch
<1>2. \A t \in Task : retry.now # t
  BY IdleType, TaskAssumption DEF RetryPendingBridges
<1>3. awaitingClear \cap fallback = {}
  BY DEF Apart
<1> QED
  BY <1>1, <1>2, <1>3, GoOnApart DEF Typed, RetryPendingBridges

LEMMA ClearsApart ==
  ASSUME Typed, Known, ClaimsMatchSends, Apart, Cleared,
         NEW t \in Task, NEW ok \in BOOLEAN, RetryClears(t, ok)
  PROVE  Apart' /\ Cleared'
<1>1. /\ retry.now = t /\ retry.sent
      /\ UNCHANGED <<rows, initial, delivered, late, restarts>>
  BY DEF RetryClears, sends
<1>2. /\ retry.surface \in {"stash", "fallback"} /\ retry.left \in SUBSET completed
      /\ inFlight \ {t} \in SUBSET Task
      /\ fallback \ {t} \in SUBSET fallback /\ stash \in SUBSET stash
      /\ awaitingClear \cup {t} \in SUBSET Task /\ awaitingClear \ {t} \in SUBSET Task
  BY <1>1, RetryTypes DEF Typed
<1>3. /\ (awaitingClear \cup {t}) \cap (fallback \ {t}) = {}
      /\ (awaitingClear \ {t}) \cap (fallback \ {t}) = {}
      /\ retry.surface = "fallback" => retry.left \cap stash = {} /\ t \notin stash
  BY <1>1 DEF Apart, RetryApart
<1>4. CASE retry.surface = "stash" /\ ~ok
  <2>1. GoOn(retry.surface, retry.left, inFlight \ {t}, awaitingClear \cup {t},
             stash, fallback \ {t})
    BY <1>4 DEF RetryClears
  <2> QED
    BY <1>1, <1>2, <1>3, <2>1, GoOnApart
<1>5. CASE ~(retry.surface = "stash" /\ ~ok)
  <2> DEFINE kept == IF retry.surface = "stash" THEN stash \ {t} ELSE stash
  <2>1. GoOn(retry.surface, retry.left, inFlight \ {t}, awaitingClear \ {t},
             kept, fallback \ {t})
    BY <1>5 DEF RetryClears
  <2>2. kept \in SUBSET stash /\ t \notin kept
    BY <1>2, <1>3
  <2>3. \A u \in Task : u \in awaitingClear \/ (retry.now = u /\ retry.sent) =>
          u \in awaitingClear \ {t} \/ u \notin kept \cup (fallback \ {t})
    BY <1>1, <2>2
  <2> HIDE DEF kept
  <2> QED
    BY <1>1, <1>2, <1>3, <2>1, <2>2, <2>3, GoOnApart
<1> QED
  BY <1>4, <1>5

LEMMA MissesApart ==
  ASSUME Typed, Known, ClaimsMatchSends, Apart, Cleared, NEW t \in Task,
         RetryRejects(t) \/ RetryTimesOut(t)
  PROVE  Apart' /\ Cleared'
<1>1. /\ retry.now = t
      /\ UNCHANGED <<rows, initial, delivered, restarts>>
      /\ GoOn(retry.surface, retry.left, inFlight \ {t},
              awaitingClear, stash, fallback)
  BY DEF RetryRejects, RetryTimesOut, sends
<1>2. /\ retry.surface \in {"stash", "fallback"} /\ retry.left \in SUBSET completed
      /\ inFlight \ {t} \in SUBSET Task /\ awaitingClear \in SUBSET Task
      /\ stash \in SUBSET stash /\ fallback \in SUBSET fallback
  BY <1>1, RetryTypes DEF Typed
<1>3. /\ awaitingClear \cap fallback = {}
      /\ retry.surface = "fallback" => retry.left \cap stash = {}
  BY DEF Apart, RetryApart
<1>4. \A u \in Task :
        /\ late[u] # "none" => late'[u] # "none"
        /\ late'[u] # "none" => late[u] # "none" \/ retry.now = u
  BY DEF RetryRejects, RetryTimesOut, sends, Typed
<1>5. retry.sent => late'[t] # "none"
  BY DEF RetryRejects, RetryTimesOut, Typed
<1> QED
  BY <1>1, <1>2, <1>3, <1>4, <1>5, GoOnApart

LEMMA ApartStep ==
  ASSUME Typed, Known, Settled, ClaimsMatchSends, Apart, Cleared, [Next]_vars
  PROVE  Apart' /\ Cleared'
<1>1. ASSUME NEW t \in Task, NEW written \in BOOLEAN, Complete(t, written)
      PROVE  Apart' /\ Cleared'
  <2>1. delivered[t] = 0
    BY <1>1 DEF Complete, Apart, Typed
  <2>2. retry.now # t /\ t \notin retry.left /\ t \notin stash \cup fallback
    BY <1>1, TaskAssumption DEF Complete, Known, Typed
  <2>3. t \notin awaitingClear /\ late[t] = "none"
    BY <1>1, <2>1 DEF Complete, Apart, Settled
  <2> QED
    BY <1>1, <2>1, <2>2, <2>3 DEF Typed, Complete, Apart, RetryApart, Cleared, Recorded
<1>2. ASSUME NEW t \in Task, InitialDelivers(t) PROVE Apart' /\ Cleared'
  <2>1. t \in completed
    BY <1>2 DEF Known, InitialDelivers
  <2> QED
    BY <1>2, <2>1
    DEF Typed, InitialDelivers, Deliver, record, rows, Apart, RetryApart, Cleared, Recorded
<1>3. ASSUME NEW t \in Task, InitialRejects(t) PROVE Apart' /\ Cleared'
  BY <1>3 DEF Typed, InitialRejects, record, rows, Apart, RetryApart, Cleared, Recorded
<1>4. ASSUME NEW t \in Task, InitialTimesOut(t) PROVE Apart' /\ Cleared'
  <2>1. /\ initial[t] # "none" /\ initial' = [initial EXCEPT ![t] = "none"]
        /\ late'[t] # "none" /\ \A u \in Task \ {t} : late'[u] = late[u]
        /\ UNCHANGED <<rows, stash, fallback, awaitingClear, retry, delivered, restarts>>
    BY <1>4 DEF Typed, InitialTimesOut, Abandon
  <2>2. t \in completed
    BY <2>1 DEF Known
  <2>3. Apart'
    BY <2>1, <2>2 DEF Typed, rows, Apart, RetryApart
  <2>4. Cleared'
    BY <2>1 DEF Typed, Cleared, Recorded
  <2> QED
    BY <2>3, <2>4
<1>5. ASSUME NEW t \in Task, NEW ok \in BOOLEAN, InitialClears(t, ok)
      PROVE  Apart' /\ Cleared'
  <2>1. retry.now # t
    BY <1>5 DEF InitialClears, ClaimsMatchSends
  <2> QED
    BY <1>5, <2>1 DEF Typed, InitialClears, rows, Apart, RetryApart, Cleared, Recorded
<1>6. ASSUME NEW t \in Task, LateDelivers(t) PROVE Apart' /\ Cleared'
  BY <1>6
  DEF Typed, LateDelivers, Deliver, record, rows, Apart, RetryApart, Cleared, Recorded
<1>7. ASSUME NEW t \in Task, RetryDelivers(t) PROVE Apart' /\ Cleared'
  <2>1. /\ retry'.now = retry.now /\ retry'.surface = retry.surface
        /\ retry'.left = retry.left /\ retry'.sent
    BY <1>7 DEF RetryDelivers, Typed, Retry
  <2>2. t \in completed /\ initial[t] = "none" /\ retry.now = t
    BY <1>7, TaskAssumption DEF RetryDelivers, Known, ClaimsMatchSends
  <2>3. Apart'
    BY <1>7, <2>1, <2>2
    DEF Typed, RetryDelivers, Deliver, record, rows, Apart, RetryApart
  <2>4. Cleared'
    BY <1>7, <2>1, <2>2
    DEF Typed, RetryDelivers, Deliver, record, rows, Cleared, Recorded
  <2> QED
    BY <2>3, <2>4
<1>8. ASSUME NEW t \in Task, NEW ok \in BOOLEAN,
             RetryClears(t, ok) \/ RetryRejects(t) \/ RetryTimesOut(t)
      PROVE  Apart' /\ Cleared'
  BY <1>8, ClearsApart, MissesApart
<1>9. ASSUME LoseMemory, completed \subseteq completed'
      PROVE  Apart' /\ Cleared'
  <2>1. restarts' > 0
    BY <1>9, BoundsType DEF LoseMemory, Typed
  <2>2. retry'.now = Null /\ retry'.surface = "stash"
    BY <1>9 DEF LoseMemory, Idle
  <2> QED
    BY <1>9, <2>1, <2>2, TaskAssumption DEF LoseMemory, Apart, RetryApart, Cleared
<1>10. CASE Start \/ IntervalTick \/ DrainOnce
  <2>1. UNCHANGED <<rows, initial, delivered, late, restarts>>
    BY <1>10 DEF Start, IntervalTick, DrainOnce, sends
  <2>2. CASE RetryPendingBridges
    BY <2>1, <2>2, CallApart
  <2>3. CASE UNCHANGED <<stash, fallback, inFlight, awaitingClear, retry>>
    BY <2>1, <2>3 DEF Apart, RetryApart, Cleared, Recorded, rows
  <2> QED
    BY <1>10, <2>2, <2>3 DEF Start, IntervalTick, DrainOnce, ScheduledTick
<1>11. CASE Stop \/ UNCHANGED vars
  BY <1>11 DEF Stop, record, rows, sends, vars, Apart, RetryApart, Cleared, Recorded
<1>12. ASSUME Crash \/ \E t \in Task : CrashBeforeStash(t)
       PROVE  Apart' /\ Cleared'
  BY <1>9, <1>12 DEF Crash, CrashBeforeStash, rows
<1> QED
  BY <1>1, <1>2, <1>3, <1>4, <1>5, <1>6, <1>7, <1>8, <1>10, <1>11, <1>12 DEF Next

LEMMA ApartInvariant ==
  Spec => [](Typed /\ Known /\ ClaimsMatchSends /\ Apart /\ Cleared)
<1>1. Init => Apart /\ Cleared
  BY IdleType, TaskAssumption DEF Init, Apart, RetryApart, Cleared, Idle
<1> QED
  BY <1>1, SettledInvariant, ClaimsAreSends, ApartStep, PTL DEF Spec

LEMMA RepeatStep ==
  ASSUME Typed, Known, ClaimsMatchSends, Apart, Cleared, [Next]_vars,
         NEW t \in Task, delivered[t] > 0, delivered'[t] # delivered[t],
         late[t] = "none", restarts = 0
  PROVE  RetryDelivers(t) /\ ~Recorded(t)
<1>1. ASSUME NEW u \in Task, Deliver(u) PROVE u = t
  BY <1>1 DEF Deliver, Typed
<1>2. ASSUME NEW u \in Task, InitialDelivers(u) PROVE FALSE
  BY <1>1, <1>2 DEF InitialDelivers, Apart
<1>3. ASSUME NEW u \in Task, LateDelivers(u) PROVE FALSE
  BY <1>1, <1>3 DEF LateDelivers
<1>4. ASSUME NEW u \in Task, NEW written \in BOOLEAN, NEW ok \in BOOLEAN,
             \/ Complete(u, written) \/ InitialRejects(u) \/ InitialTimesOut(u)
             \/ InitialClears(u, ok) \/ RetryRejects(u) \/ RetryTimesOut(u)
             \/ RetryClears(u, ok)
      PROVE  FALSE
  BY <1>4 DEF Complete, InitialRejects, InitialTimesOut, InitialClears,
     RetryRejects, RetryTimesOut, RetryClears, sends
<1>5. ASSUME LoseMemory PROVE FALSE
  BY <1>5 DEF LoseMemory
<1>6. ~(Start \/ IntervalTick \/ Stop \/ DrainOnce \/ UNCHANGED vars)
  BY DEF Start, IntervalTick, Stop, DrainOnce, vars, sends
<1>7. \E u \in Task : RetryDelivers(u)
  BY <1>2, <1>3, <1>4, <1>5, <1>6 DEF Next, Crash, CrashBeforeStash
<1>8. RetryDelivers(t)
  BY <1>1, <1>7 DEF RetryDelivers
<1>9. ~Recorded(t)
  BY <1>8 DEF RetryDelivers, ClaimsMatchSends, Apart, RetryApart, Cleared
<1> QED
  BY <1>8, <1>9

(* For every batch size, number of tasks and pattern of failed writes.     *)
THEOREM OnlyStaleEntriesRepeat == Spec => RepeatsAreStale
<1>1. Typed /\ Known /\ ClaimsMatchSends /\ Apart /\ Cleared /\ [Next]_vars =>
        [\A t \in Task :
           delivered[t] > 0 /\ delivered'[t] # delivered[t] /\ late[t] = "none"
             /\ restarts = 0 => retry.now = t /\ ~Recorded(t)]_vars
  BY RepeatStep DEF RetryDelivers
<1> QED
  BY <1>1, ApartInvariant, PTL DEF Spec, RepeatsAreStale

-----------------------------------------------------------------------------
(* Nothing is passed over.                                                 *)

(* The order has no infinite descent: if each of n entries had one before  *)
(* it, their n different ranks would lie between 1 and n - 1.              *)
LEMMA FirstExists ==
  ASSUME Typed, Order, NEW S \in SUBSET completed, S # {}
  PROVE  First(S) # {}
<1> SUFFICES ASSUME First(S) = {} PROVE FALSE
  OBVIOUS
<1> DEFINE Rank(t) == Cardinality(S \cap earlier[t])
           n == Cardinality(S)
           f == [t \in S |-> Rank(t)]
<1>1. IsFiniteSet(S) /\ n \in Nat /\ n # 0
  BY CompletedFinite, FS_EmptySet
<1>2. ASSUME NEW t \in S PROVE Rank(t) \in 1..(n - 1)
  <2>1. S \cap earlier[t] # {}
    BY DEF First
  <2>2. IsFiniteSet(S \cap earlier[t]) /\ Rank(t) \in Nat /\ Rank(t) # 0
    BY <2>1, CompletedFinite, FS_EmptySet
  <2>3. S \cap earlier[t] \in SUBSET (S \ {t})
    BY DEF Order, Typed
  <2>4. IsFiniteSet(S \ {t}) /\ Cardinality(S \ {t}) = n - 1
    BY <1>1, FS_RemoveElement
  <2>5. Rank(t) <= n - 1
    BY <2>3, <2>4, FS_Subset
  <2> QED
    BY <1>1, <2>2, <2>5
<1>3. ASSUME NEW t \in S, NEW u \in S, u \in earlier[t]
      PROVE  Rank(u) # Rank(t)
  <2>1. S \cap earlier[u] \in SUBSET (S \cap earlier[t])
    BY <1>3 DEF Order
  <2>2. S \cap earlier[u] # S \cap earlier[t]
    BY <1>3 DEF Order, Typed
  <2>3. IsFiniteSet(S \cap earlier[t])
    BY CompletedFinite
  <2> QED
    BY <2>1, <2>2, <2>3, FS_Subset
<1>4. \A t, u \in S : t # u => f[t] # f[u]
  BY <1>3 DEF Order
<1>5. f \in [S -> 1..(n - 1)]
  BY <1>2
<1> HIDE DEF f, Rank, n
<1>6. IsFiniteSet(1..(n - 1)) /\ Cardinality(1..(n - 1)) < n
  <2>1. 1 \in Int /\ n - 1 \in Int /\ n - 1 >= 0
    BY <1>1
  <2>2. Cardinality(1..(n - 1)) = IF 1 > n - 1 THEN 0 ELSE (n - 1) - 1 + 1
    BY <2>1, FS_Interval
  <2> QED
    BY <1>1, <2>1, <2>2, FS_Interval
<1> QED
  BY <1>1, <1>4, <1>5, <1>6, FS_PigeonHole DEF n

(* Sending the first of S leaves the others of S to be sent.               *)
LEMMA FirstAfter ==
  ASSUME Typed, Order, NEW q \in SUBSET completed, NEW S \in SUBSET q,
         NEW t \in First(S), NEW u \in S
  PROVE  u = t \/ u \in After(t, q)
BY DEF Order, First, After

LEMMA GoOnCovers ==
  ASSUME Typed, Order, NEW surface \in {"stash", "fallback"},
         NEW left \in SUBSET completed, NEW claims \in SUBSET Task,
         NEW marked \in SUBSET Task, NEW stashed \in SUBSET completed,
         NEW inMemory \in SUBSET completed,
         GoOn(surface, left, claims, marked, stashed, inMemory),
         NEW u \in left, u \notin claims, u \notin marked
  PROVE  u \in retry'.left \/ retry'.now = u
<1> DEFINE rest1 == IF surface = "stash" THEN left ELSE {}
           rest2 == IF surface = "stash" THEN Batch(inMemory) ELSE left
<1>1. PICK freed \in SUBSET (marked \ claims) :
        LET next1 == First(rest1 \ (claims \cup marked))
            next2 == First(rest2 \ (claims \cup (marked \ freed)))
        IN \/ \E t \in next1 : Send(t, rest1, "stash", claims)
           \/ next1 = {} /\ \E t \in next2 : Send(t, rest2, "fallback", claims)
           \/ next1 = {} /\ next2 = {}
  BY DEF GoOn
<1>2. ASSUME NEW q \in SUBSET completed, NEW S \in SUBSET q, u \in S,
             NEW s, NEW t \in First(S), Send(t, q, s, claims)
      PROVE  u \in retry'.left \/ retry'.now = u
  <2>1. retry'.left = After(t, q) /\ retry'.now = t
    BY <1>2 DEF Send
  <2> QED
    BY <1>2, <2>1, FirstAfter
<1>3. CASE surface = "stash"
  <2> DEFINE S == rest1 \ (claims \cup marked)
  <2>1. rest1 \in SUBSET completed /\ S \in SUBSET rest1 /\ u \in S
    BY <1>3
  <2> HIDE DEF S, rest1, rest2
  <2>2. First(S) # {}
    BY <2>1, FirstExists
  <2>3. \E t \in First(S) : Send(t, rest1, "stash", claims)
    BY <1>1, <2>2 DEF S
  <2> QED
    BY <1>2, <2>1, <2>3
<1>4. CASE surface = "fallback"
  <2> DEFINE S == rest2 \ (claims \cup (marked \ freed))
  <2>1. rest2 \in SUBSET completed /\ S \in SUBSET rest2 /\ u \in S
    BY <1>4
  <2>2. First(rest1 \ (claims \cup marked)) = {}
    BY <1>4 DEF First
  <2> HIDE DEF S, rest1, rest2
  <2>3. First(S) # {}
    BY <2>1, FirstExists
  <2>4. \E t \in First(S) : Send(t, rest2, "fallback", claims)
    BY <1>1, <2>2, <2>3 DEF S
  <2> QED
    BY <1>2, <2>1, <2>4
<1> QED
  BY <1>3, <1>4

LEMMA BatchOfFew ==
  ASSUME Typed, Order, NEW S \in SUBSET completed, Cardinality(S) <= Limit
  PROVE  Batch(S) = S
<1> SUFFICES ASSUME NEW t \in S PROVE Cardinality(S \cap earlier[t]) < Limit
  BY DEF Batch
<1>1. IsFiniteSet(S) /\ Cardinality(S) \in Nat
  BY CompletedFinite
<1>2. S \cap earlier[t] \in SUBSET (S \ {t})
  BY DEF Order, Typed
<1>3. IsFiniteSet(S \ {t}) /\ Cardinality(S \ {t}) = Cardinality(S) - 1
  BY <1>1, FS_RemoveElement
<1>4. /\ Cardinality(S \cap earlier[t]) \in Nat
      /\ Cardinality(S \cap earlier[t]) <= Cardinality(S \ {t})
  BY <1>2, <1>3, FS_Subset, FS_CardinalityType
<1> QED
  BY <1>1, <1>3, <1>4, LimitAssumption

(* As long as no more than Limit rows are stashed, a call takes up each of *)
(* them that is neither being sent nor marked: a response can only be kept *)
(* from its requester by the Limit older ones in front of it.              *)
SmallBacklogIsRead ==
  [][RetryPendingBridges /\ Cardinality(stash) <= Limit =>
       stash \ (inFlight \cup awaitingClear) \subseteq retry'.left \cup {retry'.now}]_vars

(* An entry that was read stays in line until it is sent, unless somebody  *)
(* else sends it or did: a failed send, a timeout or a write that fails    *)
(* for one entry does not cost another its turn.                           *)
EntriesKeepTheirTurn ==
  [][restarts' = restarts =>
       \A t \in retry.left :
         t \in retry'.left \/ retry'.now = t \/ t \in inFlight \cup awaitingClear]_vars

LEMMA CallCovers ==
  ASSUME Typed, Order, RetryPendingBridges, Cardinality(stash) <= Limit,
         NEW t \in stash, t \notin inFlight, t \notin awaitingClear
  PROVE  t \in retry'.left \/ retry'.now = t
<1>1. stash \in SUBSET completed /\ Batch(stash) = stash
  BY BatchOfFew DEF Typed
<1> QED
  BY <1>1, GoOnCovers DEF Typed, RetryPendingBridges

LEMMA TurnStep ==
  ASSUME Typed, Known, Order, ClaimsMatchSends, [Next]_vars, restarts' = restarts,
         NEW t \in retry.left, t \notin inFlight, t \notin awaitingClear
  PROVE  t \in retry'.left \/ retry'.now = t
<1>1. t \in Task /\ retry.left \in SUBSET completed
  BY DEF Typed, Known
<1>2. ASSUME RetryPendingBridges PROVE FALSE
  BY <1>2, IdleType DEF RetryPendingBridges
<1>3. ASSUME NEW u \in Task, retry.now = u PROVE t # u
  BY <1>3 DEF ClaimsMatchSends
<1>4. ASSUME NEW u \in Task, NEW ok \in BOOLEAN, RetryClears(u, ok)
      PROVE  t \in retry'.left \/ retry'.now = t
  <2> DEFINE kept == IF retry.surface = "stash" THEN stash \ {u} ELSE stash
  <2>1. /\ retry.surface \in {"stash", "fallback"} /\ t # u
        /\ kept \in SUBSET completed /\ stash \in SUBSET completed
        /\ fallback \ {u} \in SUBSET completed /\ inFlight \ {u} \in SUBSET Task
        /\ awaitingClear \ {u} \in SUBSET Task /\ awaitingClear \cup {u} \in SUBSET Task
    BY <1>3, <1>4 DEF Typed, Retry, RetryClears
  <2>2. \/ GoOn(retry.surface, retry.left, inFlight \ {u}, awaitingClear \cup {u},
                stash, fallback \ {u})
        \/ GoOn(retry.surface, retry.left, inFlight \ {u}, awaitingClear \ {u},
                kept, fallback \ {u})
    BY <1>4 DEF RetryClears
  <2>3. t \notin inFlight \ {u} /\ t \notin awaitingClear \cup {u}
        /\ t \notin awaitingClear \ {u}
    BY <2>1
  <2> HIDE DEF kept
  <2> QED
    BY <1>1, <2>1, <2>2, <2>3, GoOnCovers
<1>5. ASSUME NEW u \in Task, RetryRejects(u) \/ RetryTimesOut(u)
      PROVE  t \in retry'.left \/ retry'.now = t
  <2> DEFINE claims == inFlight \ {u}
  <2>1. /\ retry.surface \in {"stash", "fallback"} /\ t \notin claims
        /\ claims \in SUBSET Task /\ awaitingClear \in SUBSET Task
        /\ stash \in SUBSET completed /\ fallback \in SUBSET completed
    BY DEF Typed, Retry
  <2>2. GoOn(retry.surface, retry.left, claims, awaitingClear, stash, fallback)
    BY <1>5 DEF RetryRejects, RetryTimesOut
  <2> HIDE DEF claims
  <2> QED
    BY <1>1, <2>1, <2>2, GoOnCovers
<1>6. ASSUME NEW u \in Task, NEW ok \in BOOLEAN, NEW written \in BOOLEAN,
             \/ Complete(u, written) \/ InitialDelivers(u) \/ InitialRejects(u)
             \/ InitialTimesOut(u) \/ InitialClears(u, ok) \/ LateDelivers(u)
      PROVE  retry' = retry
  BY <1>6 DEF Complete, InitialDelivers, InitialRejects, InitialTimesOut,
     InitialClears, LateDelivers
<1>7. ASSUME NEW u \in Task, RetryDelivers(u) PROVE retry'.left = retry.left
  BY <1>7 DEF RetryDelivers, Typed, Retry
<1>8. ASSUME LoseMemory PROVE FALSE
  BY <1>8, BoundsType DEF LoseMemory, Typed
<1>9. CASE Start \/ IntervalTick \/ DrainOnce \/ Stop \/ UNCHANGED vars
  BY <1>2, <1>9 DEF Start, IntervalTick, DrainOnce, ScheduledTick, Stop, vars
<1> QED
  BY <1>4, <1>5, <1>6, <1>7, <1>8, <1>9 DEF Next, Crash, CrashBeforeStash

LEMMA OrderInvariant == Spec => [](Typed /\ Known /\ Order)
<1>1. Init => Order
  BY DEF Init, Order
<1> QED
  BY <1>1, TypeInvariant, OrderStep, PTL DEF Spec

(* The safety half of "every response is retried": for any batch size.     *)
THEOREM NobodyIsPassedOver == Spec => SmallBacklogIsRead /\ EntriesKeepTheirTurn
<1>1. Typed /\ Known /\ Order /\ [Next]_vars =>
        [RetryPendingBridges /\ Cardinality(stash) <= Limit =>
           stash \ (inFlight \cup awaitingClear)
             \subseteq retry'.left \cup {retry'.now}]_vars
  BY CallCovers
<1>2. Typed /\ Known /\ Order /\ ClaimsMatchSends /\ [Next]_vars =>
        [restarts' = restarts =>
           \A t \in retry.left :
             t \in retry'.left \/ retry'.now = t
               \/ t \in inFlight \cup awaitingClear]_vars
  BY TurnStep
<1> QED
  BY <1>1, <1>2, OrderInvariant, ClaimsAreSends, PTL
  DEF Spec, SmallBacklogIsRead, EntriesKeepTheirTurn
=============================================================================
