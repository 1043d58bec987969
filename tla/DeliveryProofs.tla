--------------------------- MODULE DeliveryProofs ---------------------------
(***************************************************************************)
(* Theorems about EventDelivery: type correctness, and that whatever the   *)
(* chat is told about a query is what became of it, once, and again only   *)
(* after an acknowledgement was lost.  That it is told at all is liveness  *)
(* and stays with TLC.                                                     *)
(***************************************************************************)
EXTENDS EventDelivery, WorkflowProofs

-----------------------------------------------------------------------------
(* The inductive invariant.                                                *)

(* What a tick still has to do is not retired, and if it is an outcome, was *)
(* appended; what the tick is in the middle of is part of that, and only an *)
(* approval is dispatched.                                                 *)
TickInv ==
  /\ \A e \in batch : e \notin retired /\ (e[2] \in TerminalEvents => Emitted(e))
  /\ stage # "fetch" => current \in batch
  /\ stage = "dispatch" => current[2] = "approved"

(* The chat was told of nothing but events that exist, of queries.         *)
ToldInv ==
  \A t \in TaskId, k \in TerminalEvents :
    told[t][k] > 0 => emitted[t][k] > 0 /\ task[t].kind = "service_query"

DInv == IInv /\ DeliveryTypeOK /\ TickInv /\ ToldInv

LEMMA EventsFinite == \A S \in SUBSET Event : Cardinality(S) \in Nat
<1>1. IsFiniteSet(EventKind)
  <2>1. EventKind =
          ((({"created"} \cup {"approved"}) \cup {"completed"}) \cup {"failed"}) \cup {"cancelled"}
    BY DEF EventKind
  <2> QED
    BY <2>1, FS_Singleton, FS_Union
<1>2. IsFiniteSet(Event)
  BY <1>1, TaskIdAssumption, FS_Product DEF Event
<1> QED
  BY <1>2, FS_Subset, FS_CardinalityType

(* Events are only added, and a task does not change its kind after that.  *)
LEMMA StoreKeepsEvents ==
  ASSUME IInv, [Next]_vars, NEW t \in TaskId
  PROVE  /\ \A k \in TerminalEvents :
              /\ emitted[t][k] \in Nat /\ emitted'[t][k] \in Nat
              /\ emitted'[t][k] >= emitted[t][k]
         /\ task[t].status # "absent" => task'[t].kind = task[t].kind
<1>1. TypeOK /\ RowStep(t)
  BY NextRowStep DEF IInv
<1>2. TypeOK'
  BY StoreInductive DEF IInv
<1>3. emitted[t] \in [EventKind -> Nat] /\ emitted'[t] \in [EventKind -> Nat]
  BY <1>1, <1>2 DEF TypeOK
<1>4. task[t].status # "absent" => task'[t].kind = task[t].kind
  BY <1>1
     DEF RowStep, Idle, Inserted, Approved, Settled, Leased, Released, Started,
         RolledBack, SameIdentity
<1>5. ASSUME NEW k \in TerminalEvents PROVE emitted'[t][k] >= emitted[t][k]
  <2>0. emitted[t][k] \in Nat /\ emitted'[t][k] \in Nat
    BY <1>3 DEF TerminalEvents, EventKind
  <2>1. CASE Inserted(t)
    BY <2>0, <2>1 DEF Inserted, TerminalEvents, EventKind
  <2>2. CASE Approved(t)
    BY <2>0, <2>2 DEF Approved, TerminalEvents, EventKind
  <2>3. CASE Settled(t)
    <3>1. emitted'[t][k] \in {emitted[t][k], emitted[t][k] + 1}
      BY <1>3, <2>3 DEF Settled
    <3> QED
      BY <2>0, <3>1
  <2> QED
    BY <1>1, <2>0, <2>1, <2>2, <2>3
       DEF RowStep, Idle, Leased, Released, Started, RolledBack
<1> QED
  BY <1>3, <1>4, <1>5 DEF TerminalEvents, EventKind

-----------------------------------------------------------------------------
(* Type correctness.                                                       *)

(* What a tick that starts, or joins another one, does to the consumer.    *)
LEMMA RunTickEffect ==
  ASSUME DeliveryTypeOK, NEW delays, RunTick(delays)
  PROVE  /\ batch' \in SUBSET Event /\ outages' \in Nat
         /\ current' = current /\ stage' = stage
         /\ batch' = batch \/ (batch = {} /\ \A e \in batch' : Undelivered(e))
<1> DEFINE due == {e \in Event : Undelivered(e) /\ delays[e] = 0}
<1>1. CASE ~InFlight /\ ListUndeliveredEvents(delays) /\ UNCHANGED outages
  <2>1. batch' \in Oldest(due) /\ UNCHANGED <<current, stage>>
    BY <1>1 DEF ListUndeliveredEvents
  <2>2. batch' \subseteq due
    BY <2>1 DEF Oldest
  <2> QED
    BY <1>1, <2>1, <2>2 DEF DeliveryTypeOK, InFlight
<1>2. CASE UNCHANGED tick /\ (UNCHANGED outages \/ Outage)
  BY <1>2 DEF DeliveryTypeOK, tick, Outage
<1> QED
  BY <1>1, <1>2 DEF RunTick, tick

LEMMA InitDInv == DeliveryInit => DInv
<1> SUFFICES ASSUME DeliveryInit PROVE DInv
  OBVIOUS
<1> USE DEF DeliveryInit
<1>1. IInv
  BY InitIInv
<1>2. DeliveryTypeOK
  <2>1. 0 \in 0..2 /\ 0 \in Nat
    OBVIOUS
  <2>2. told \in [TaskId -> [TerminalEvents -> 0..2]] /\ at \in [Event -> Nat]
    BY <2>1
  <2>3. wait \in [Event -> Nat]
    BY <2>1
  <2> QED
    BY <1>1, <2>1, <2>2, <2>3 DEF IInv, DeliveryTypeOK
<1>3. TickInv /\ ToldInv
  BY DEF TickInv, ToldInv
<1> QED
  BY <1>1, <1>2, <1>3 DEF DInv

(* The steps of the consumer leave the store alone.                        *)
LEMMA StorePart ==
  ASSUME DeliveryNext PROVE [Next]_vars
<1>1. ASSUME NEW e \in Event, ProcessEvent(e) PROVE UNCHANGED vars
  BY <1>1 DEF ProcessEvent, FetchesTask, FetchFails, Dispatches, Acks, AckFails,
              MarksDeliveryFailed, MarkFails
<1>2. CASE Crash
  BY <1>2 DEF Crash, Next
<1> QED
  BY <1>1, <1>2 DEF DeliveryNext, StoreStep, StartConsumer, StopConsumer, Interval

LEMMA ToldType ==
  ASSUME DeliveryTypeOK, NEW t \in TaskId, NEW k \in TerminalEvents, Told(<<t, k>>)
  PROVE  told' \in [TaskId -> [TerminalEvents -> 0..2]]
<1>1. told[t][k] \in 0..2
  BY DEF DeliveryTypeOK
<1>2. (IF told[t][k] = 2 THEN 2 ELSE told[t][k] + 1) \in 0..2
  BY <1>1
<1>3. told' = [told EXCEPT ![t] = [@ EXCEPT ![k] =
                 IF told[t][k] = 2 THEN 2 ELSE told[t][k] + 1]]
  BY DEF Told, DeliveryTypeOK
<1> QED
  BY <1>2, <1>3 DEF DeliveryTypeOK

LEMMA TypeStep ==
  ASSUME DInv, DeliveryNext PROVE DeliveryTypeOK'
<1> USE DEF DInv
<1>0. TypeOK'
  BY StorePart, StoreInductive DEF IInv
<1>1. CASE StoreStep
  <2>1. Cardinality({f \in Event : Emitted(f)}) \in Nat
    BY EventsFinite
  <2>2. at' \in [Event -> Nat]
    BY <1>1, <2>1 DEF StoreStep, AppendEvent, DeliveryTypeOK
  <2> QED
    BY <1>0, <1>1, <2>2 DEF StoreStep, DeliveryTypeOK, tick
<1>2. CASE StartConsumer
  BY <1>0, <1>2, RunTickEffect DEF StartConsumer, DeliveryTypeOK
<1>3. CASE StopConsumer
  <2>1. outages' \in Nat
    BY <1>3 DEF StopConsumer, Outage, DeliveryTypeOK
  <2> QED
    BY <1>0, <1>3, <2>1 DEF StopConsumer, DeliveryTypeOK, tick
<1>4. CASE Interval
  <2>1. wait' \in [Event -> Nat]
    <3>1. wait \in [Event -> Nat]
      BY DEF DeliveryTypeOK
    <3>2. wait' = [e \in Event |-> IF wait[e] = 0 THEN 0 ELSE wait[e] - 1]
      BY <1>4 DEF Interval
    <3>3. \A e \in Event : (IF wait[e] = 0 THEN 0 ELSE wait[e] - 1) \in Nat
      BY <3>1
    <3> HIDE DEF DInv
    <3> QED
      BY <3>2, <3>3
  <2>2. CASE started
    BY <1>0, <1>4, <2>1, <2>2, RunTickEffect DEF Interval, DeliveryTypeOK
  <2>3. CASE ~started
    BY <1>0, <1>4, <2>1, <2>3 DEF Interval, DeliveryTypeOK, tick
  <2> QED
    BY <2>2, <2>3
<1>5. ASSUME NEW e \in Event, ProcessEvent(e) PROVE DeliveryTypeOK'
  <2>1. CASE FetchesTask(e)
    <3>1. PICK t \in TaskId, k \in EventKind : e = <<t, k>>
      BY DEF Event
    <3>2. told' \in [TaskId -> [TerminalEvents -> 0..2]]
      BY <2>1, <3>1, ToldType DEF FetchesTask, Routed, DeliveryTypeOK
    <3> QED
      BY <1>0, <2>1, <3>2 DEF FetchesTask, Goes, DeliveryTypeOK
  <2>2. CASE FetchFails(e) \/ \E ok \in BOOLEAN : Dispatches(e, ok)
    BY <1>0, <2>2 DEF FetchFails, Dispatches, Goes, DeliveryTypeOK
  <2>3. CASE Acks(e) \/ AckFails(e) \/ MarkFails(e)
    BY <1>0, <2>3 DEF Acks, AckFails, MarkFails, Done, DeliveryTypeOK
  <2>4. CASE MarksDeliveryFailed(e)
    <3>1. wait' \in [Event -> Nat]
      BY <2>4, DeliveryAssumption DEF MarksDeliveryFailed, DeliveryTypeOK
    <3> QED
      BY <1>0, <2>4, <3>1 DEF MarksDeliveryFailed, Done, DeliveryTypeOK
  <2> QED
    BY <1>5, <2>1, <2>2, <2>3, <2>4 DEF ProcessEvent
<1>6. CASE Crash
  <2>1. outages' \in Nat
    BY <1>6 DEF Crash, Outage, DeliveryTypeOK
  <2> QED
    BY <1>0, <1>6, <2>1 DEF Crash, DeliveryTypeOK
<1> QED
  BY <1>1, <1>2, <1>3, <1>4, <1>5, <1>6 DEF DeliveryNext

-----------------------------------------------------------------------------
(* The invariant is inductive.                                             *)

(* A tick that starts while another one is in flight changes nothing.      *)
LEMMA RunTickKeeps ==
  ASSUME DInv, NEW delays, RunTick(delays), UNCHANGED <<vars, retired>>
  PROVE  TickInv'
<1> USE DEF DInv
<1>1. /\ current' = current /\ stage' = stage
      /\ batch' = batch \/ (batch = {} /\ \A e \in batch' : Undelivered(e))
  BY RunTickEffect
<1>2. \A e : Emitted(e)' = Emitted(e)
  BY DEF Emitted, vars
<1>3. CASE batch' = batch
  BY <1>1, <1>2, <1>3 DEF TickInv
<1>4. CASE batch = {} /\ \A e \in batch' : Undelivered(e)
  BY <1>1, <1>2, <1>4 DEF TickInv, Undelivered
<1> QED
  BY <1>1, <1>3, <1>4

LEMMA TickStep ==
  ASSUME DInv, DeliveryNext PROVE TickInv'
<1> USE DEF DInv
<1>1. CASE StoreStep
  <2>1. \A e \in Event : e[2] \in TerminalEvents /\ Emitted(e) => Emitted(e)'
    <3> SUFFICES ASSUME NEW t \in TaskId, NEW k \in TerminalEvents, Emitted(<<t, k>>)
                 PROVE  Emitted(<<t, k>>)'
      BY DEF Event
    <3>1. /\ emitted[t][k] \in Nat /\ emitted'[t][k] \in Nat
          /\ emitted'[t][k] >= emitted[t][k]
      BY <1>1, StorePart, StoreKeepsEvents DEF DeliveryNext
    <3> QED
      BY <3>1 DEF Emitted
  <2>2. batch \subseteq Event
    BY DEF DeliveryTypeOK
  <2> QED
    BY <1>1, <2>1, <2>2 DEF StoreStep, TickInv, tick
<1>2. CASE StartConsumer
  BY <1>2, RunTickKeeps DEF StartConsumer
<1>3. CASE StopConsumer
  BY <1>3 DEF StopConsumer, TickInv, tick, Emitted, vars
<1>4. CASE Interval
  <2>1. CASE started
    BY <1>4, <2>1, RunTickKeeps DEF Interval
  <2>2. CASE ~started
    BY <1>4, <2>2 DEF Interval, TickInv, tick, Emitted, vars
  <2> QED
    BY <2>1, <2>2
<1>5. ASSUME NEW e \in Event, ProcessEvent(e) PROVE TickInv'
  <2>0. \A f : Emitted(f)' = Emitted(f)
    BY <1>5 DEF ProcessEvent, FetchesTask, FetchFails, Dispatches, Acks, AckFails,
                MarksDeliveryFailed, MarkFails, Emitted, vars
  <2>1. CASE FetchesTask(e) \/ FetchFails(e)
    BY <2>0, <2>1 DEF FetchesTask, FetchFails, First, Goes, TickInv
  <2>2. ASSUME NEW ok \in BOOLEAN, Dispatches(e, ok) PROVE TickInv'
    BY <2>0, <2>2 DEF Dispatches, At, Goes, TickInv
  <2>3. CASE Acks(e)
    BY <2>0, <2>3 DEF Acks, Done, TickInv
  <2>4. CASE AckFails(e) \/ MarksDeliveryFailed(e) \/ MarkFails(e)
    BY <2>0, <2>4 DEF AckFails, MarksDeliveryFailed, MarkFails, Done, TickInv
  <2> QED
    BY <1>5, <2>1, <2>2, <2>3, <2>4 DEF ProcessEvent
<1>6. CASE Crash
  BY <1>6 DEF Crash, TickInv
<1> QED
  BY <1>1, <1>2, <1>3, <1>4, <1>5, <1>6 DEF DeliveryNext

(* What the chat is told of: an outcome of a query that was appended.      *)
LEMMA FetchedOutcome ==
  ASSUME DInv, NEW t \in TaskId, NEW k \in EventKind \ {"approved"},
         FetchesTask(<<t, k>>), task[t].kind = "service_query"
  PROVE  /\ k \in TerminalEvents /\ emitted[t][k] > 0 /\ Told(<<t, k>>)
         /\ stage = "fetch" /\ stage' = "ack" /\ current' = <<t, k>>
         /\ <<t, k>> \notin retired
<1>1. k \in TerminalEvents /\ Told(<<t, k>>)
  BY DEF FetchesTask, Routed
<1> QED
  BY <1>1 DEF FetchesTask, First, Goes, DInv, TickInv, Emitted

LEMMA ToldStep ==
  ASSUME DInv, DeliveryNext PROVE ToldInv'
<1> USE DEF DInv
<1> SUFFICES ASSUME NEW t \in TaskId, NEW k \in TerminalEvents, told'[t][k] > 0
             PROVE  emitted'[t][k] > 0 /\ task'[t].kind = "service_query"
  BY DEF ToldInv
<1>1. CASE told[t][k] > 0
  <2>1. emitted[t][k] > 0 /\ task[t].kind = "service_query"
    BY <1>1 DEF ToldInv
  <2>2. task[t].status = k
    BY <2>1 DEF IInv, OneTerminalEvent
  <2>3. task'[t].kind = task[t].kind
    BY <2>2, StorePart, StoreKeepsEvents DEF TerminalEvents
  <2>4. /\ emitted[t][k] \in Nat /\ emitted'[t][k] \in Nat
        /\ emitted'[t][k] >= emitted[t][k]
    BY StorePart, StoreKeepsEvents
  <2> QED
    BY <2>1, <2>3, <2>4
<1>2. CASE ~(told[t][k] > 0)
  <2>1. PICK e \in Event : FetchesTask(e)
    BY <1>2 DEF DeliveryNext, StoreStep, StartConsumer, StopConsumer, Interval, Crash,
                ProcessEvent, FetchFails, Dispatches, Acks, AckFails,
                MarksDeliveryFailed, MarkFails
  <2>2. PICK u \in TaskId, h \in EventKind : e = <<u, h>>
    BY DEF Event
  <2>3. h # "approved" /\ task[u].kind = "service_query"
    BY <1>2, <2>1, <2>2 DEF FetchesTask
  <2>4. h \in TerminalEvents /\ emitted[u][h] > 0 /\ Told(<<u, h>>)
    BY <2>1, <2>2, <2>3, FetchedOutcome
  <2>5. u = t /\ h = k
    BY <1>2, <2>4 DEF Told, DeliveryTypeOK
  <2> QED
    BY <2>1, <2>3, <2>4, <2>5 DEF FetchesTask, vars
<1> QED
  BY <1>1, <1>2

LEMMA DeliveryInductive == DeliverySpec => []DInv
<1>1. DInv /\ [DeliveryNext]_dvars => DInv'
  <2> SUFFICES ASSUME DInv, [DeliveryNext]_dvars PROVE DInv'
    OBVIOUS
  <2>1. CASE DeliveryNext
    <3>1. IInv'
      BY <2>1, StorePart, StoreInductive DEF DInv
    <3> QED
      BY <2>1, <3>1, TypeStep, TickStep, ToldStep DEF DInv
  <2>2. CASE UNCHANGED dvars
    <3>1. IInv'
      BY <2>2, StoreInductive DEF DInv, dvars
    <3>2. TypeOK'
      BY <3>1 DEF IInv
    <3> QED
      BY <2>2, <3>1, <3>2 DEF DInv, DeliveryTypeOK, TickInv, ToldInv, Emitted,
                              dvars, delivery, tick, vars
  <2> QED
    BY <2>1, <2>2
<1> QED
  BY <1>1, InitDInv, PTL DEF DeliverySpec

(* The delivery bookkeeping stays within its types: in particular what the *)
(* consumer is in the middle of is an event of the table.                  *)
THEOREM DeliveryTypeCorrect == DeliverySpec => []DeliveryTypeOK
BY DeliveryInductive, PTL DEF DInv

-----------------------------------------------------------------------------
(* The refinement: each step is one of the promise's, or a stutter of it.  *)

LEMMA StoreProceeds ==
  ASSUME DInv, StoreStep PROVE Promise!Proceed
<1> USE DEF DInv
<1>1. ASSUME NEW q \in TaskId
      PROVE  \/ OutcomeOf(q)' = OutcomeOf(q)
             \/ OutcomeOf(q) = "none" /\ OutcomeOf(q)' = "open"
             \/ OutcomeOf(q) = "open" /\ OutcomeOf(q)' \in TerminalEvents
  <2>1. RowStep(q)
    BY <1>1, NextRowStep DEF IInv, StoreStep
  <2>2. CASE Idle(q)
    BY <2>2 DEF Idle, SameIdentity, OutcomeOf, Rows, Queries
  <2>3. CASE Inserted(q)
    BY <2>3 DEF Inserted, OutcomeOf, Rows, Queries, InitialStates, IsTerminal,
                TerminalStates
  <2>4. CASE Settled(q)
    BY <2>4 DEF Settled, SameIdentity, Active, OutcomeOf, Rows, Queries,
                TerminalEvents, IsTerminal, TerminalStates
  <2>5. CASE Approved(q) \/ Leased(q) \/ Released(q) \/ Started(q) \/ RolledBack(q)
    BY <2>5 DEF Approved, Leased, Released, Started, RolledBack, SameIdentity,
                OutcomeOf, Rows, Queries, IsTerminal, TerminalStates
  <2> QED
    BY <2>1, <2>2, <2>3, <2>4, <2>5 DEF RowStep
<1>2. told' = told
  BY DEF StoreStep
<1>3. {t \in TaskId : InDoubt(t)}' = {t \in TaskId : InDoubt(t)}
  BY DEF StoreStep, InDoubt, At, tick
<1> QED
  BY <1>1, <1>2, <1>3 DEF Promise!Proceed

LEMMA OutcomesKept ==
  ASSUME UNCHANGED task
  PROVE  [t \in TaskId |-> OutcomeOf(t)]' = [t \in TaskId |-> OutcomeOf(t)]
BY DEF OutcomeOf, Rows, Queries

(* What has been told of a query is how it ended.                          *)
LEMMA OutcomeKnown ==
  ASSUME DInv, NEW t \in TaskId, NEW k \in TerminalEvents,
         emitted[t][k] > 0, task[t].kind = "service_query"
  PROVE  /\ OutcomeOf(t) = k
         /\ \A h \in TerminalEvents \ {k} : told[t][h] = 0
<1>1. task[t].status = k
  BY DEF DInv, IInv, OneTerminalEvent
<1>2. ASSUME NEW h \in TerminalEvents \ {k} PROVE told[t][h] = 0
  <2>1. emitted[t][h] = 0
    BY <1>1 DEF DInv, IInv, OneTerminalEvent
  <2>2. ~(told[t][h] > 0)
    BY <2>1 DEF DInv, ToldInv
  <2>3. told[t][h] \in 0..2
    BY DEF DInv, DeliveryTypeOK
  <2> QED
    BY <2>2, <2>3
<1> QED
  BY <1>1, <1>2 DEF OutcomeOf, Rows, Queries, TerminalEvents, IsTerminal, TerminalStates

(* A fetch that tells: for the first time, or again because of a doubt.    *)
LEMMA TellingStep ==
  ASSUME DInv, NEW t \in TaskId, NEW k \in EventKind \ {"approved"},
         FetchesTask(<<t, k>>), task[t].kind = "service_query"
  PROVE  Promise!Tell(t) \/ Promise!Repeat(t)
<1>1. /\ k \in TerminalEvents /\ emitted[t][k] > 0 /\ Told(<<t, k>>)
      /\ stage = "fetch" /\ stage' = "ack" /\ current' = <<t, k>>
      /\ <<t, k>> \notin retired
  BY FetchedOutcome
<1>2. OutcomeOf(t) = k /\ \A h \in TerminalEvents \ {k} : told[t][h] = 0
  BY <1>1, OutcomeKnown
<1>3. task' = task /\ retired' = retired
  BY DEF FetchesTask, vars
<1>4. told \in [TaskId -> [TerminalEvents -> 0..2]]
  BY DEF DInv, DeliveryTypeOK
<1>5. told' = [told EXCEPT ![t][k] = IF told[t][k] = 2 THEN 2 ELSE told[t][k] + 1]
  BY <1>1, <1>4 DEF Told
<1>6. ~InDoubt(t)'
  <2> SUFFICES ASSUME NEW h \in TerminalEvents, h # k PROVE ~(told'[t][h] > 0)
    BY <1>1 DEF InDoubt, At
  <2>1. told'[t][h] = told[t][h]
    BY <1>1, <1>4, <1>5
  <2> QED
    BY <1>2, <2>1
<1>7. ASSUME NEW u \in TaskId, u # t PROVE InDoubt(u)' <=> InDoubt(u)
  <2>1. told'[u] = told[u]
    BY <1>4, <1>5, <1>7
  <2>2. \A h : ~At(<<u, h>>, "ack") /\ ~At(<<u, h>>, "ack")'
    BY <1>1, <1>7 DEF At
  <2> QED
    BY <1>3, <2>1, <2>2 DEF InDoubt
<1>8. CASE told[t][k] = 0
  <2>0. \A h \in TerminalEvents : told[t][h] = 0
    BY <1>2, <1>8
  <2>1. ~InDoubt(t)
    <3>1. \A h \in TerminalEvents : ~(told[t][h] > 0)
      BY <2>0
    <3> QED
      BY <3>1, Zenon DEF InDoubt
  <2>2. {u \in TaskId : InDoubt(u)}' = {u \in TaskId : InDoubt(u)}
    BY <1>6, <1>7, <2>1
  <2>3. told' = [told EXCEPT ![t][k] = 1]
    BY <1>5, <1>8
  <2>4. Promise!Silent(t)
    BY <2>0 DEF Promise!Silent
  <2> QED
    BY <1>1, <1>2, <1>3, <2>2, <2>3, <2>4, OutcomesKept DEF Promise!Tell
<1>9. CASE told[t][k] # 0
  <2>1. told[t][k] > 0 /\ (told[t][k] = 1 \/ told[t][k] = 2)
    BY <1>1, <1>4, <1>9
  <2>2. InDoubt(t)
    BY <1>1, <2>1 DEF InDoubt, At
  <2>3. {u \in TaskId : InDoubt(u)}' = {u \in TaskId : InDoubt(u)} \ {t}
    BY <1>6, <1>7
  <2>0. (IF told[t][k] = 2 THEN 2 ELSE told[t][k] + 1) = 2
    BY <2>1
  <2>4. told' = [told EXCEPT ![t][k] = 2]
    BY <1>5, <2>0
  <2> QED
    BY <1>2, <1>3, <2>2, <2>3, <2>4, OutcomesKept DEF Promise!Repeat
<1> QED
  BY <1>8, <1>9

(* The acknowledgement of e is lost, or the process that was to write it.  *)
LEMMA LosingStep ==
  ASSUME DInv, UNCHANGED <<task, told, retired>>, NEW t \in TaskId, NEW k,
         At(<<t, k>>, "ack"), stage' = "fetch"
  PROVE  Promise!Doubt(t) \/ UNCHANGED Promise!vars
<1>1. \A u \in TaskId : u # t => (InDoubt(u)' <=> InDoubt(u))
  BY DEF InDoubt, At
<1>2. InDoubt(t) => InDoubt(t)'
  BY DEF InDoubt, At
<1>3. CASE InDoubt(t)' <=> InDoubt(t)
  <2>1. {u \in TaskId : InDoubt(u)}' = {u \in TaskId : InDoubt(u)}
    BY <1>1, <1>3
  <2> QED
    BY <2>1, OutcomesKept DEF Promise!vars
<1>4. CASE InDoubt(t)' /\ ~InDoubt(t)
  <2>1. {u \in TaskId : InDoubt(u)}' = {u \in TaskId : InDoubt(u)} \cup {t}
    BY <1>1, <1>4
  <2>2. ~Promise!Silent(t)
    BY <1>4 DEF InDoubt, Promise!Silent
  <2> QED
    BY <2>1, <2>2, OutcomesKept DEF Promise!Doubt
<1> QED
  BY <1>2, <1>3, <1>4

(* Nothing else that the consumer does is seen.                            *)
LEMMA QuietStep ==
  ASSUME UNCHANGED <<task, told, retired>>,
         \A t \in TaskId, k \in TerminalEvents :
           At(<<t, k>>, "ack")' <=> At(<<t, k>>, "ack")
  PROVE  UNCHANGED Promise!vars
<1>1. {t \in TaskId : InDoubt(t)}' = {t \in TaskId : InDoubt(t)}
  BY DEF InDoubt
<1> QED
  BY <1>1, OutcomesKept DEF Promise!vars

LEMMA QuietFetch ==
  ASSUME DInv, NEW t \in TaskId, NEW k \in EventKind, FetchesTask(<<t, k>>),
         k = "approved" \/ task[t].kind # "service_query"
  PROVE  UNCHANGED Promise!vars
<1>1. /\ task' = task /\ told' = told /\ retired' = retired
      /\ stage = "fetch" /\ current' = <<t, k>>
  BY DEF FetchesTask, First, Goes, vars, TerminalEvents
<1>2. k \in TerminalEvents => ~(told[t][k] > 0)
  BY DEF DInv, ToldInv, TerminalEvents
<1>3. \A u \in TaskId : InDoubt(u)' <=> InDoubt(u)
  BY <1>1, <1>2 DEF InDoubt, At
<1>4. {u \in TaskId : InDoubt(u)}' = {u \in TaskId : InDoubt(u)}
  BY <1>3
<1> QED
  BY <1>1, <1>4, OutcomesKept DEF Promise!vars

LEMMA PromiseStep ==
  ASSUME DInv, [DeliveryNext]_dvars
  PROVE  Promise!Next \/ UNCHANGED Promise!vars
<1> USE DEF DInv
<1>1. CASE StoreStep
  BY <1>1, StoreProceeds DEF Promise!Next
<1>2. CASE StartConsumer
  BY <1>2, RunTickEffect, QuietStep DEF StartConsumer, At, vars
<1>3. CASE StopConsumer
  BY <1>3, QuietStep DEF StopConsumer, At, tick, vars
<1>4. CASE Interval
  <2>1. current' = current /\ stage' = stage
    BY <1>4, RunTickEffect DEF Interval, tick
  <2> QED
    BY <1>4, <2>1, QuietStep DEF Interval, At, vars
<1>5. ASSUME NEW e \in Event, ProcessEvent(e)
      PROVE  Promise!Next \/ UNCHANGED Promise!vars
  <2> PICK t \in TaskId, k \in EventKind : e = <<t, k>>
    BY DEF Event
  <2>1. CASE FetchesTask(e) /\ k # "approved" /\ task[t].kind = "service_query"
    BY <2>1, TellingStep DEF Promise!Next
  <2>2. CASE FetchesTask(e) /\ (k = "approved" \/ task[t].kind # "service_query")
    BY <2>2, QuietFetch
  <2>3. CASE FetchFails(e)
    BY <2>3, QuietStep DEF FetchFails, First, Goes, At, vars
  <2>4. ASSUME NEW ok \in BOOLEAN, Dispatches(e, ok) PROVE UNCHANGED Promise!vars
    <3>1. k = "approved"
      BY <2>4 DEF Dispatches, At, TickInv
    <3> QED
      BY <2>4, <3>1, QuietStep DEF Dispatches, At, Goes, TerminalEvents, vars
  <2>5. CASE Acks(e)
    <3>1. {u \in TaskId : InDoubt(u)}' = {u \in TaskId : InDoubt(u)}
      BY <2>5 DEF Acks, At, Done, InDoubt
    <3> QED
      BY <2>5, <3>1, OutcomesKept DEF Acks, Promise!vars, vars
  <2>6. CASE AckFails(e)
    BY <2>6, LosingStep DEF AckFails, Done, Promise!Next, vars
  <2>7. CASE MarksDeliveryFailed(e) \/ MarkFails(e)
    BY <2>7, QuietStep DEF MarksDeliveryFailed, MarkFails, Failing, First, Done, At, vars
  <2> QED
    BY <1>5, <2>1, <2>2, <2>3, <2>4, <2>5, <2>6, <2>7 DEF ProcessEvent
<1>6. CASE Crash
  <2>1. UNCHANGED <<task, told, retired>> /\ stage' = "fetch"
    BY <1>6 DEF Crash, Restart
  <2>2. CASE stage = "ack"
    <3>1. current \in Event
      BY <2>2 DEF TickInv, DeliveryTypeOK
    <3>2. PICK t \in TaskId, k \in EventKind : current = <<t, k>>
      BY <3>1 DEF Event
    <3>3. At(<<t, k>>, "ack")
      BY <2>2, <3>2 DEF At
    <3> QED
      BY <2>1, <3>3, LosingStep DEF Promise!Next
  <2>3. CASE stage # "ack"
    BY <2>1, <2>3, QuietStep DEF At
  <2> QED
    BY <2>2, <2>3
<1>7. CASE UNCHANGED dvars
  BY <1>7, QuietStep DEF dvars, delivery, tick, At, vars
<1> QED
  BY <1>1, <1>2, <1>3, <1>4, <1>5, <1>6, <1>7 DEF DeliveryNext

(* The user is never told of an outcome that a query did not have, nor     *)
(* twice of the one it had, but when the first telling's acknowledgement   *)
(* failed or the node died before it (deliver, ackAndTrack).               *)
THEOREM ToldAsPromised == DeliverySpec => Promise!Safe
<1>1. DeliveryInit => Promise!Init
  <2> SUFFICES ASSUME DeliveryInit PROVE Promise!Init
    OBVIOUS
  <2>1. \A t \in TaskId : OutcomeOf(t) = "none" /\ ~InDoubt(t)
    BY DEF DeliveryInit, Init, NoRow, OutcomeOf, Rows, InDoubt
  <2> QED
    BY <2>1 DEF Promise!Init, DeliveryInit
<1>2. DInv /\ [DeliveryNext]_dvars => [Promise!Next]_(Promise!vars)
  BY PromiseStep
<1> QED
  BY <1>1, <1>2, DeliveryInductive, PTL DEF DeliverySpec, Promise!Safe

-----------------------------------------------------------------------------
(* What the retired part of the table means.                               *)

(* An outcome that is retired, or about to be, was appended, and if it is  *)
(* that of a query, the chat was told; no other kind but `approved' is.    *)
RetiredInv ==
  \A t \in TaskId, k \in EventKind :
    <<t, k>> \in retired \/ At(<<t, k>>, "ack") =>
      /\ Routed(k)
      /\ k \in TerminalEvents =>
           /\ emitted[t][k] > 0
           /\ task[t].kind = "service_query" => told[t][k] > 0

(* RetiredInv of one event, which the step leaves where it is.             *)
RetiredOk(t, k) ==
  /\ Routed(k)
  /\ k \in TerminalEvents =>
       /\ emitted[t][k] > 0
       /\ task[t].kind = "service_query" => told[t][k] > 0

LEMMA RetiredOkStays ==
  ASSUME DInv, DeliveryNext, NEW t \in TaskId, NEW k \in EventKind, RetiredOk(t, k),
         k \in TerminalEvents => (told[t][k] > 0 => told'[t][k] > 0)
  PROVE  RetiredOk(t, k)'
<1>1. CASE k \notin TerminalEvents
  BY <1>1 DEF RetiredOk, Routed
<1>2. CASE k \in TerminalEvents
  <2>1. emitted[t][k] > 0
    BY <1>2 DEF RetiredOk
  <2>2. task[t].status = k
    BY <1>2, <2>1 DEF DInv, IInv, OneTerminalEvent
  <2>3. /\ emitted[t][k] \in Nat /\ emitted'[t][k] \in Nat
        /\ emitted'[t][k] >= emitted[t][k]
        /\ task'[t].kind = task[t].kind
    BY <1>2, <2>2, StorePart, StoreKeepsEvents DEF DInv, TerminalEvents
  <2> QED
    BY <1>2, <2>1, <2>3 DEF RetiredOk, Routed
<1> QED
  BY <1>1, <1>2

LEMMA ToldGrows ==
  ASSUME DInv, DeliveryNext, NEW t \in TaskId, NEW k \in TerminalEvents,
         told[t][k] > 0
  PROVE  told'[t][k] > 0
<1>1. CASE told' = told
  BY <1>1
<1>2. CASE \E e \in Event : Told(e)
  BY <1>2 DEF Told, DInv, DeliveryTypeOK
<1> QED
  BY <1>1, <1>2 DEF DeliveryNext, StoreStep, StartConsumer, StopConsumer, Interval,
     Crash, ProcessEvent, FetchesTask, FetchFails, Dispatches, Acks, AckFails,
     MarksDeliveryFailed, MarkFails

LEMMA RetiredStep ==
  ASSUME DInv, RetiredInv, DeliveryNext PROVE RetiredInv'
<1> SUFFICES ASSUME NEW t \in TaskId, NEW k \in EventKind,
                    <<t, k>> \in retired' \/ At(<<t, k>>, "ack")'
             PROVE  RetiredOk(t, k)'
  BY DEF RetiredInv, RetiredOk
<1>1. CASE <<t, k>> \in retired \/ At(<<t, k>>, "ack")
  <2>1. RetiredOk(t, k)
    BY <1>1 DEF RetiredInv, RetiredOk
  <2> QED
    BY <2>1, ToldGrows, RetiredOkStays
<1>2. CASE ~(<<t, k>> \in retired \/ At(<<t, k>>, "ack"))
  <2>1. \/ FetchesTask(<<t, k>>) \/ \E ok \in BOOLEAN : Dispatches(<<t, k>>, ok)
    <3>1. ASSUME NEW e \in Event, ProcessEvent(e)
          PROVE  e = <<t, k>> /\ (FetchesTask(e) \/ \E ok \in BOOLEAN : Dispatches(e, ok))
      BY <1>2, <3>1 DEF ProcessEvent, FetchesTask, FetchFails, Dispatches, Acks, AckFails,
         MarksDeliveryFailed, MarkFails, Goes, Done, At
    <3>2. ASSUME StartConsumer \/ Interval PROVE FALSE
      <4>1. current' = current /\ stage' = stage
        BY <3>2, RunTickEffect DEF StartConsumer, Interval, tick, DInv
      <4> QED
        BY <1>2, <3>2, <4>1 DEF StartConsumer, Interval, At
    <3>3. ~(StoreStep \/ StopConsumer \/ Crash)
      BY <1>2 DEF StoreStep, StopConsumer, Crash, tick, At
    <3> QED
      BY <3>1, <3>2, <3>3 DEF DeliveryNext
  <2>2. CASE k \notin TerminalEvents
    <3>1. Routed(k)
      BY <2>1, <2>2 DEF FetchesTask, Dispatches, At, DInv, TickInv, Routed
    <3> QED
      BY <2>2, <3>1 DEF RetiredOk, Routed
  <2>3. CASE k \in TerminalEvents
    <3>1. FetchesTask(<<t, k>>)
      BY <2>1, <2>3 DEF Dispatches, At, DInv, TickInv, TerminalEvents
    <3>2. emitted[t][k] > 0 /\ UNCHANGED vars
      BY <2>3, <3>1 DEF FetchesTask, First, DInv, TickInv, Emitted
    <3>3. task[t].kind = "service_query" => Told(<<t, k>>)
      BY <2>3, <3>1 DEF FetchesTask, TerminalEvents
    <3>4. Told(<<t, k>>) => told'[t][k] > 0
      BY <2>3 DEF Told, DInv, DeliveryTypeOK
    <3> QED
      BY <2>3, <3>2, <3>3, <3>4 DEF RetiredOk, Routed, vars
  <2> QED
    BY <2>2, <2>3
<1> QED
  BY <1>1, <1>2

LEMMA RetiredInductive == DeliverySpec => [](DInv /\ RetiredInv)
<1>1. DeliveryInit => RetiredInv
  BY DEF DeliveryInit, RetiredInv, At
<1>2. DInv /\ RetiredInv /\ [DeliveryNext]_dvars => RetiredInv'
  <2>1. DInv /\ RetiredInv /\ UNCHANGED dvars => RetiredInv'
    BY DEF RetiredInv, dvars, vars, delivery, tick, At
  <2> QED
    BY <2>1, RetiredStep
<1> QED
  BY <1>1, <1>2, DeliveryInductive, PTL DEF DeliverySpec

(* No outcome is lost: that of a query was told, or it is still in the     *)
(* table to be delivered, whatever failed, crashed or was listed late.     *)
OutcomeToldOrUndelivered ==
  \A t \in TaskId, k \in TerminalEvents :
    task[t].kind = "service_query" /\ emitted[t][k] > 0 =>
      told[t][k] > 0 \/ Undelivered(<<t, k>>)

(* The chat hears at most one outcome of a task, the one its row has.      *)
ToldIsOutcome ==
  \A t \in TaskId, k \in TerminalEvents : told[t][k] > 0 => task[t].status = k

(* Nothing is acknowledged but what the consumer routes: an event of       *)
(* another kind is listed for ever.                                        *)
OnlyRoutedRetire == \A e \in retired : Routed(e[2])

(* needs_delivery is cleared of an outcome only after the chat was told.   *)
THEOREM NoOutcomeLost ==
  DeliverySpec => [](OutcomeToldOrUndelivered /\ ToldIsOutcome /\ OnlyRoutedRetire)
<1>1. DInv /\ RetiredInv => OutcomeToldOrUndelivered
  <2> SUFFICES ASSUME RetiredInv, NEW t \in TaskId, NEW k \in TerminalEvents,
                      task[t].kind = "service_query", emitted[t][k] > 0,
                      <<t, k>> \in retired
               PROVE  told[t][k] > 0
    BY DEF OutcomeToldOrUndelivered, Undelivered, Emitted
  <2>1. k \in EventKind
    BY DEF TerminalEvents, EventKind
  <2> QED
    BY <2>1 DEF RetiredInv
<1>2. DInv => ToldIsOutcome
  BY DEF DInv, ToldInv, IInv, OneTerminalEvent, ToldIsOutcome
<1>3. DInv /\ RetiredInv => OnlyRoutedRetire
  BY DEF DInv, DeliveryTypeOK, Event, RetiredInv, OnlyRoutedRetire
<1> QED
  BY <1>1, <1>2, <1>3, RetiredInductive, PTL

-----------------------------------------------------------------------------
(* The store under the consumer is the store.                              *)

(* Listing, telling and acknowledging do not disturb the tasks: every      *)
(* safety property of Workflow holds of the composition as well.           *)
THEOREM StoreUnderConsumer == DeliverySpec => Init /\ [][Next]_vars
<1>1. DeliveryInit => Init
  BY DEF DeliveryInit
<1>2. [DeliveryNext]_dvars => [Next]_vars
  BY StorePart DEF dvars
<1> QED
  BY <1>1, <1>2, PTL DEF DeliverySpec
=============================================================================
