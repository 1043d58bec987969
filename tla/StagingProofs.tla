--------------------------- MODULE StagingProofs ---------------------------
(***************************************************************************)
(* Proofs about the staging inbox, for any sources, personas, classifiers  *)
(* and bounds.                                                             *)
(***************************************************************************)
EXTENDS StagingInbox, TLAPS

Key == Source \X Persona

(* What an item is, beyond its type: one that is not there is blank, one   *)
(* that is there has been ingested, one that may yet fail has retries left. *)
ItemOK(s) ==
  /\ item[s].status = "none" => item[s] = NoItem
  /\ item[s].status # "none" => life[s] \in 1..MaxIngests
  /\ item[s].status \in {"received", "classifying", "pending_approval"} =>
       item[s].retry_count <= Max_retries

TypeInv == TypeOK /\ \A s \in Source : ItemOK(s)

(* Only the status of the item s moves, to st.                             *)
Moves(s, st) == item' = [item EXCEPT ![s].status = st]

LEMMA InitType == Init => TypeInv
<1> SUFFICES ASSUME Init PROVE TypeInv
  OBVIOUS
<1>1. NoItem \in Item /\ NoItem.status = "none"
  BY BoundAssumption DEF NoItem, Item, Status
<1>2. TypeOK
  BY <1>1, BoundAssumption DEF Init, TypeOK
<1>3. \A s \in Source : ItemOK(s)
  BY <1>1 DEF Init, ItemOK
<1> QED
  BY <1>2, <1>3 DEF TypeInv

(* The status of some items of a set changes among the ones that have an   *)
(* item: from one that leaves retries, or to one that asks for none.       *)
LEMMA StatusStep ==
  ASSUME TypeInv, NEW S \in SUBSET Source, NEW st \in Status,
         life' = life,
         \A s \in S : /\ item[s].status # "none"
                      /\ \/ item[s].status \in
                              {"received", "classifying", "pending_approval"}
                         \/ st \in {"stored", "pending_unlock", "failed"}
                         \/ item[s].retry_count <= Max_retries,
         item' = [s \in Source |-> IF s \in S
                    THEN [item[s] EXCEPT !.status = st] ELSE item[s]]
  PROVE  item' \in [Source -> Item] /\ \A s \in Source : ItemOK(s)'
<1>1. item \in [Source -> Item]
  BY DEF TypeInv, TypeOK
<1>2. \A s \in Source : [item[s] EXCEPT !.status = st] \in Item
  BY <1>1 DEF Item
<1>3. item' \in [Source -> Item]
  BY <1>1, <1>2
<1>4. ASSUME NEW s \in Source PROVE ItemOK(s)'
  <2>1. ItemOK(s)
    BY DEF TypeInv
  <2>2. CASE s \in S
    <3>1. item'[s] = [item[s] EXCEPT !.status = st] /\ item[s] \in Item
      BY <1>1, <2>2
    <3>2. item'[s].status = st /\ item'[s].retry_count = item[s].retry_count
      BY <3>1 DEF Item
    <3>3. st # "none"
      BY DEF Status
    <3> QED
      BY <2>1, <2>2, <3>2, <3>3 DEF ItemOK
  <2>3. CASE s \notin S
    BY <2>1, <2>3 DEF ItemOK
  <2> QED
    BY <2>2, <2>3
<1> QED
  BY <1>3, <1>4

(* One item's status: the form most handlers use.                          *)
LEMMA OneStatus ==
  ASSUME TypeInv, NEW s \in Source, NEW st, Moves(s, st)
  PROVE  item' = [r \in Source |-> IF r \in {s}
                    THEN [item[r] EXCEPT !.status = st] ELSE item[r]]
BY DEF Moves, TypeInv, TypeOK

(* A resolved item: its persona and status are known.                      *)
LEMMA SettledItem ==
  ASSUME TypeInv, NEW s \in Source, NEW p \in Persona, NEW c \in BOOLEAN,
         NEW st \in {"stored", "pending_unlock"}, item[s].status # "none",
         life' = life,
         item' = [item EXCEPT ![s].persona = p, ![s].classified = c,
                              ![s].status = st]
  PROVE  item' \in [Source -> Item] /\ \A r \in Source : ItemOK(r)'
<1>1. item \in [Source -> Item]
  BY DEF TypeInv, TypeOK
<1>2. item'[s] = [item[s] EXCEPT !.persona = p, !.classified = c, !.status = st]
  BY <1>1
<1>3. item'[s] \in Item /\ item'[s].status = st
  <2>1. item[s] \in Item
    BY <1>1
  <2>2. st \in Status
    BY DEF Status
  <2>3. [item[s] EXCEPT !.persona = p] \in Item
    BY <2>1 DEF Item
  <2>4. [item[s] EXCEPT !.persona = p, !.classified = c] \in Item
    BY <2>3 DEF Item
  <2>5. [item[s] EXCEPT !.persona = p, !.classified = c, !.status = st] \in Item
    BY <2>2, <2>4 DEF Item
  <2>6. item'[s].status = st
    BY <1>2, <2>4 DEF Item
  <2> QED
    BY <1>2, <2>5, <2>6
<1>4. \A r \in Source \ {s} : item'[r] = item[r]
  BY <1>1
<1>5. item' \in [Source -> Item]
  BY <1>1, <1>3
<1>6. ASSUME NEW r \in Source PROVE ItemOK(r)'
  <2>1. ItemOK(r) /\ ItemOK(s)
    BY DEF TypeInv
  <2>2. CASE r = s
    BY <1>3, <2>1, <2>2 DEF ItemOK
  <2>3. CASE r # s
    BY <1>4, <2>1, <2>3 DEF ItemOK
  <2> QED
    BY <2>2, <2>3
<1> QED
  BY <1>5, <1>6

(* Every step keeps the types of the items, and what ItemOK says of them.  *)
LEMMA ItemStep ==
  ASSUME TypeInv, [Next]_vars
  PROVE  item' \in [Source -> Item] /\ \A s \in Source : ItemOK(s)'
<1> DEFINE Goal == item' \in [Source -> Item] /\ \A s \in Source : ItemOK(s)'
<1>1. /\ item \in [Source -> Item] /\ life \in [Source -> 0..MaxIngests]
      /\ ingests \in 0..MaxIngests /\ \A s \in Source : ItemOK(s)
  BY DEF TypeInv, TypeOK
<1>2. NoItem \in Item /\ NoItem.status = "none"
  BY BoundAssumption DEF NoItem, Item, Status
<1>3. ASSUME item' = item, life' = life PROVE Goal
  BY <1>1, <1>3 DEF ItemOK
<1>4. ASSUME NEW s \in Source, NEW st \in Status, Moves(s, st), life' = life,
             item[s].status \in {"received", "classifying", "pending_approval"}
      PROVE  Goal
  <2>1. item' = [r \in Source |-> IF r \in {s}
                   THEN [item[r] EXCEPT !.status = st] ELSE item[r]]
    BY <1>4, OneStatus
  <2>2. \A r \in {s} :
          /\ item[r].status # "none"
          /\ item[r].status \in {"received", "classifying", "pending_approval"}
    BY <1>4
  <2>3. {s} \in SUBSET Source
    OBVIOUS
  <2> HIDE DEF Goal
  <2>4. item' \in [Source -> Item] /\ \A r \in Source : ItemOK(r)'
    BY <1>4, <2>1, <2>2, <2>3, StatusStep
  <2> QED
    BY <2>4 DEF Goal
<1>5. ASSUME NEW s \in Source, Ingest(s) PROVE Goal
  <2>1. item[s] = NoItem
    BY <1>1, <1>5 DEF Ingest, ItemOK
  <2>2. /\ item'[s] = [NoItem EXCEPT !.status = "received"]
        /\ \A r \in Source \ {s} : item'[r] = item[r]
        /\ item' = [item EXCEPT ![s] = item'[s]]
    BY <1>1, <1>5, <2>1 DEF Ingest
  <2>3. /\ item'[s] \in Item /\ item'[s].status = "received"
        /\ item'[s].retry_count = 0
    BY <1>2, <2>2, BoundAssumption DEF NoItem, Item, Status
  <2>4. /\ life'[s] \in 1..MaxIngests
        /\ \A r \in Source \ {s} : life'[r] = life[r]
    BY <1>1, <1>5, BoundAssumption DEF Ingest
  <2>5. item' \in [Source -> Item]
    BY <1>1, <2>2, <2>3
  <2>6. ASSUME NEW r \in Source PROVE ItemOK(r)'
    <3>1. CASE r = s
      BY <2>3, <2>4, <3>1, BoundAssumption DEF ItemOK
    <3>2. CASE r # s
      BY <1>1, <2>2, <2>4, <3>2 DEF ItemOK
    <3> QED
      BY <3>1, <3>2
  <2> QED
    BY <2>5, <2>6
<1>6. ASSUME NEW S \in SUBSET Source, Claim(S), life' = life PROVE Goal
  <2>1. \A s \in S : item[s].status = "received"
    BY <1>6 DEF Claim, Claimable, InStatus
  <2>2. "classifying" \in Status
    BY DEF Status
  <2>3. item' = [s \in Source |-> IF s \in S
          THEN [item[s] EXCEPT !.status = "classifying"] ELSE item[s]]
    BY <1>6 DEF Claim
  <2> QED
    BY <1>6, <2>1, <2>2, <2>3, StatusStep
<1>7. ASSUME NEW s \in Source, Fail(s), life' = life PROVE Goal
  <2>1. item[s] \in Item /\ item[s].status = "classifying"
    BY <1>1, <1>7 DEF Fail, Resolvable
  <2>2. item[s].retry_count \in 0..Max_retries
    BY <1>1, <2>1, BoundAssumption DEF ItemOK, Item
  <2>3. item' = [item EXCEPT ![s] = [item[s] EXCEPT !.status = "failed",
                   !.retry_count = item[s].retry_count + 1]]
    BY <1>1, <1>7 DEF Fail
  <2>4. item'[s] \in Item /\ item'[s].status = "failed"
    <3>1. item'[s] = [item[s] EXCEPT !.status = "failed",
                        !.retry_count = item[s].retry_count + 1]
      BY <1>1, <2>3
    <3>2. item[s].retry_count + 1 \in 0..(Max_retries + 1)
      BY <2>2, BoundAssumption
    <3>3. [item[s] EXCEPT !.status = "failed"] \in Item
      BY <2>1 DEF Item, Status
    <3> QED
      BY <2>1, <3>1, <3>2, <3>3 DEF Item
  <2>5. \A r \in Source \ {s} : item'[r] = item[r]
    BY <1>1, <2>3
  <2>6. item' \in [Source -> Item]
    BY <1>1, <2>3, <2>4
  <2>7. ASSUME NEW r \in Source PROVE ItemOK(r)'
    <3>1. CASE r = s
      BY <1>1, <1>7, <2>1, <2>4, <3>1 DEF ItemOK
    <3>2. CASE r # s
      BY <1>1, <1>7, <2>5, <3>2 DEF ItemOK
    <3> QED
      BY <3>1, <3>2
  <2> QED
    BY <2>6, <2>7
<1>8. ASSUME NEW s \in Source, NEW p \in Persona, NEW targets \in SUBSET Persona,
             NEW c \in BOOLEAN, ResolveMulti(s, p, targets, c), life' = life
      PROVE  Goal
  <2> DEFINE st == IF p \in open THEN "stored" ELSE "pending_unlock"
  <2>1. st \in {"stored", "pending_unlock"}
    OBVIOUS
  <2>2. item[s].status # "none"
    BY <1>8 DEF ResolveMulti, Resolvable
  <2>3. item' = [item EXCEPT ![s].persona = p, ![s].classified = c,
                   ![s].status = st]
    BY <1>8 DEF ResolveMulti
  <2> HIDE DEF st
  <2> QED
    BY <1>8, <2>1, <2>2, <2>3, SettledItem
<1>9. ASSUME NEW s \in Source, NEW p \in Persona, NEW o \in BOOLEAN,
             RouteResolve(s, p, o)
      PROVE  Goal
  <2> DEFINE st == IF o THEN "stored" ELSE "pending_unlock"
  <2>1. st \in {"stored", "pending_unlock"}
    OBVIOUS
  <2>2. item[s].status # "none" /\ life' = life
    BY <1>9 DEF RouteResolve, Resolvable, history
  <2>3. item[s] \in Item /\ item[s].classified \in BOOLEAN
    BY <1>1 DEF Item
  <2>4. item' = [item EXCEPT ![s].persona = p, ![s].status = st]
    BY <1>9 DEF RouteResolve
  <2> HIDE DEF st
  <2>5. item' = [item EXCEPT ![s] =
                   [item[s] EXCEPT !.persona = p, !.status = st]]
    BY <1>1, <2>4
  <2>6. [item[s] EXCEPT !.persona = p, !.status = st]
        = [item[s] EXCEPT !.persona = p, !.classified = item[s].classified,
                          !.status = st]
    BY <2>3 DEF Item
  <2>7. item' = [item EXCEPT ![s].persona = p,
                   ![s].classified = item[s].classified, ![s].status = st]
    BY <1>1, <2>5, <2>6
  <2> QED
    BY <2>1, <2>2, <2>3, <2>7, SettledItem
<1>10. ASSUME NEW expired \in SUBSET Source, Sweep(expired) PROVE Goal
  <2>1. life' = life
    BY <1>10 DEF Sweep, history
  <2>2. \A s \in Source :
          item'[s] = IF s \in expired THEN NoItem ELSE Swept(s)
    BY <1>10 DEF Sweep
  <2>3. ASSUME NEW s \in Source PROVE item'[s] \in Item /\ ItemOK(s)'
    <3>1. CASE s \in expired
      BY <1>2, <2>1, <2>2, <3>1 DEF ItemOK
    <3>2. CASE s \notin expired /\ Swept(s) = item[s]
      BY <1>1, <2>1, <2>2, <3>2 DEF ItemOK
    <3>3. CASE s \notin expired /\ Swept(s) # item[s]
      <4>1. /\ item'[s] = [item[s] EXCEPT !.status = "received"]
            /\ item[s].status # "none"
            /\ item[s].retry_count <= Max_retries
        BY <1>1, <2>2, <3>3 DEF Swept, ItemOK
      <4>2. /\ item'[s] \in Item /\ item'[s].status = "received"
            /\ item'[s].retry_count = item[s].retry_count
        BY <1>1, <4>1 DEF Item, Status
      <4> QED
        BY <1>1, <2>1, <4>1, <4>2 DEF ItemOK
    <3> QED
      BY <3>1, <3>2, <3>3
  <2>4. item' = [s \in Source |-> item'[s]]
    BY <1>10 DEF Sweep
  <2>5. item' \in [Source -> Item]
    BY <2>3, <2>4
  <2> QED
    BY <2>3, <2>5
<1>11. ASSUME NEW p \in Persona, DrainForPersona(p) PROVE Goal
  <2>1. PICK S \in SUBSET Source : S = {s \in Source :
          item[s].status = "pending_unlock" /\ item[s].persona = p}
    OBVIOUS
  <2>2. item' = [s \in Source |-> IF s \in S
          THEN [item[s] EXCEPT !.status = "stored"] ELSE item[s]]
    BY <1>11, <2>1 DEF DrainForPersona
  <2>3. "stored" \in Status /\ life' = life /\ \A s \in S : item[s].status # "none"
    BY <1>11, <2>1 DEF DrainForPersona, Status, history
  <2> QED
    BY <2>2, <2>3, StatusStep
<1>12. CASE Crash
  BY <1>1, <1>2, <1>12 DEF Crash, ItemOK
<1>13. "pending_approval" \in Status /\ "classifying" \in Status
  BY DEF Status
<1>14. CASE UNCHANGED vars
  BY <1>3, <1>14 DEF vars
<1>15. CASE ServiceStep
  <2>1. ASSUME NEW s \in Source, MarkPendingApproval(s) PROVE Goal
    BY <2>1, <1>4, <1>13 DEF MarkPendingApproval, Moves, Resolvable, history
  <2>2. ASSUME NEW s \in Source, ResumeAfterApprovalGranted(s) PROVE Goal
    BY <2>2, <1>4, <1>13 DEF ResumeAfterApprovalGranted, Moves, history
  <2>3. ASSUME NEW s \in Source, LeaseLapses(s) PROVE Goal
    BY <2>3, <1>3 DEF LeaseLapses, history
  <2>4. ASSUME NEW s \in Source, NEW targets \in SUBSET Persona,
               NEW first \in targets, NEW c \in BOOLEAN,
               ResolveMany(s, first, targets, c)
        PROVE  Goal
    BY <2>4, <1>8 DEF ResolveMany, history
  <2> QED
    BY <1>5, <1>10, <1>15, <2>1, <2>2, <2>3, <2>4 DEF ServiceStep
<1>16. CASE RouteStep
  <2>1. ASSUME NEW S \in SUBSET Source, RouteClaim(S) PROVE Goal
    BY <2>1, <1>6 DEF RouteClaim, history
  <2>2. ASSUME NEW s \in Source, RouteFail(s) PROVE Goal
    BY <2>2, <1>7 DEF RouteFail, history
  <2>3. ASSUME NEW s \in Source, RouteExtendLease(s) PROVE Goal
    BY <2>3, <1>3 DEF RouteExtendLease, history
  <2> QED
    BY <1>9, <1>16, <2>1, <2>2, <2>3 DEF RouteStep
<1>17. ASSUME NEW k \in Classifier, ProcessorStep(k) PROVE Goal
  <2>1. ASSUME NEW S \in SUBSET Source, ClaimBatch(k, S) PROVE Goal
    BY <2>1, <1>6 DEF ClaimBatch, history
  <2>2. CASE BeatBatch(k)
    BY <2>2, <1>3 DEF BeatBatch, history
  <2>3. \A i \in todo[k] : i[1] \in Source
    BY DEF TypeInv, TypeOK
  <2>4. ASSUME NEW i \in todo[k], ProcessFails(k, i) PROVE Goal
    BY <2>3, <2>4, <1>7 DEF ProcessFails, history
  <2>5. ASSUME NEW i \in todo[k], ProcessTooLate(k, i) PROVE Goal
    BY <2>5, <1>3 DEF ProcessTooLate, history
  <2>6. ASSUME NEW i \in todo[k], NEW p \in Persona, NEW c \in BOOLEAN,
               ProcessOneItem(k, i, p, c)
        PROVE  Goal
    <3>1. i[1] \in Source /\ {p} \in SUBSET Persona /\ life' = life
      BY <2>3, <2>6 DEF ProcessOneItem, history
    <3>2. ResolveMulti(i[1], p, {p}, c)
      BY <2>6 DEF ProcessOneItem
    <3> QED
      BY <3>1, <3>2, <1>8
  <2> QED
    BY <1>17, <2>1, <2>2, <2>4, <2>5, <2>6 DEF ProcessorStep
<1>18. ASSUME NEW p \in Persona, OpenPersona(p) \/ ClosePersona(p) PROVE Goal
  BY <1>3, <1>18 DEF OpenPersona, ClosePersona, history
<1> QED
  BY <1>11, <1>12, <1>14, <1>15, <1>16, <1>17, <1>18 DEF Next

LEMMA TypeStep == TypeInv /\ [Next]_vars => TypeInv'
<1> SUFFICES ASSUME TypeInv, [Next]_vars PROVE TypeInv'
  OBVIOUS
<1>1. item' \in [Source -> Item] /\ \A s \in Source : ItemOK(s)'
  BY ItemStep
<1> DEFINE Copies ==
             copy' \in [Source \X Persona -> {"none", "pending_unlock", "stored"}]
           Lives == /\ ingests' \in 0..MaxIngests /\ crashes' \in 0..MaxCrashes
                    /\ life' \in [Source -> 0..MaxIngests]
           Leases == lapsed' \subseteq Source /\ open' \subseteq Persona
           Work ==
             /\ batch' \in [Classifier -> SUBSET (Source \X (1..MaxIngests))]
             /\ todo' \in [Classifier -> SUBSET (Source \X (1..MaxIngests))]
             /\ beat' \subseteq Classifier
           Records == /\ written' \in [Source \X Persona -> Nat]
                      /\ chosen' \in [Source -> SUBSET Persona]
           Goal == Copies /\ Lives /\ Leases /\ Work /\ Records
<1> SUFFICES Goal
  BY <1>1 DEF TypeInv, TypeOK
<1>2. TypeOK
  BY DEF TypeInv
<1>3. ASSUME NEW s \in Source, NEW first \in Persona,
             NEW targets \in SUBSET Persona, NEW classified \in BOOLEAN,
             ResolveMulti(s, first, targets, classified)
      PROVE  Copies /\ Records
  BY <1>2, <1>3 DEF TypeOK, ResolveMulti
<1>4. CASE ServiceStep
  <2>1. ASSUME NEW s \in Source, Ingest(s) PROVE Goal
    BY <1>2, <2>1, BoundAssumption DEF TypeOK, Ingest, work
  <2>2. ASSUME NEW s \in Source, MarkPendingApproval(s) PROVE Goal
    BY <1>2, <2>2 DEF TypeOK, MarkPendingApproval, work, history
  <2>3. ASSUME NEW s \in Source, ResumeAfterApprovalGranted(s) PROVE Goal
    BY <1>2, <2>3 DEF TypeOK, ResumeAfterApprovalGranted, work, history
  <2>4. ASSUME NEW s \in Source, LeaseLapses(s) PROVE Goal
    BY <1>2, <2>4 DEF TypeOK, LeaseLapses, work, history
  <2>5. ASSUME NEW s \in Source, NEW targets \in SUBSET Persona,
               NEW first \in targets, NEW classified \in BOOLEAN,
               ResolveMany(s, first, targets, classified)
        PROVE  Goal
    <3>1. Copies /\ Records
      BY <2>5, <1>3 DEF ResolveMany
    <3>2. Lives /\ Leases /\ Work
      BY <1>2, <2>5 DEF TypeOK, ResolveMany, work, history
    <3> QED
      BY <3>1, <3>2
  <2>6. ASSUME NEW expired \in SUBSET Source, Sweep(expired) PROVE Goal
    BY <1>2, <2>6 DEF TypeOK, Sweep, work, history
  <2> QED
    BY <1>4, <2>1, <2>2, <2>3, <2>4, <2>5, <2>6 DEF ServiceStep
<1>5. CASE RouteStep
  <2>1. ASSUME NEW S \in SUBSET Source, RouteClaim(S) PROVE Goal
    BY <1>2, <2>1 DEF TypeOK, RouteClaim, Claim, work, history
  <2>2. ASSUME NEW s \in Source, RouteFail(s) PROVE Goal
    BY <1>2, <2>2 DEF TypeOK, RouteFail, work, history
  <2>3. ASSUME NEW s \in Source, RouteExtendLease(s) PROVE Goal
    BY <1>2, <2>3 DEF TypeOK, RouteExtendLease, ExtendLeases, work, history
  <2>4. ASSUME NEW s \in Source, NEW p \in Persona, NEW o \in BOOLEAN,
               RouteResolve(s, p, o)
        PROVE  Goal
    BY <1>2, <2>4 DEF TypeOK, RouteResolve, work, history
  <2> QED
    BY <1>5, <2>1, <2>2, <2>3, <2>4 DEF RouteStep
<1>6. ASSUME NEW k \in Classifier, ProcessorStep(k) PROVE Goal
  <2>1. ASSUME NEW S \in SUBSET Source, ClaimBatch(k, S) PROVE Goal
    <3>1. \A s \in S : life[s] \in 1..MaxIngests
      BY <1>2, <2>1 DEF TypeInv, ItemOK, ClaimBatch, Claim, Claimable, InStatus
    <3>2. {<<s, life[s]>> : s \in S} \in SUBSET (Source \X (1..MaxIngests))
      BY <3>1
    <3>3. Work
      BY <1>2, <2>1, <3>2 DEF TypeOK, ClaimBatch
    <3>4. Copies /\ Lives /\ Leases /\ Records
      BY <1>2, <2>1 DEF TypeOK, ClaimBatch, Claim, history
    <3> QED
      BY <3>3, <3>4
  <2>2. CASE BeatBatch(k)
    BY <1>2, <2>2 DEF TypeOK, BeatBatch, ExtendLeases, history
  <2>3. \A i \in todo[k] : i[1] \in Source
    BY <1>2 DEF TypeOK
  <2>4. ASSUME NEW i \in todo[k], Finish(k, i) PROVE Work
    BY <1>2, <2>4 DEF TypeOK, Finish
  <2>5. ASSUME NEW i \in todo[k], ProcessFails(k, i) PROVE Goal
    BY <1>2, <2>4, <2>5 DEF TypeOK, ProcessFails, history
  <2>6. ASSUME NEW i \in todo[k], ProcessTooLate(k, i) PROVE Goal
    BY <1>2, <2>4, <2>6 DEF TypeOK, ProcessTooLate, history
  <2>7. ASSUME NEW i \in todo[k], NEW p \in Persona, NEW c \in BOOLEAN,
               ProcessOneItem(k, i, p, c)
        PROVE  Goal
    <3>1. ResolveMulti(i[1], p, {p}, c) /\ {p} \in SUBSET Persona
      BY <2>7 DEF ProcessOneItem
    <3>2. Copies /\ Records
      BY <1>3, <2>3, <3>1
    <3>3. Work /\ Lives /\ Leases
      BY <1>2, <2>4, <2>7 DEF TypeOK, ProcessOneItem, history
    <3> QED
      BY <3>2, <3>3
  <2> QED
    BY <1>6, <2>1, <2>2, <2>5, <2>6, <2>7 DEF ProcessorStep
<1>7. ASSUME NEW p \in Persona, OpenPersona(p) \/ ClosePersona(p) PROVE Goal
  BY <1>2, <1>7 DEF TypeOK, OpenPersona, ClosePersona, work, history
<1>8. ASSUME NEW p \in Persona, DrainForPersona(p) PROVE Goal
  BY <1>2, <1>8 DEF TypeOK, DrainForPersona, work, history
<1>9. CASE Crash
  <2>1. Lives
    BY <1>2, <1>9, BoundAssumption DEF TypeOK, Crash
  <2>2. Copies /\ Leases
    BY <1>2, <1>9 DEF TypeOK, Crash
  <2>3. Work
    BY <1>2, <1>9 DEF TypeOK, Crash
  <2>4. Records
    BY <1>2, <1>9 DEF TypeOK, Crash
  <2> QED
    BY <2>1, <2>2, <2>3, <2>4
<1>10. CASE UNCHANGED vars
  <2>1. Copies /\ Lives /\ Leases
    BY <1>2, <1>10 DEF TypeOK, vars
  <2>2. Work
    BY <1>2, <1>10 DEF TypeOK, vars
  <2>3. Records
    BY <1>2, <1>10 DEF TypeOK, vars
  <2> QED
    BY <2>1, <2>2, <2>3
<1> HIDE DEF Goal
<1> QED
  BY <1>4, <1>5, <1>6, <1>7, <1>8, <1>9, <1>10 DEF Next

(* Whatever the classifiers, the routes and the sweep do in whichever      *)
(* order, the inbox keeps its types; no item's retry_count goes beyond one *)
(* more than STAGING_MAX_RETRIES.                                          *)
THEOREM TypeCorrect == Spec => []TypeOK
<1>1. TypeInv => TypeOK
  BY DEF TypeInv
<1> QED
  BY <1>1, InitType, TypeStep, PTL DEF Spec

-----------------------------------------------------------------------------
(* One record per persona, and none of them forgotten.                     *)

Settled(s) == item[s].status \in {"stored", "pending_unlock"}

(* Where the item s and the persona p stand with each other: nothing is    *)
(* written, waits or is decided before the item is settled; what waits is  *)
(* for a chosen persona without a record; a record is for a chosen persona *)
(* and from an item that can be stored; and a chosen persona has one or    *)
(* the other.                                                              *)
TargetOK(s, p) ==
  /\ ~Settled(s) => /\ written[<<s, p>>] = 0 /\ copy[<<s, p>>] = "none"
                    /\ p \notin chosen[s] /\ ~item[s].classified
  /\ Pending(s, p) => p \in chosen[s] /\ written[<<s, p>>] = 0
  /\ written[<<s, p>>] \in {0, 1}
  /\ written[<<s, p>>] = 1 => item[s].classified /\ p \in chosen[s]
  /\ item[s].classified /\ p \in chosen[s] =>
       written[<<s, p>>] = 1 \/ Pending(s, p)

TargetInv == \A s \in Source, p \in Persona : TargetOK(s, p)

(* The item s does not move, or moves among the states before it is        *)
(* settled.                                                                *)
Unsettled(s) ==
  \/ item'[s] = item[s]
  \/ /\ ~Settled(s) /\ ~Settled(s)'
     /\ item'[s].classified = item[s].classified

LEMMA InitTarget == Init => TargetInv
BY DEF Init, TargetInv, TargetOK, Settled, Pending, NoItem

(* A step that leaves what is written, copied and chosen alone, and moves  *)
(* no settled item.                                                        *)
LEMMA UnsettledStep ==
  ASSUME TargetInv, UNCHANGED <<copy, written, chosen>>,
         \A s \in Source : Unsettled(s)
  PROVE  TargetInv'
<1> SUFFICES ASSUME NEW s \in Source, NEW p \in Persona PROVE TargetOK(s, p)'
  BY DEF TargetInv
<1>1. TargetOK(s, p) /\ Unsettled(s)
  BY DEF TargetInv
<1>2. CASE item'[s] = item[s]
  BY <1>1, <1>2 DEF TargetOK, Settled, Pending
<1>3. CASE item'[s] # item[s]
  BY <1>1, <1>3 DEF TargetOK, Settled, Pending, Unsettled
<1> QED
  BY <1>2, <1>3

(* One item gets another status, neither the old nor the new one settled.  *)
LEMMA MovesUnsettled ==
  ASSUME TypeInv, NEW s \in Source, NEW st, Moves(s, st),
         st \notin {"stored", "pending_unlock"}, ~Settled(s)
  PROVE  \A r \in Source : Unsettled(r)
<1>1. item \in [Source -> Item]
  BY DEF TypeInv, TypeOK
<1>2. item[s] \in Item
  BY <1>1
<1>3. item'[s].status = st /\ item'[s].classified = item[s].classified
  BY <1>1, <1>2 DEF Moves, Item
<1>4. \A r \in Source \ {s} : item'[r] = item[r]
  BY <1>1 DEF Moves
<1> QED
  BY <1>3, <1>4 DEF Unsettled, Settled

LEMMA ClaimUnsettled ==
  ASSUME TypeInv, NEW S \in SUBSET Source, Claim(S)
  PROVE  \A r \in Source : Unsettled(r)
<1> SUFFICES ASSUME NEW r \in Source PROVE Unsettled(r)
  OBVIOUS
<1>1. item[r] \in Item
  BY DEF TypeInv, TypeOK
<1>2. CASE r \in S
  <2>1. /\ item[r].status = "received"
        /\ item'[r] = [item[r] EXCEPT !.status = "classifying"]
    BY <1>2 DEF Claim, Claimable, InStatus
  <2>2. /\ item'[r].status = "classifying"
        /\ item'[r].classified = item[r].classified
    BY <1>1, <2>1 DEF Item
  <2> QED
    BY <2>1, <2>2 DEF Unsettled, Settled
<1>3. CASE r \notin S
  BY <1>3 DEF Claim, Unsettled
<1> QED
  BY <1>2, <1>3

LEMMA FailUnsettled ==
  ASSUME TypeInv, NEW s \in Source, Fail(s)
  PROVE  \A r \in Source : Unsettled(r)
<1>1. item \in [Source -> Item]
  BY DEF TypeInv, TypeOK
<1>2. item[s] \in Item
  BY <1>1
<1>3. item'[s] = [item[s] EXCEPT !.status = "failed",
                    !.retry_count = item[s].retry_count + 1]
  BY <1>1 DEF Fail
<1>4. item'[s].status = "failed" /\ item'[s].classified = item[s].classified
  BY <1>2, <1>3 DEF Item
<1>5. \A r \in Source \ {s} : item'[r] = item[r]
  BY <1>1 DEF Fail
<1>6. ~Settled(s) /\ ~Settled(s)'
  BY <1>4 DEF Fail, Resolvable, Settled
<1> QED
  BY <1>4, <1>5, <1>6 DEF Unsettled

(* An item is resolved: its open targets get their record, and the other   *)
(* ones a wait.                                                            *)
LEMMA ResolveTarget ==
  ASSUME TypeInv, TargetInv, NEW s \in Source, NEW targets \in SUBSET Persona,
         NEW first \in targets, NEW c \in BOOLEAN,
         ResolveMulti(s, first, targets, c)
  PROVE  TargetInv'
<1> SUFFICES ASSUME NEW r \in Source, NEW p \in Persona PROVE TargetOK(r, p)'
  BY DEF TargetInv
<1>1. /\ item \in [Source -> Item] /\ chosen \in [Source -> SUBSET Persona]
      /\ <<r, p>> \in Source \X Persona
  BY DEF TypeInv, TypeOK
<1>2. TargetOK(r, p) /\ TargetOK(s, p)
  BY DEF TargetInv
<1>3. CASE r # s
  <2>1. /\ item'[r] = item[r] /\ chosen'[r] = chosen[r]
        /\ written'[<<r, p>>] = written[<<r, p>>]
        /\ copy'[<<r, p>>] = copy[<<r, p>>]
    BY <1>1, <1>3 DEF ResolveMulti
  <2> QED
    BY <1>2, <2>1 DEF TargetOK, Settled, Pending
<1>4. CASE r = s
  <2> DEFINE st == IF first \in open THEN "stored" ELSE "pending_unlock"
  <2>1. item'[s] = [item[s] EXCEPT !.persona = first, !.classified = c,
                      !.status = st]
    BY <1>1 DEF ResolveMulti
  <2>2. item[s] \in Item
    BY <1>1
  <2> HIDE DEF st
  <2>3. item'[s].persona = first /\ item'[s].classified = c /\ item'[s].status = st
    BY <2>1, <2>2 DEF Item
  <2>4. chosen'[s] = targets
    BY <1>1 DEF ResolveMulti
  <2>5. written[<<s, p>>] = 0 /\ copy[<<s, p>>] = "none"
    BY <1>2 DEF TargetOK, Settled, ResolveMulti, Resolvable
  <2>6. written'[<<s, p>>] = IF p \in targets \cap open /\ c THEN 1 ELSE 0
    BY <1>1, <1>4, <2>5 DEF ResolveMulti
  <2>7. copy'[<<s, p>>] = IF p \in targets \ (open \cup {first})
                          THEN "pending_unlock" ELSE "none"
    BY <1>1, <1>4, <2>5 DEF ResolveMulti
  <2>8. Settled(s)' /\ (st = "stored" <=> first \in open)
    BY <2>3 DEF Settled, st
  <2>9. Pending(s, p)' <=> p \in targets \ open
    BY <2>3, <2>7, <2>8 DEF Pending, st
  <2> QED
    BY <1>4, <2>3, <2>4, <2>6, <2>8, <2>9 DEF TargetOK
<1> QED
  BY <1>3, <1>4

(* The route's resolve: the item waits for its persona or is stored, with  *)
(* nothing to be written either way.                                       *)
LEMMA RouteTarget ==
  ASSUME TypeInv, TargetInv, NEW s \in Source, NEW q \in Persona,
         NEW o \in BOOLEAN, RouteResolve(s, q, o)
  PROVE  TargetInv'
<1> SUFFICES ASSUME NEW r \in Source, NEW p \in Persona PROVE TargetOK(r, p)'
  BY DEF TargetInv
<1>1. item \in [Source -> Item] /\ chosen \in [Source -> SUBSET Persona]
  BY DEF TypeInv, TypeOK
<1>2. TargetOK(r, p) /\ written' = written /\ copy' = copy
  BY DEF TargetInv, RouteResolve
<1>3. CASE r # s
  <2>1. item'[r] = item[r] /\ chosen'[r] = chosen[r]
    BY <1>1, <1>3 DEF RouteResolve
  <2> QED
    BY <1>2, <2>1 DEF TargetOK, Settled, Pending
<1>4. CASE r = s
  <2> DEFINE st == IF o THEN "stored" ELSE "pending_unlock"
  <2>1. item'[s] = [item[s] EXCEPT !.persona = q, !.status = st]
    BY <1>1 DEF RouteResolve
  <2>2. item[s] \in Item
    BY <1>1
  <2>3. Settled(s)' = (st \in {"stored", "pending_unlock"})
    BY <2>1, <2>2 DEF Settled, Item
  <2>4. item'[s].persona = q /\ item'[s].classified = item[s].classified
    BY <2>1, <2>2 DEF Item
  <2>5. chosen'[s] = {q} /\ ~Settled(s)
    BY <1>1 DEF RouteResolve, Resolvable, Settled
  <2> QED
    BY <1>2, <1>4, <2>3, <2>4, <2>5 DEF TargetOK, Pending
<1> QED
  BY <1>3, <1>4

(* An item that outlives its TTL goes with its copies; what is swept back  *)
(* was not settled.                                                        *)
LEMMA SweepTarget ==
  ASSUME TypeInv, TargetInv, NEW expired \in SUBSET Source, Sweep(expired)
  PROVE  TargetInv'
<1> SUFFICES ASSUME NEW s \in Source, NEW p \in Persona PROVE TargetOK(s, p)'
  BY DEF TargetInv
<1>1. item[s] \in Item /\ <<s, p>> \in Source \X Persona
  BY DEF TypeInv, TypeOK
<1>2. TargetOK(s, p)
  BY DEF TargetInv
<1>3. CASE s \in expired
  <2>1. /\ item'[s] = NoItem /\ chosen'[s] = {} /\ written'[<<s, p>>] = 0
        /\ copy'[<<s, p>>] = "none"
    BY <1>1, <1>3 DEF Sweep
  <2> QED
    BY <2>1 DEF TargetOK, Settled, Pending, NoItem
<1>4. CASE s \notin expired
  <2>1. /\ item'[s] = Swept(s) /\ chosen'[s] = chosen[s]
        /\ written'[<<s, p>>] = written[<<s, p>>]
        /\ copy'[<<s, p>>] = copy[<<s, p>>]
    BY <1>1, <1>4 DEF Sweep
  <2>2. CASE Swept(s) = item[s]
    BY <1>2, <2>1, <2>2 DEF TargetOK, Settled, Pending
  <2>3. CASE Swept(s) # item[s]
    <3>1. /\ item'[s] = [item[s] EXCEPT !.status = "received"]
          /\ ~Settled(s)
      BY <2>1, <2>3 DEF Swept, Settled
    <3>2. /\ item'[s].status = "received"
          /\ item'[s].classified = item[s].classified
      BY <1>1, <3>1 DEF Item
    <3> QED
      BY <1>2, <2>1, <3>1, <3>2 DEF TargetOK, Settled, Pending
  <2> QED
    BY <2>2, <2>3
<1> QED
  BY <1>3, <1>4

(* What waited for the persona is written, once, and waits no more.        *)
LEMMA DrainTarget ==
  ASSUME TypeInv, TargetInv, NEW q \in Persona, DrainForPersona(q)
  PROVE  TargetInv'
<1> SUFFICES ASSUME NEW s \in Source, NEW p \in Persona PROVE TargetOK(s, p)'
  BY DEF TargetInv
<1>1. item[s] \in Item /\ <<s, p>> \in Source \X Persona
  BY DEF TypeInv, TypeOK
<1>2. TargetOK(s, p) /\ chosen' = chosen
  BY DEF TargetInv, DrainForPersona
<1> DEFINE waits == item[s].status = "pending_unlock" /\ item[s].persona = q
<1>3. item'[s] = IF waits THEN [item[s] EXCEPT !.status = "stored"] ELSE item[s]
  BY DEF DrainForPersona
<1>4. /\ item'[s].persona = item[s].persona
      /\ item'[s].classified = item[s].classified
      /\ item'[s].status = IF waits THEN "stored" ELSE item[s].status
  BY <1>1, <1>3 DEF Item
<1>5. written'[<<s, p>>] =
        IF p = q /\ Pending(s, p) /\ item[s].classified
        THEN written[<<s, p>>] + 1 ELSE written[<<s, p>>]
  BY <1>1 DEF DrainForPersona
<1>6. copy'[<<s, p>>] = IF p = q /\ copy[<<s, p>>] = "pending_unlock"
                        THEN "stored" ELSE copy[<<s, p>>]
  BY <1>1 DEF DrainForPersona
<1>7. Settled(s)' <=> Settled(s)
  BY <1>4 DEF Settled
<1>8. CASE p = q
  <2>1. ~Pending(s, p)'
    BY <1>4, <1>6, <1>8 DEF Pending
  <2>2. Pending(s, p) => Settled(s) /\ written[<<s, p>>] = 0 /\ p \in chosen[s]
    BY <1>2 DEF TargetOK
  <2>3. ~Settled(s) => copy'[<<s, p>>] = "none"
    BY <1>2, <1>6 DEF TargetOK
  <2>4. written'[<<s, p>>] = IF Pending(s, p) /\ item[s].classified
                             THEN 1 ELSE written[<<s, p>>]
    BY <1>5, <1>8, <2>2
  <2> QED
    BY <1>2, <1>4, <1>7, <2>1, <2>2, <2>3, <2>4 DEF TargetOK
<1>9. CASE p # q
  <2>1. Pending(s, p)' <=> Pending(s, p)
    BY <1>4, <1>6, <1>9 DEF Pending
  <2> QED
    BY <1>2, <1>4, <1>5, <1>6, <1>7, <1>9, <2>1 DEF TargetOK
<1> QED
  BY <1>8, <1>9

LEMMA TargetStep ==
  ASSUME TypeInv, TargetInv, [Next]_vars
  PROVE  TargetInv'
<1> DEFINE Still == UNCHANGED <<copy, written, chosen>>
<1>1. ASSUME Still, item' = item PROVE TargetInv'
  BY <1>1, UnsettledStep DEF Unsettled
<1>2. ASSUME NEW s \in Source, NEW st \in {"received", "classifying",
                                            "pending_approval"},
             Moves(s, st), ~Settled(s), Still
      PROVE  TargetInv'
  <2>1. \A r \in Source : Unsettled(r)
    BY <1>2, MovesUnsettled
  <2> QED
    BY <1>2, <2>1, UnsettledStep
<1>3. CASE ServiceStep
  <2>1. ASSUME NEW s \in Source, MarkPendingApproval(s) PROVE TargetInv'
    BY <1>2, <2>1 DEF MarkPendingApproval, Moves, Resolvable, Settled
  <2>2. ASSUME NEW s \in Source, ResumeAfterApprovalGranted(s) PROVE TargetInv'
    BY <1>2, <2>2 DEF ResumeAfterApprovalGranted, Moves, Settled
  <2>3. ASSUME NEW s \in Source, LeaseLapses(s) PROVE TargetInv'
    BY <1>1, <2>3 DEF LeaseLapses
  <2>4. ASSUME NEW s \in Source, NEW targets \in SUBSET Persona,
               NEW first \in targets, NEW classified \in BOOLEAN,
               ResolveMany(s, first, targets, classified)
        PROVE  TargetInv'
    BY <2>4, ResolveTarget DEF ResolveMany
  <2>5. ASSUME NEW s \in Source, Ingest(s) PROVE TargetInv'
    BY <1>2, <2>5 DEF Ingest, Moves, Settled
  <2> QED
    BY <1>3, <2>1, <2>2, <2>3, <2>4, <2>5, SweepTarget DEF ServiceStep
<1>4. CASE RouteStep
  <2>1. ASSUME NEW S \in SUBSET Source, RouteClaim(S) PROVE TargetInv'
    BY <2>1, ClaimUnsettled, UnsettledStep DEF RouteClaim
  <2>2. ASSUME NEW s \in Source, RouteFail(s) PROVE TargetInv'
    BY <2>2, FailUnsettled, UnsettledStep DEF RouteFail
  <2>3. ASSUME NEW s \in Source, RouteExtendLease(s) PROVE TargetInv'
    BY <1>1, <2>3 DEF RouteExtendLease
  <2> QED
    BY <1>4, <2>1, <2>2, <2>3, RouteTarget DEF RouteStep
<1>5. ASSUME NEW k \in Classifier, ProcessorStep(k) PROVE TargetInv'
  <2>1. ASSUME NEW S \in SUBSET Source, ClaimBatch(k, S) PROVE TargetInv'
    BY <2>1, ClaimUnsettled, UnsettledStep DEF ClaimBatch
  <2>2. CASE BeatBatch(k)
    BY <1>1, <2>2 DEF BeatBatch
  <2>3. \A i \in todo[k] : i[1] \in Source
    BY DEF TypeInv, TypeOK
  <2>4. ASSUME NEW i \in todo[k], ProcessFails(k, i) PROVE TargetInv'
    BY <2>3, <2>4, FailUnsettled, UnsettledStep DEF ProcessFails
  <2>5. ASSUME NEW i \in todo[k], ProcessTooLate(k, i) PROVE TargetInv'
    BY <1>1, <2>5 DEF ProcessTooLate
  <2>6. ASSUME NEW i \in todo[k], NEW p \in Persona, NEW c \in BOOLEAN,
               ProcessOneItem(k, i, p, c)
        PROVE  TargetInv'
    <3>1. i[1] \in Source /\ {p} \in SUBSET Persona /\ p \in {p}
      BY <2>3
    <3>2. ResolveMulti(i[1], p, {p}, c)
      BY <2>6 DEF ProcessOneItem
    <3> QED
      BY <3>1, <3>2, ResolveTarget
  <2> QED
    BY <1>5, <2>1, <2>2, <2>4, <2>5, <2>6 DEF ProcessorStep
<1>6. ASSUME NEW p \in Persona, OpenPersona(p) \/ ClosePersona(p) PROVE TargetInv'
  BY <1>1, <1>6 DEF OpenPersona, ClosePersona
<1>7. CASE Crash
  <2> SUFFICES ASSUME NEW s \in Source, NEW p \in Persona PROVE TargetOK(s, p)'
    BY DEF TargetInv
  <2>1. /\ item'[s] = NoItem /\ chosen'[s] = {} /\ written'[<<s, p>>] = 0
        /\ copy'[<<s, p>>] = "none"
    BY <1>7 DEF Crash
  <2> QED
    BY <2>1 DEF TargetOK, Settled, Pending, NoItem
<1>8. CASE UNCHANGED vars
  BY <1>1, <1>8 DEF vars
<1> QED
  BY <1>3, <1>4, <1>5, <1>6, <1>7, <1>8, DrainTarget DEF Next

LEMMA Safety == Spec => [](TypeInv /\ TargetInv)
<1>1. Init => TypeInv /\ TargetInv
  BY InitType, InitTarget
<1>2. TypeInv /\ TargetInv /\ [Next]_vars => TypeInv' /\ TargetInv'
  BY TypeStep, TargetStep
<1> QED
  BY <1>1, <1>2, PTL DEF Spec

(* An item makes at most one vault record per persona, for any number of   *)
(* classifiers, routes, sweeps and unlocks.                                *)
THEOREM OneRecord == Spec => []VaultedOnce
<1>1. TargetInv => VaultedOnce
  BY DEF TargetInv, TargetOK, VaultedOnce
<1> QED
  BY <1>1, Safety, PTL

(* No persona that an item was resolved for loses it: its vault has the    *)
(* record, or the inbox keeps something for it.                            *)
THEOREM NothingForgotten == Spec => []EveryTargetReached
<1>1. TypeInv /\ TargetInv => EveryTargetReached
  <2> SUFFICES ASSUME TypeInv, TargetInv, NEW s \in Source, item[s].classified,
                      NEW p \in chosen[s]
               PROVE  (written[<<s, p>>] = 0) <=> Pending(s, p)
    BY DEF EveryTargetReached
  <2>1. p \in Persona
    BY DEF TypeInv, TypeOK
  <2> QED
    BY <2>1 DEF TargetInv, TargetOK
<1> QED
  BY <1>1, Safety, PTL

-----------------------------------------------------------------------------
(* What was decided about an item stands as long as the item does.         *)

(* The item stays settled, for the same personas; no record of it is lost, *)
(* and a persona it waits for has it in the end or is still waited for.    *)
StaysDecided(s) ==
  /\ Settled(s)' /\ chosen'[s] = chosen[s]
  /\ item'[s].classified = item[s].classified
  /\ \A p \in Persona :
       /\ written'[<<s, p>>] >= written[<<s, p>>]
       /\ item[s].classified /\ Pending(s, p) =>
            Pending(s, p)' \/ written'[<<s, p>>] = 1

(* A late classifier, a second resolve, a failure report, a sweep of a     *)
(* lapsed lease or the closing of a persona never reopens an item that has *)
(* been resolved: only its deletion ends what was decided.                 *)
DecidedForGood ==
  [][\A s \in Source : Settled(s) => item'[s].status = "none" \/ StaysDecided(s)]_vars

(* The item and all that was made of it stay as they are.                  *)
Rests(s) ==
  /\ item'[s] = item[s] /\ chosen'[s] = chosen[s]
  /\ \A p \in Persona : /\ written'[<<s, p>>] = written[<<s, p>>]
                        /\ copy'[<<s, p>>] = copy[<<s, p>>]

LEMMA RestsDecided ==
  ASSUME TypeInv, NEW s \in Source, Settled(s), Rests(s)
  PROVE  StaysDecided(s)
<1>1. \A p \in Persona : written[<<s, p>>] \in Nat
  BY DEF TypeInv, TypeOK
<1> QED
  BY <1>1 DEF StaysDecided, Rests, Settled, Pending

LEMMA DrainDecided ==
  ASSUME TypeInv, TargetInv, NEW s \in Source, Settled(s),
         NEW q \in Persona, DrainForPersona(q)
  PROVE  StaysDecided(s)
<1>1. item[s] \in Item /\ item \in [Source -> Item]
      /\ written \in [Source \X Persona -> Nat]
  BY DEF TypeInv, TypeOK
<1>2. /\ Settled(s)' /\ item'[s].classified = item[s].classified
      /\ item'[s].persona = item[s].persona
      /\ item'[s].status = item[s].status \/ item[s].persona = q
  BY <1>1 DEF DrainForPersona, Settled, Item
<1>3. ASSUME NEW p \in Persona
      PROVE  /\ written'[<<s, p>>] >= written[<<s, p>>]
             /\ item[s].classified /\ Pending(s, p) =>
                  Pending(s, p)' \/ written'[<<s, p>>] = 1
  <2>1. <<s, p>> \in Source \X Persona /\ <<s, p>>[1] = s /\ <<s, p>>[2] = p
    OBVIOUS
  <2>2. written[<<s, p>>] \in Nat /\ (Pending(s, p) => written[<<s, p>>] = 0)
    BY <1>1, <2>1 DEF TargetInv, TargetOK
  <2>3. CASE p = q
    <3>1. written'[<<s, p>>] =
            IF Pending(s, p) /\ item[s].classified
            THEN written[<<s, p>>] + 1 ELSE written[<<s, p>>]
      BY <2>1, <2>3 DEF DrainForPersona
    <3> QED
      BY <2>2, <3>1
  <2>4. CASE p # q
    <3>1. written'[<<s, p>>] = written[<<s, p>>]
          /\ copy'[<<s, p>>] = copy[<<s, p>>]
      BY <2>1, <2>4 DEF DrainForPersona
    <3>2. Pending(s, p) => Pending(s, p)'
      BY <1>2, <2>4, <3>1 DEF Pending
    <3> QED
      BY <2>2, <3>1, <3>2
  <2> QED
    BY <2>3, <2>4
<1>4. chosen' = chosen
  BY DEF DrainForPersona
<1> QED
  BY <1>2, <1>3, <1>4 DEF StaysDecided

LEMMA DecidedStep ==
  ASSUME TypeInv, TargetInv, [Next]_vars, NEW s \in Source, Settled(s)
  PROVE  item'[s].status = "none" \/ StaysDecided(s)
<1> DEFINE Goal == item'[s].status = "none" \/ StaysDecided(s)
<1> SUFFICES Goal
  OBVIOUS
<1>1. /\ item \in [Source -> Item] /\ chosen \in [Source -> SUBSET Persona]
      /\ written \in [Source \X Persona -> Nat]
      /\ copy \in [Source \X Persona -> {"none", "pending_unlock", "stored"}]
  BY DEF TypeInv, TypeOK
<1>2. Rests(s) => Goal
  BY RestsDecided
<1>3. ASSUME UNCHANGED <<copy, written, chosen>>, item'[s] = item[s] PROVE Goal
  BY <1>2, <1>3 DEF Rests
<1>4. item[s].status # "none" /\ item[s].status # "pending_approval"
      /\ ~Resolvable(s) /\ s \notin InStatus("received")
  BY DEF Settled, Resolvable, InStatus
<1>5. ASSUME NEW S \in SUBSET Source, Claim(S) PROVE item'[s] = item[s]
  BY <1>4, <1>5 DEF Claim, Claimable
<1>6. ASSUME NEW r \in Source, NEW first, NEW targets, NEW c,
             ResolveMulti(r, first, targets, c)
      PROVE  Goal
  <2>1. r # s
    BY <1>4, <1>6 DEF ResolveMulti
  <2>2. item'[s] = item[s] /\ chosen'[s] = chosen[s]
    BY <1>1, <1>6, <2>1 DEF ResolveMulti
  <2>3. \A p \in Persona : /\ written'[<<s, p>>] = written[<<s, p>>]
                           /\ copy'[<<s, p>>] = copy[<<s, p>>]
    BY <1>1, <1>6, <2>1 DEF ResolveMulti
  <2> QED
    BY <1>2, <2>2, <2>3 DEF Rests
<1>7. ASSUME NEW r \in Source, Fail(r), UNCHANGED <<copy, written, chosen>> PROVE Goal
  BY <1>1, <1>3, <1>4, <1>7 DEF Fail
<1>8. CASE ServiceStep
  <2>1. ASSUME NEW r \in Source, Ingest(r) PROVE Goal
    BY <1>1, <1>3, <1>4, <2>1 DEF Ingest
  <2>2. ASSUME NEW r \in Source, MarkPendingApproval(r) PROVE Goal
    BY <1>1, <1>3, <1>4, <2>2 DEF MarkPendingApproval
  <2>3. ASSUME NEW r \in Source, ResumeAfterApprovalGranted(r) PROVE Goal
    BY <1>1, <1>3, <1>4, <2>3 DEF ResumeAfterApprovalGranted
  <2>4. ASSUME NEW r \in Source, LeaseLapses(r) PROVE Goal
    BY <1>3, <2>4 DEF LeaseLapses
  <2>5. ASSUME NEW r \in Source, NEW targets \in SUBSET Persona,
               NEW first \in targets, NEW classified \in BOOLEAN,
               ResolveMany(r, first, targets, classified)
        PROVE  Goal
    BY <1>6, <2>5 DEF ResolveMany
  <2>6. ASSUME NEW expired \in SUBSET Source, Sweep(expired) PROVE Goal
    <3>1. CASE s \in expired
      BY <2>6, <3>1 DEF Sweep, NoItem
    <3>2. CASE s \notin expired
      <4>1. Swept(s) = item[s]
        BY DEF Swept, Settled
      <4>2. item'[s] = item[s] /\ chosen'[s] = chosen[s]
        BY <2>6, <3>2, <4>1 DEF Sweep
      <4>3. \A p \in Persona : /\ written'[<<s, p>>] = written[<<s, p>>]
                               /\ copy'[<<s, p>>] = copy[<<s, p>>]
        BY <2>6, <3>2 DEF Sweep
      <4> QED
        BY <1>2, <4>2, <4>3 DEF Rests
    <3> QED
      BY <3>1, <3>2
  <2> HIDE DEF Goal
  <2> QED
    BY <1>8, <2>1, <2>2, <2>3, <2>4, <2>5, <2>6 DEF ServiceStep
<1>9. CASE RouteStep
  <2>1. ASSUME NEW r \in Source, NEW p \in Persona, NEW o \in BOOLEAN,
               RouteResolve(r, p, o)
        PROVE  Goal
    <3>1. item'[s] = item[s] /\ chosen'[s] = chosen[s]
      BY <1>1, <1>4, <2>1 DEF RouteResolve
    <3> QED
      BY <1>2, <2>1, <3>1 DEF RouteResolve, Rests
  <2> HIDE DEF Goal
  <2> QED
    BY <1>3, <1>5, <1>7, <1>9, <2>1
    DEF RouteStep, RouteClaim, RouteFail, RouteExtendLease
<1>10. ASSUME NEW k \in Classifier, ProcessorStep(k) PROVE Goal
  <2>1. \A i \in todo[k] : i[1] \in Source
    BY DEF TypeInv, TypeOK
  <2>2. ASSUME NEW i \in todo[k], ProcessFails(k, i) PROVE Goal
    BY <1>7, <2>1, <2>2 DEF ProcessFails
  <2>3. ASSUME NEW i \in todo[k], NEW p \in Persona, NEW c \in BOOLEAN,
               ProcessOneItem(k, i, p, c)
        PROVE  Goal
    BY <1>6, <2>1, <2>3 DEF ProcessOneItem
  <2> HIDE DEF Goal
  <2> QED
    BY <1>3, <1>5, <1>10, <2>2, <2>3
       DEF ProcessorStep, ClaimBatch, BeatBatch, ProcessTooLate
<1>11. ASSUME NEW p \in Persona, OpenPersona(p) \/ ClosePersona(p) PROVE Goal
  BY <1>3, <1>11 DEF OpenPersona, ClosePersona
<1>12. ASSUME NEW p \in Persona, DrainForPersona(p) PROVE Goal
  BY <1>12, DrainDecided
<1>13. CASE Crash
  BY <1>13 DEF Crash, NoItem
<1>14. CASE UNCHANGED vars
  BY <1>3, <1>14 DEF vars
<1> HIDE DEF Goal
<1> QED
  BY <1>8, <1>9, <1>10, <1>11, <1>12, <1>13, <1>14 DEF Next

(* For resolve and resolveMulti, markFailed, extendLease, sweep and the    *)
(* drain of a persona, called by anybody in any order.                     *)
THEOREM ResolvedForGood == Spec => DecidedForGood
<1>1. TypeInv /\ TargetInv /\ [Next]_vars =>
        [\A s \in Source :
           Settled(s) => item'[s].status = "none" \/ StaysDecided(s)]_vars
  BY DecidedStep
<1> QED
  BY <1>1, Safety, PTL DEF Spec, DecidedForGood

-----------------------------------------------------------------------------
(* The refinement of StagingPromise.  Its three variables, by name:        *)

SettledItems == InStatus("stored") \cup InStatus("pending_unlock")
Owed == {k \in Source \X Persona : item[k[1]].classified /\ Pending(k[1], k[2])}
Kept == {k \in Source \X Persona : written[k] > 0}

(* What the inbox has settled, owes and keeps, in the terms of its parts.  *)
LEMMA PromiseParts ==
  /\ SettledItems = {s \in Source : Settled(s)}
  /\ SettledItems' = {s \in Source : Settled(s)'}
  /\ Owed' = {k \in Source \X Persona :
                 item'[k[1]].classified /\ Pending(k[1], k[2])'}
  /\ Kept' = {k \in Source \X Persona : written'[k] > 0}
BY DEF SettledItems, InStatus, Settled, Owed, Kept

LEMMA PromiseInit == Init => Promise!Init
<1> SUFFICES ASSUME Init PROVE Promise!Init
  OBVIOUS
<1>1. SettledItems = {}
  BY PromiseParts DEF Init, NoItem, Settled
<1>2. Owed = {} /\ Kept = {}
  BY DEF Init, NoItem, Owed, Kept
<1> QED
  BY <1>1, <1>2 DEF Promise!Init, SettledItems, Owed, Kept

(* Nothing that the promise is about moves.                                *)
LEMMA PromiseStutters ==
  ASSUME TargetInv, UNCHANGED <<copy, written>>, \A s \in Source : Unsettled(s)
  PROVE  UNCHANGED <<SettledItems, Owed, Kept>>
<1>1. ASSUME NEW s \in Source PROVE Settled(s)' <=> Settled(s)
  BY DEF Unsettled, Settled
<1>2. ASSUME NEW k \in Source \X Persona
      PROVE  (item'[k[1]].classified /\ Pending(k[1], k[2])')
               <=> (item[k[1]].classified /\ Pending(k[1], k[2]))
  <2>1. k[1] \in Source /\ k[2] \in Persona /\ TargetOK(k[1], k[2])
    BY DEF TargetInv
  <2>2. Unsettled(k[1])
    BY <2>1
  <2>3. CASE item'[k[1]] = item[k[1]]
    BY <2>3 DEF Pending
  <2>4. CASE item'[k[1]] # item[k[1]]
    BY <2>1, <2>2, <2>4 DEF Unsettled, TargetOK
  <2> QED
    BY <2>3, <2>4
<1>3. SettledItems' = SettledItems
  BY <1>1, PromiseParts
<1>4. Owed' = Owed
  BY <1>2, PromiseParts DEF Owed
<1>5. Kept' = Kept
  BY DEF Kept
<1> QED
  BY <1>3, <1>4, <1>5

(* One item is settled: what the promise says of the others stays.         *)
LEMMA PromiseSettles ==
  ASSUME TypeInv, TargetInv, NEW s \in Source,
         NEW now \in SUBSET Persona, NEW later \in SUBSET Persona,
         now \cap later = {}, ~Settled(s), Settled(s)',
         \A r \in Source \ {s} : item'[r] = item[r],
         \A r \in Source \ {s}, p \in Persona :
           written'[<<r, p>>] = written[<<r, p>>]
           /\ copy'[<<r, p>>] = copy[<<r, p>>],
         \A p \in Persona :
           /\ (written'[<<s, p>>] > 0) <=> p \in now
           /\ (item'[s].classified /\ Pending(s, p)') <=> p \in later
  PROVE  Promise!Next
<1>1. SettledItems' = SettledItems \cup {s} /\ s \notin SettledItems
  BY PromiseParts DEF Settled
<1>2. \A p \in Persona : TargetOK(s, p)
  BY DEF TargetInv
<1>3. \A p \in Persona : ~(written[<<s, p>>] > 0) /\ ~item[s].classified
  BY <1>2 DEF TargetOK
<1>4. ASSUME NEW k \in Source \X Persona
      PROVE  /\ k \in Kept' <=> k \in Kept \cup {s} \X now
             /\ k \in Owed' <=> k \in Owed \cup {s} \X later
  <2>1. k = <<k[1], k[2]>> /\ k[1] \in Source /\ k[2] \in Persona
    OBVIOUS
  <2>2. CASE k[1] = s
    BY <1>3, <2>1, <2>2, PromiseParts DEF Kept, Owed
  <2>3. CASE k[1] # s
    <3>1. written'[k] = written[k] /\ copy'[k] = copy[k] /\ item'[k[1]] = item[k[1]]
      BY <2>1, <2>3
    <3>2. Pending(k[1], k[2])' <=> Pending(k[1], k[2])
      BY <2>1, <3>1 DEF Pending
    <3> QED
      BY <2>1, <2>3, <3>1, <3>2, PromiseParts DEF Kept, Owed
  <2> QED
    BY <2>2, <2>3
<1>5. /\ Kept' \subseteq Source \X Persona /\ Kept \subseteq Source \X Persona
      /\ Owed' \subseteq Source \X Persona /\ Owed \subseteq Source \X Persona
      /\ {s} \X now \subseteq Source \X Persona
      /\ {s} \X later \subseteq Source \X Persona
  BY PromiseParts DEF Kept, Owed
<1>6. Kept' = Kept \cup {s} \X now /\ Owed' = Owed \cup {s} \X later
  BY <1>4, <1>5
<1>7. Promise!Settle(s)
  BY <1>1, <1>6 DEF Promise!Settle, SettledItems, Owed, Kept
<1> QED
  BY <1>7 DEF Promise!Next

LEMMA PromiseResolves ==
  ASSUME TypeInv, TargetInv, NEW s \in Source, NEW targets \in SUBSET Persona,
         NEW first \in targets, NEW c \in BOOLEAN,
         ResolveMulti(s, first, targets, c)
  PROVE  Promise!Next
<1> DEFINE st == IF first \in open THEN "stored" ELSE "pending_unlock"
           now == IF c THEN targets \cap open ELSE {}
           later == IF c THEN targets \ open ELSE {}
<1>1. item \in [Source -> Item] /\ first \in Persona
  BY DEF TypeInv, TypeOK
<1>2. item' = [item EXCEPT ![s] = [item[s] EXCEPT !.persona = first,
                 !.classified = c, !.status = st]]
  BY <1>1 DEF ResolveMulti
<1>3. item[s] \in Item
  BY <1>1
<1>4. ~Settled(s) /\ st \in {"stored", "pending_unlock"}
  BY DEF ResolveMulti, Resolvable, Settled
<1>5. st = "stored" <=> first \in open
  OBVIOUS
<1> HIDE DEF st
<1>6. /\ item'[s].persona = first /\ item'[s].classified = c
      /\ item'[s].status = st /\ Settled(s)'
  BY <1>1, <1>2, <1>3, <1>4 DEF Item, Settled
<1>7. \A r \in Source \ {s} : item'[r] = item[r]
  BY <1>1, <1>2
<1>8. \A r \in Source \ {s}, p \in Persona :
         written'[<<r, p>>] = written[<<r, p>>]
         /\ copy'[<<r, p>>] = copy[<<r, p>>]
  BY DEF ResolveMulti
<1>9. ASSUME NEW p \in Persona
      PROVE  /\ (written'[<<s, p>>] > 0) <=> p \in now
             /\ (item'[s].classified /\ Pending(s, p)') <=> p \in later
  <2>1. written[<<s, p>>] = 0 /\ copy[<<s, p>>] = "none"
    BY <1>4 DEF TargetInv, TargetOK
  <2>2. written'[<<s, p>>] = IF p \in targets \cap open /\ c THEN 1 ELSE 0
    BY <2>1 DEF ResolveMulti
  <2>3. copy'[<<s, p>>] = IF p \in targets \ (open \cup {first})
                          THEN "pending_unlock" ELSE "none"
    BY <2>1 DEF ResolveMulti
  <2>4. Pending(s, p)' <=> p \in targets \ open
    BY <1>4, <1>5, <1>6, <2>3 DEF Pending
  <2> QED
    BY <1>6, <2>2, <2>4
<1>10. /\ now \in SUBSET Persona /\ later \in SUBSET Persona
       /\ now \cap later = {}
  OBVIOUS
<1> HIDE DEF now, later
<1> QED
  BY <1>4, <1>6, <1>7, <1>8, <1>9, <1>10, PromiseSettles

LEMMA PromiseRoutes ==
  ASSUME TypeInv, TargetInv, NEW s \in Source, NEW q \in Persona,
         NEW o \in BOOLEAN, RouteResolve(s, q, o)
  PROVE  Promise!Next
<1> DEFINE st == IF o THEN "stored" ELSE "pending_unlock"
           none == {p \in Persona : FALSE}
<1>1. item \in [Source -> Item] /\ written' = written /\ copy' = copy
  BY DEF TypeInv, TypeOK, RouteResolve
<1>2. item[s] \in Item
  BY <1>1
<1>3. item' = [item EXCEPT ![s] =
                 [item[s] EXCEPT !.persona = q, !.status = st]]
  BY <1>1 DEF RouteResolve
<1>4. st \in {"stored", "pending_unlock"} /\ ~Settled(s)
  BY DEF RouteResolve, Resolvable, Settled
<1> HIDE DEF st
<1>5. item'[s].status = st /\ item'[s].classified = item[s].classified
  BY <1>1, <1>2, <1>3 DEF Item
<1>6. Settled(s)' /\ \A r \in Source \ {s} : item'[r] = item[r]
  BY <1>1, <1>3, <1>4, <1>5 DEF Settled
<1>7. \A p \in Persona : /\ ~(written[<<s, p>>] > 0) /\ ~item'[s].classified
  BY <1>4, <1>5 DEF TargetInv, TargetOK
<1>8. none = {} /\ none \in SUBSET Persona
  OBVIOUS
<1> HIDE DEF none
<1>9. \A p \in Persona :
        /\ (written'[<<s, p>>] > 0) <=> p \in none
        /\ (item'[s].classified /\ Pending(s, p)') <=> p \in none
  BY <1>1, <1>7, <1>8
<1>10. none \cap none = {}
  BY <1>8
<1> QED
  BY <1>1, <1>4, <1>6, <1>8, <1>9, <1>10, PromiseSettles

LEMMA PromiseSweeps ==
  ASSUME TypeInv, TargetInv, NEW expired \in SUBSET Source, Sweep(expired)
  PROVE  Promise!Next
<1>1. item \in [Source -> Item]
  BY DEF TypeInv, TypeOK
<1>2. ASSUME NEW s \in Source \ expired
      PROVE  (Settled(s)' <=> Settled(s))
             /\ (Settled(s) => item'[s] = item[s])
  <2>1. item'[s] = Swept(s) /\ item[s] \in Item
    BY <1>1 DEF Sweep
  <2>2. CASE Swept(s) = item[s]
    BY <2>1, <2>2 DEF Settled
  <2>3. CASE Swept(s) # item[s]
    BY <2>1, <2>3 DEF Swept, Settled, Item
  <2> QED
    BY <2>2, <2>3
<1>3. ASSUME NEW s \in expired PROVE ~Settled(s)' /\ ~item'[s].classified
  BY DEF Sweep, NoItem, Settled
<1>4. PICK S \in SUBSET Source : S = {s \in expired : Settled(s)}
  OBVIOUS
<1>5. S \in SUBSET SettledItems /\ SettledItems' = SettledItems \ S
  BY <1>2, <1>3, <1>4, PromiseParts
<1>6. ASSUME NEW k \in Source \X Persona
      PROVE  /\ k \in Kept' <=> k \in Kept /\ k[1] \notin S
             /\ k \in Owed' <=> k \in Owed /\ k[1] \notin S
  <2>1. k = <<k[1], k[2]>> /\ k[1] \in Source /\ k[2] \in Persona
    OBVIOUS
  <2>2. TargetOK(k[1], k[2])
    BY <2>1 DEF TargetInv
  <2>3. ~Settled(k[1]) => ~(written[k] > 0) /\ ~item[k[1]].classified
    BY <2>1, <2>2 DEF TargetOK
  <2>4. CASE k[1] \in expired
    <3>1. ~(written'[k] > 0)
      BY <2>4 DEF Sweep
    <3> QED
      BY <1>3, <1>4, <2>3, <2>4, <3>1, PromiseParts DEF Kept, Owed
  <2>5. CASE k[1] \notin expired
    <3>1. written'[k] = written[k] /\ copy'[k] = copy[k] /\ k[1] \notin S
      BY <1>4, <2>5 DEF Sweep
    <3>2. CASE Settled(k[1])
      <4>1. item'[k[1]] = item[k[1]]
        BY <1>2, <2>1, <2>5, <3>2
      <4>2. Pending(k[1], k[2])' <=> Pending(k[1], k[2])
        BY <2>1, <3>1, <4>1 DEF Pending
      <4> QED
        BY <3>1, <4>1, <4>2, PromiseParts DEF Kept, Owed
    <3>3. CASE ~Settled(k[1])
      <4>1. item'[k[1]].classified = item[k[1]].classified
        BY <1>1, <2>1, <2>5 DEF Sweep, Swept, Item
      <4> QED
        BY <2>3, <3>1, <3>3, <4>1, PromiseParts DEF Kept, Owed
    <3> QED
      BY <3>2, <3>3
  <2> QED
    BY <2>4, <2>5
<1>7. /\ Kept' \subseteq Source \X Persona /\ Kept \subseteq Source \X Persona
      /\ Owed' \subseteq Source \X Persona /\ Owed \subseteq Source \X Persona
  BY PromiseParts DEF Kept, Owed
<1>8. /\ Kept' = {d \in Kept : d[1] \notin S}
      /\ Owed' = {d \in Owed : d[1] \notin S}
  BY <1>6, <1>7
<1>9. Promise!Forget(S)
  BY <1>5, <1>8 DEF Promise!Forget, SettledItems, Owed, Kept
<1> QED
  BY <1>5, <1>9 DEF Promise!Next, SettledItems

LEMMA PromiseDrains ==
  ASSUME TypeInv, TargetInv, NEW q \in Persona, DrainForPersona(q)
  PROVE  Promise!Next
<1>1. item \in [Source -> Item]
  BY DEF TypeInv, TypeOK
<1>2. ASSUME NEW s \in Source
      PROVE  /\ Settled(s)' <=> Settled(s)
             /\ item'[s].classified = item[s].classified
             /\ item'[s].persona = item[s].persona
             /\ item'[s].status = IF item[s].status = "pending_unlock"
                                     /\ item[s].persona = q
                                  THEN "stored" ELSE item[s].status
  <2>1. item[s] \in Item
    BY <1>1
  <2>2. item'[s] = IF item[s].status = "pending_unlock" /\ item[s].persona = q
                   THEN [item[s] EXCEPT !.status = "stored"] ELSE item[s]
    BY DEF DrainForPersona
  <2> QED
    BY <2>1, <2>2 DEF Settled, Item
<1>3. SettledItems' = SettledItems
  BY <1>2, PromiseParts
<1>4. ASSUME NEW k \in Source \X Persona
      PROVE  /\ k \in Kept' <=> k \in Kept \/ (k \in Owed /\ k[2] = q)
             /\ k \in Owed' <=> k \in Owed /\ k[2] # q
  <2>1. k = <<k[1], k[2]>> /\ k[1] \in Source /\ k[2] \in Persona
    OBVIOUS
  <2>2. /\ written'[k] = IF k[2] = q /\ Pending(k[1], q) /\ item[k[1]].classified
                         THEN written[k] + 1 ELSE written[k]
        /\ copy'[k] = IF k[2] = q /\ copy[k] = "pending_unlock"
                      THEN "stored" ELSE copy[k]
    BY DEF DrainForPersona
  <2>3. written[k] \in Nat
    BY DEF TypeInv, TypeOK
  <2>4. CASE k[2] = q
    <3>1. ~Pending(k[1], k[2])'
      BY <1>2, <2>1, <2>2, <2>4 DEF Pending
    <3> QED
      BY <2>2, <2>3, <2>4, <3>1, PromiseParts DEF Kept, Owed
  <2>5. CASE k[2] # q
    <3>1. Pending(k[1], k[2])' <=> Pending(k[1], k[2])
      BY <1>2, <2>1, <2>2, <2>5 DEF Pending
    <3> QED
      BY <1>2, <2>1, <2>2, <2>5, <3>1, PromiseParts DEF Kept, Owed
  <2> QED
    BY <2>4, <2>5
<1>5. /\ Kept' \subseteq Source \X Persona /\ Kept \subseteq Source \X Persona
      /\ Owed' \subseteq Source \X Persona /\ Owed \subseteq Source \X Persona
  BY PromiseParts DEF Kept, Owed
<1>6. /\ Kept' = Kept \cup {d \in Owed : d[2] = q}
      /\ Owed' = {d \in Owed : d[2] # q}
  BY <1>4, <1>5
<1>7. Promise!Unlock(q)
  BY <1>3, <1>6 DEF Promise!Unlock, SettledItems, Owed, Kept
<1> QED
  BY <1>7 DEF Promise!Next

LEMMA PromiseCrashes ==
  ASSUME TypeInv, TargetInv, Crash
  PROVE  Promise!Next
<1>1. SettledItems' = {} /\ Owed' = {} /\ Kept' = {}
  BY PromiseParts DEF Crash, NoItem, Settled
<1>2. ASSUME NEW k \in Owed \cup Kept PROVE k[1] \in SettledItems
  <2>1. k = <<k[1], k[2]>> /\ k[1] \in Source /\ k[2] \in Persona
    BY DEF Owed, Kept
  <2>2. TargetOK(k[1], k[2])
    BY <2>1 DEF TargetInv
  <2>3. item[k[1]].classified \/ written[k] > 0
    BY DEF Owed, Kept
  <2>4. Settled(k[1])
    BY <2>1, <2>2, <2>3 DEF TargetOK
  <2> QED
    BY <2>1, <2>4, PromiseParts
<1>3. PICK S \in SUBSET SettledItems : S = SettledItems
  OBVIOUS
<1>4. Promise!Forget(S)
  BY <1>1, <1>2, <1>3 DEF Promise!Forget, SettledItems, Owed, Kept
<1> QED
  BY <1>4 DEF Promise!Next, SettledItems

(* Every step of the inbox is a step of the promise, or none.              *)
LEMMA PromiseStep ==
  ASSUME TypeInv, TargetInv, [Next]_vars
  PROVE  [Promise!Next]_(Promise!vars)
<1> DEFINE Goal == Promise!Next \/ UNCHANGED <<SettledItems, Owed, Kept>>
<1> SUFFICES Goal
  BY DEF Promise!vars, SettledItems, Owed, Kept
<1>1. ASSUME UNCHANGED <<copy, written>>, \A s \in Source : Unsettled(s)
      PROVE  Goal
  BY <1>1, PromiseStutters
<1>2. ASSUME UNCHANGED <<copy, written>>, item' = item PROVE Goal
  BY <1>1, <1>2 DEF Unsettled
<1>3. ASSUME NEW s \in Source, NEW st \in {"received", "classifying",
                                            "pending_approval"},
             Moves(s, st), ~Settled(s), UNCHANGED <<copy, written>>
      PROVE  Goal
  <2>1. \A r \in Source : Unsettled(r)
    BY <1>3, MovesUnsettled
  <2> QED
    BY <1>1, <1>3, <2>1
<1>4. CASE ServiceStep
  <2>1. ASSUME NEW s \in Source, Ingest(s) PROVE Goal
    BY <1>3, <2>1 DEF Ingest, Moves, Settled
  <2>2. ASSUME NEW s \in Source, MarkPendingApproval(s) PROVE Goal
    BY <1>3, <2>2 DEF MarkPendingApproval, Moves, Resolvable, Settled
  <2>3. ASSUME NEW s \in Source, ResumeAfterApprovalGranted(s) PROVE Goal
    BY <1>3, <2>3 DEF ResumeAfterApprovalGranted, Moves, Settled
  <2>4. ASSUME NEW s \in Source, LeaseLapses(s) PROVE Goal
    BY <1>2, <2>4 DEF LeaseLapses
  <2>5. ASSUME NEW s \in Source, NEW targets \in SUBSET Persona,
               NEW first \in targets, NEW classified \in BOOLEAN,
               ResolveMany(s, first, targets, classified)
        PROVE  Goal
    BY <2>5, PromiseResolves DEF ResolveMany
  <2>6. ASSUME NEW expired \in SUBSET Source, Sweep(expired) PROVE Goal
    BY <2>6, PromiseSweeps
  <2> HIDE DEF Goal
  <2> QED
    BY <1>4, <2>1, <2>2, <2>3, <2>4, <2>5, <2>6 DEF ServiceStep
<1>5. CASE RouteStep
  <2>1. ASSUME NEW S \in SUBSET Source, RouteClaim(S) PROVE Goal
    BY <1>1, <2>1, ClaimUnsettled DEF RouteClaim
  <2>2. ASSUME NEW s \in Source, RouteFail(s) PROVE Goal
    BY <1>1, <2>2, FailUnsettled DEF RouteFail
  <2>3. ASSUME NEW s \in Source, RouteExtendLease(s) PROVE Goal
    BY <1>2, <2>3 DEF RouteExtendLease
  <2>4. ASSUME NEW s \in Source, NEW p \in Persona, NEW o \in BOOLEAN,
               RouteResolve(s, p, o)
        PROVE  Goal
    BY <2>4, PromiseRoutes
  <2> HIDE DEF Goal
  <2> QED
    BY <1>5, <2>1, <2>2, <2>3, <2>4 DEF RouteStep
<1>6. ASSUME NEW k \in Classifier, ProcessorStep(k) PROVE Goal
  <2>1. ASSUME NEW S \in SUBSET Source, ClaimBatch(k, S) PROVE Goal
    BY <1>1, <2>1, ClaimUnsettled DEF ClaimBatch
  <2>2. CASE BeatBatch(k)
    BY <1>2, <2>2 DEF BeatBatch
  <2>3. \A i \in todo[k] : i[1] \in Source
    BY DEF TypeInv, TypeOK
  <2>4. ASSUME NEW i \in todo[k], ProcessFails(k, i) PROVE Goal
    BY <1>1, <2>3, <2>4, FailUnsettled DEF ProcessFails
  <2>5. ASSUME NEW i \in todo[k], ProcessTooLate(k, i) PROVE Goal
    BY <1>2, <2>5 DEF ProcessTooLate
  <2>6. ASSUME NEW i \in todo[k], NEW p \in Persona, NEW c \in BOOLEAN,
               ProcessOneItem(k, i, p, c)
        PROVE  Goal
    <3>1. i[1] \in Source /\ {p} \in SUBSET Persona /\ p \in {p}
      BY <2>3
    <3>2. ResolveMulti(i[1], p, {p}, c)
      BY <2>6 DEF ProcessOneItem
    <3> QED
      BY <3>1, <3>2, PromiseResolves
  <2> HIDE DEF Goal
  <2> QED
    BY <1>6, <2>1, <2>2, <2>4, <2>5, <2>6 DEF ProcessorStep
<1>7. ASSUME NEW p \in Persona, OpenPersona(p) \/ ClosePersona(p) PROVE Goal
  BY <1>2, <1>7 DEF OpenPersona, ClosePersona
<1>8. ASSUME NEW p \in Persona, DrainForPersona(p) PROVE Goal
  BY <1>8, PromiseDrains
<1>9. CASE Crash
  BY <1>9, PromiseCrashes
<1>10. CASE UNCHANGED vars
  BY <1>2, <1>10 DEF vars
<1> HIDE DEF Goal
<1> QED
  BY <1>4, <1>5, <1>6, <1>7, <1>8, <1>9, <1>10 DEF Next

(* The inbox implements StagingPromise: the personas of an item are        *)
(* decided once, each of them has its record or is owed it until it is     *)
(* unlocked, and nothing is written for another one.                       *)
THEOREM PromiseKept == Spec => ImplementsPromise
<1>1. TypeInv /\ TargetInv /\ [Next]_vars => [Promise!Next]_(Promise!vars)
  BY PromiseStep
<1> QED
  BY <1>1, PromiseInit, Safety, PTL DEF Spec, ImplementsPromise, Promise!Spec

(* An item with too many failures is dead: whatever still happens to it is *)
(* that it is deleted.                                                     *)
LEMMA DeadStep ==
  ASSUME TypeInv, [Next]_vars, NEW s \in Source,
         item[s].status = "failed", item[s].retry_count > Max_retries
  PROVE  item'[s] = item[s] \/ item'[s].status = "none"
<1> DEFINE Goal == item'[s] = item[s] \/ item'[s].status = "none"
<1> SUFFICES Goal
  OBVIOUS
<1>1. item \in [Source -> Item] /\ item[s].retry_count \in Nat
  BY BoundAssumption DEF TypeInv, TypeOK, Item
<1>2. ASSUME NEW r \in Source, NEW x, item' = [item EXCEPT ![r] = x],
             item[r].status # "failed"
      PROVE  Goal
  BY <1>1, <1>2
<1>3. ASSUME NEW S \in SUBSET Source, Claim(S) PROVE Goal
  <2>1. s \notin S
    BY <1>3 DEF Claim, Claimable, InStatus
  <2> QED
    BY <1>3, <2>1 DEF Claim
<1>4. ASSUME NEW r \in Source, Resolvable(r) PROVE r # s
  BY <1>4 DEF Resolvable
<1>5. CASE ServiceStep
  <2>1. ASSUME NEW r \in Source, Ingest(r) PROVE Goal
    BY <1>1, <2>1 DEF Ingest
  <2>2. ASSUME NEW r \in Source, MarkPendingApproval(r) PROVE Goal
    BY <1>1, <1>4, <2>2 DEF MarkPendingApproval
  <2>3. ASSUME NEW r \in Source, ResumeAfterApprovalGranted(r) PROVE Goal
    BY <1>1, <2>3 DEF ResumeAfterApprovalGranted
  <2>4. ASSUME NEW r \in Source, LeaseLapses(r) PROVE Goal
    BY <2>4 DEF LeaseLapses
  <2>5. ASSUME NEW r \in Source, NEW targets \in SUBSET Persona,
               NEW first \in targets, NEW classified \in BOOLEAN,
               ResolveMany(r, first, targets, classified)
        PROVE  Goal
    BY <1>1, <1>4, <2>5 DEF ResolveMany, ResolveMulti
  <2>6. ASSUME NEW expired \in SUBSET Source, Sweep(expired) PROVE Goal
    <3>1. Swept(s) = item[s]
      BY <1>1, BoundAssumption DEF Swept
    <3> QED
      BY <2>6, <3>1 DEF Sweep, NoItem
  <2> HIDE DEF Goal
  <2> QED
    BY <1>5, <2>1, <2>2, <2>3, <2>4, <2>5, <2>6 DEF ServiceStep
<1>6. CASE RouteStep
  <2>1. ASSUME NEW r \in Source, RouteFail(r) PROVE Goal
    BY <1>1, <1>4, <2>1 DEF RouteFail, Fail
  <2>2. ASSUME NEW r \in Source, RouteExtendLease(r) PROVE Goal
    BY <2>2 DEF RouteExtendLease
  <2>3. ASSUME NEW r \in Source, NEW p \in Persona, NEW o \in BOOLEAN,
               RouteResolve(r, p, o)
        PROVE  Goal
    BY <1>1, <1>4, <2>3 DEF RouteResolve
  <2> HIDE DEF Goal
  <2> QED
    BY <1>3, <1>6, <2>1, <2>2, <2>3 DEF RouteStep, RouteClaim
<1>7. ASSUME NEW k \in Classifier, ProcessorStep(k) PROVE Goal
  <2>1. \A i \in todo[k] : i[1] \in Source
    BY DEF TypeInv, TypeOK
  <2>2. ASSUME NEW i \in todo[k], ProcessFails(k, i) PROVE Goal
    BY <1>1, <1>4, <2>1, <2>2 DEF ProcessFails, Fail
  <2>3. ASSUME NEW i \in todo[k], NEW p \in Persona, NEW c \in BOOLEAN,
               ProcessOneItem(k, i, p, c)
        PROVE  Goal
    BY <1>1, <1>4, <2>1, <2>3 DEF ProcessOneItem, ResolveMulti
  <2> QED
    BY <1>3, <1>7, <2>2, <2>3
       DEF ProcessorStep, ClaimBatch, BeatBatch, ProcessTooLate
<1>8. ASSUME NEW p \in Persona, OpenPersona(p) \/ ClosePersona(p) PROVE Goal
  BY <1>8 DEF OpenPersona, ClosePersona
<1>9. ASSUME NEW p \in Persona, DrainForPersona(p) PROVE Goal
  BY <1>9 DEF DrainForPersona
<1>10. CASE Crash
  BY <1>10 DEF Crash, NoItem
<1>11. CASE UNCHANGED vars
  BY <1>11 DEF vars
<1> QED
  BY <1>5, <1>6, <1>7, <1>8, <1>9, <1>10, <1>11 DEF Next

(* No late classifier, no route and no sweep revives it.                   *)
THEOREM DeadLettersStayDead == Spec => DeadLettersRest
<1>1. TypeInv /\ [Next]_vars =>
        [\A s \in Source :
           item[s].status = "failed" /\ item[s].retry_count > Max_retries =>
             item'[s] = item[s] \/ item'[s].status = "none"]_item
  BY DeadStep
<1>2. Spec => []TypeInv
  BY InitType, TypeStep, PTL DEF Spec
<1> QED
  BY <1>1, <1>2, PTL DEF Spec, DeadLettersRest
=============================================================================
