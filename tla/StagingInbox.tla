--------------------------- MODULE StagingInbox ---------------------------
(***************************************************************************)
(* The staging inbox between whatever takes in an item (a D2D note, a      *)
(* dead drop, the user's "remember") and the open of the personas.       *)
(* Classifiers claim items under a lease, work on them across awaits and   *)
(* resolve them into a vault, or leave them pending until the persona is   *)
(* unlocked.  The inbox, the leases and the open personas are in memory.   *)
(*                                                                         *)
(* An action is one synchronous block.  Time is abstracted: a lease lapses *)
(* and an item outlives its TTL when the model says so.  resolveMulti      *)
(* keeps the item for the first target and one copy per other locked one.  *)
(***************************************************************************)
EXTENDS Naturals, FiniteSets

CONSTANTS
  Source,       \* dedup keys: producer, source, source_id
  Persona,
  Classifier,   \* calls of processClaimedBatch that may overlap
  Limit,        \* items a claim takes, 10 in the code
  Max_retries,  \* STAGING_MAX_RETRIES, 3 in the code
  MaxIngests,   \* bound: items ingested, of all sources
  MaxCrashes,   \* bound: restarts of the node
  Null

ASSUME BoundAssumption ==
  /\ Limit \in Nat \ {0} /\ Max_retries \in Nat
  /\ MaxIngests \in Nat /\ MaxCrashes \in Nat
ASSUME NullAssumption == Null \notin Persona
ASSUME FiniteAssumption == IsFiniteSet(Source)

VARIABLES
  item,     \* per source, its item in the inbox
  copy,     \* per source and persona, the status of a copy of the item
  ingests,  \* items ingested so far: a new item's id
  life,     \* per source, the id of its last item
  lapsed,   \* the sources whose item's lease is over
  batch,    \* per classifier, the items it claimed, as <<source, life>>
  todo,     \* those of them it has not come to the end of
  beat,     \* the classifiers that are about to extend their leases
  open,     \* the open personas
  written,  \* per source and persona, vault records made from the present item
  chosen,   \* per source, the personas its present item was resolved for
  crashes

work == <<batch, todo, beat>>
history == <<ingests, life, crashes>>
vars == <<item, copy, ingests, life, lapsed, batch, todo, beat, open, written,
          chosen, crashes>>

Status == {"received", "classifying", "stored", "pending_unlock",
           "pending_approval", "failed"}

(* `classified': there is an enriched item, and storeItem takes it.        *)
Item == [status : Status \cup {"none"}, persona : Persona \cup {Null},
         retry_count : 0..(Max_retries + 1),
         classified : BOOLEAN]
NoItem == [status |-> "none", persona |-> Null, retry_count |-> 0,
           classified |-> FALSE]

TypeOK ==
  /\ item \in [Source -> Item]
  /\ copy \in [Source \X Persona -> {"none", "pending_unlock", "stored"}]
  /\ ingests \in 0..MaxIngests
  /\ life \in [Source -> 0..MaxIngests]
  /\ lapsed \subseteq Source
  /\ batch \in [Classifier -> SUBSET (Source \X (1..MaxIngests))]
  /\ todo \in [Classifier -> SUBSET (Source \X (1..MaxIngests))]
  /\ beat \subseteq Classifier
  /\ open \subseteq Persona
  /\ written \in [Source \X Persona -> Nat]
  /\ chosen \in [Source -> SUBSET Persona]
  /\ crashes \in 0..MaxCrashes

Init ==
  /\ item = [s \in Source |-> NoItem]
  /\ copy = [k \in Source \X Persona |-> "none"]
  /\ ingests = 0
  /\ life = [s \in Source |-> 0]
  /\ lapsed = {}
  /\ batch = [c \in Classifier |-> {}] /\ todo = [c \in Classifier |-> {}]
  /\ beat = {}
  /\ open = {}
  /\ written = [k \in Source \X Persona |-> 0]
  /\ chosen = [s \in Source |-> {}]
  /\ crashes = 0

-----------------------------------------------------------------------------
(* The service.                                                            *)

(* A source that has an item is a duplicate; one whose item was swept gets *)
(* a new item.                                                             *)
Ingest(s) ==
  /\ item[s].status = "none" /\ ingests < MaxIngests
  /\ item' = [item EXCEPT ![s].status = "received"]
  /\ ingests' = ingests + 1
  /\ life' = [life EXCEPT ![s] = ingests']
  /\ UNCHANGED <<copy, lapsed, work, open, written, chosen, crashes>>

InStatus(st) == {s \in Source : item[s].status = st}

(* As many received items as there are, up to the limit; which ones go     *)
(* first when there are more is abstracted.                                *)
Claimable(S) ==
  /\ S \subseteq InStatus("received") /\ S # {}
  /\ Cardinality(S) <= Limit
  /\ S = InStatus("received") \/ Cardinality(S) = Limit

Claim(S) ==
  /\ Claimable(S)
  /\ item' = [s \in Source |-> IF s \in S
       THEN [item[s] EXCEPT !.status = "classifying"] ELSE item[s]]
  /\ lapsed' = lapsed \ S

(* Slip: an item that somebody else has resolved is resolved again.        *)
ResolvableAgain(s) ==
  item[s].status \in {"classifying", "stored", "pending_unlock"}

(* resolve, resolveMulti and the others look at the status, and at nothing *)
(* that says who claimed the item.                                         *)
Resolvable(s) == item[s].status = "classifying"

(* Slip: only the first target's persona is remembered.                    *)
ResolveFirst(s, first, targets, classified) ==
  /\ Resolvable(s)
  /\ item' = [item EXCEPT ![s].persona = first, ![s].classified = classified,
       ![s].status = IF first \in open THEN "stored" ELSE "pending_unlock"]
  /\ written' = [k \in Source \X Persona |->
       IF k[1] = s /\ k[2] \in targets \cap open /\ classified
       THEN written[k] + 1 ELSE written[k]]
  /\ chosen' = [chosen EXCEPT ![s] = targets]
  /\ UNCHANGED copy

(* resolve is resolveMulti with one target.  Open targets get their vault  *)
(* record at once; storeItem refuses an item that is not valid, and that   *)
(* is swallowed.  Locked targets after the first get a copy of the item.   *)
ResolveMulti(s, first, targets, classified) ==
  /\ Resolvable(s)
  /\ item' = [item EXCEPT ![s].persona = first, ![s].classified = classified,
       ![s].status = IF first \in open THEN "stored" ELSE "pending_unlock"]
  /\ written' = [k \in Source \X Persona |->
       IF k[1] = s /\ k[2] \in targets \cap open /\ classified
       THEN written[k] + 1 ELSE written[k]]
  /\ copy' = [k \in Source \X Persona |->
       IF k[1] = s /\ k[2] \in targets \ (open \cup {first})
       THEN "pending_unlock" ELSE copy[k]]
  /\ chosen' = [chosen EXCEPT ![s] = targets]

Fail(s) ==
  /\ Resolvable(s)
  /\ item' = [item EXCEPT ![s].status = "failed", ![s].retry_count = @ + 1]

MarkPendingApproval(s) ==
  /\ Resolvable(s)
  /\ item' = [item EXCEPT ![s].status = "pending_approval"]
  /\ UNCHANGED <<copy, lapsed, work, open, written, chosen, history>>

ResumeAfterApprovalGranted(s) ==
  /\ item[s].status = "pending_approval"
  /\ item' = [item EXCEPT ![s].status = "classifying"]
  /\ lapsed' = lapsed \ {s}
  /\ UNCHANGED <<copy, work, open, written, chosen, history>>

(* extendLease counts from now when the lease is over already.             *)
ExtendLeases(S) == lapsed' = lapsed \ {s \in S : item[s].status = "classifying"}

LeaseLapses(s) ==
  /\ item[s].status = "classifying" /\ s \notin lapsed
  /\ lapsed' = lapsed \cup {s}
  /\ UNCHANGED <<item, copy, work, open, written, chosen, history>>

(* Slip: what has run out of retries is tried again.                       *)
SweptAlways(s) ==
  IF \/ item[s].status = "classifying" /\ s \in lapsed
     \/ item[s].status = "failed"
  THEN [item[s] EXCEPT !.status = "received"]
  ELSE item[s]

(* What the sweep makes of an item that has not outlived its TTL.          *)
Swept(s) ==
  IF \/ item[s].status = "classifying" /\ s \in lapsed
     \/ item[s].status = "failed" /\ item[s].retry_count <= Max_retries
  THEN [item[s] EXCEPT !.status = "received"]
  ELSE item[s]

(* The items of `expired' are deleted whatever their status, with their    *)
(* copies, which have the same expires_at.                                 *)
Sweep(expired) ==
  /\ \A s \in expired : item[s].status # "none"
  /\ item' = [s \in Source |-> IF s \in expired THEN NoItem ELSE Swept(s)]
  /\ copy' = [k \in Source \X Persona |->
       IF k[1] \in expired THEN "none" ELSE copy[k]]
  /\ written' = [k \in Source \X Persona |->
       IF k[1] \in expired THEN 0 ELSE written[k]]
  /\ chosen' = [s \in Source |-> IF s \in expired THEN {} ELSE chosen[s]]
  /\ lapsed' = {s \in lapsed : item'[s].status = "classifying"}
  /\ UNCHANGED <<work, open, history>>

(* An item or a copy of it waits for the persona.                          *)
Pending(s, p) ==
  \/ item[s].status = "pending_unlock" /\ item[s].persona = p
  \/ copy[<<s, p>>] = "pending_unlock"

(* Slip: the items are written again, whatever their status.               *)
DrainAll(p) ==
  /\ written' = [k \in Source \X Persona |->
       IF k[2] = p /\ p \in chosen[k[1]] /\ item[k[1]].classified
       THEN written[k] + 1 ELSE written[k]]
  /\ item' = [s \in Source |->
       IF item[s].status = "pending_unlock" /\ item[s].persona = p
       THEN [item[s] EXCEPT !.status = "stored"] ELSE item[s]]
  /\ copy' = [k \in Source \X Persona |->
       IF k[2] = p /\ copy[k] = "pending_unlock" THEN "stored" ELSE copy[k]]
  /\ UNCHANGED <<lapsed, work, open, chosen, history>>

(* A vault_unlocked event is worked on, after the await of its priority.   *)
(* Nothing looks whether the persona is open, still or at all.             *)
DrainForPersona(p) ==
  /\ written' = [k \in Source \X Persona |->
       IF k[2] = p /\ Pending(k[1], p) /\ item[k[1]].classified
       THEN written[k] + 1 ELSE written[k]]
  /\ item' = [s \in Source |->
       IF item[s].status = "pending_unlock" /\ item[s].persona = p
       THEN [item[s] EXCEPT !.status = "stored"] ELSE item[s]]
  /\ copy' = [k \in Source \X Persona |->
       IF k[2] = p /\ copy[k] = "pending_unlock" THEN "stored" ELSE copy[k]]
  /\ UNCHANGED <<lapsed, work, open, chosen, history>>

-----------------------------------------------------------------------------
(* The batch processor.                                                    *)

ClaimBatch(c, S) ==
  /\ todo[c] = {} /\ c \notin beat
  /\ Claim(S)
  /\ batch' = [batch EXCEPT ![c] = {<<s, life[s]>> : s \in S}]
  /\ todo' = [todo EXCEPT ![c] = {<<s, life[s]>> : s \in S}]
  /\ UNCHANGED <<copy, beat, open, written, chosen, history>>

(* The classifier comes to the end of an item: a beat follows.             *)
Finish(c, i) ==
  /\ i \in todo[c]
  /\ todo' = [todo EXCEPT ![c] = @ \ {i}]
  /\ beat' = beat \cup {c}
  /\ UNCHANGED batch

(* The id the classifier holds is still that of the source's item.         *)
Current(i) == i[2] = life[i[1]]

(* The await of the classification and the enrichment is over: whether the *)
(* persona is open is read in the same block.                              *)
ProcessOneItem(c, i, p, classified) ==
  /\ Finish(c, i)
  /\ Current(i)
  /\ ResolveMulti(i[1], p, {p}, classified)
  /\ UNCHANGED <<lapsed, open, history>>

(* The classification throws.                                              *)
ProcessFails(c, i) ==
  /\ Finish(c, i)
  /\ Current(i) /\ Fail(i[1])
  /\ UNCHANGED <<copy, lapsed, open, written, chosen, history>>

(* The item was deleted, swept or resolved meanwhile: resolve throws, and  *)
(* what fail throws is swallowed.                                          *)
ProcessTooLate(c, i) ==
  /\ Finish(c, i)
  /\ ~(Current(i) /\ Resolvable(i[1]))
  /\ UNCHANGED <<item, copy, lapsed, open, written, chosen, history>>

(* After an item, the leases of the batch are extended, of whoever holds   *)
(* them now.  The call returns when nothing is left to do.                 *)
BeatBatch(c) ==
  /\ c \in beat
  /\ ExtendLeases({i[1] : i \in {j \in batch[c] : Current(j)}})
  /\ beat' = beat \ {c}
  /\ batch' = [batch EXCEPT ![c] = IF todo[c] = {} THEN {} ELSE @]
  /\ UNCHANGED <<item, copy, todo, open, written, chosen, history>>

-----------------------------------------------------------------------------
(* The HTTP routes, for a Brain in another process: it may come late, too. *)

RouteClaim(S) ==
  /\ Claim(S)
  /\ UNCHANGED <<copy, work, open, written, chosen, history>>

(* The route has no enriched item to hand to resolve: nothing is written,  *)
(* the item is `stored' all the same.                                      *)
RouteResolve(s, p, personaOpen) ==
  /\ Resolvable(s)
  /\ item' = [item EXCEPT ![s].persona = p,
       ![s].status = IF personaOpen THEN "stored" ELSE "pending_unlock"]
  /\ chosen' = [chosen EXCEPT ![s] = {p}]
  /\ UNCHANGED <<copy, lapsed, work, open, written, history>>

RouteFail(s) ==
  /\ Fail(s)
  /\ UNCHANGED <<copy, lapsed, work, open, written, chosen, history>>

RouteExtendLease(s) ==
  /\ Resolvable(s) /\ s \in lapsed
  /\ ExtendLeases({s})
  /\ UNCHANGED <<item, copy, work, open, written, chosen, history>>

-----------------------------------------------------------------------------
(* resolveMulti, for a caller that has just read which personas are open.  *)
ResolveMany(s, first, targets, classified) ==
  /\ first \in targets
  /\ ResolveMulti(s, first, targets, classified)
  /\ UNCHANGED <<lapsed, work, open, history>>

OpenPersona(p) ==
  /\ p \notin open
  /\ open' = open \cup {p}
  /\ UNCHANGED <<item, copy, lapsed, work, written, chosen, history>>

ClosePersona(p) ==
  /\ p \in open
  /\ open' = open \ {p}
  /\ UNCHANGED <<item, copy, lapsed, work, written, chosen, history>>

(* The process dies: the rows that ingest wrote are never read back.  (One  *)
(* that has ingested nothing starts as it did before.)                     *)
Crash ==
  /\ crashes < MaxCrashes /\ ingests > 0
  /\ crashes' = crashes + 1
  /\ item' = [s \in Source |-> NoItem]
  /\ copy' = [k \in Source \X Persona |-> "none"]
  /\ lapsed' = {}
  /\ batch' = [c \in Classifier |-> {}] /\ todo' = [c \in Classifier |-> {}]
  /\ beat' = {}
  /\ open' = {}
  /\ written' = [k \in Source \X Persona |-> 0]
  /\ chosen' = [s \in Source |-> {}]
  /\ UNCHANGED <<ingests, life>>

ServiceStep ==
  \/ \E s \in Source : Ingest(s) \/ MarkPendingApproval(s)
                       \/ ResumeAfterApprovalGranted(s) \/ LeaseLapses(s)
  \/ \E s \in Source, targets \in SUBSET Persona : \E first \in targets :
       \E classified \in BOOLEAN : ResolveMany(s, first, targets, classified)
  \/ \E expired \in SUBSET Source : Sweep(expired)

ProcessorStep(c) ==
  \/ \E S \in SUBSET Source : ClaimBatch(c, S)
  \/ \E i \in todo[c] : \/ ProcessFails(c, i) \/ ProcessTooLate(c, i)
                        \/ \E p \in Persona, classified \in BOOLEAN :
                             ProcessOneItem(c, i, p, classified)
  \/ BeatBatch(c)

RouteStep ==
  \/ \E S \in SUBSET Source : RouteClaim(S)
  \/ \E s \in Source : \/ RouteFail(s) \/ RouteExtendLease(s)
                       \/ \E p \in Persona, personaOpen \in BOOLEAN :
                            RouteResolve(s, p, personaOpen)

Next ==
  \/ ServiceStep \/ RouteStep \/ Crash
  \/ \E c \in Classifier : ProcessorStep(c)
  \/ \E p \in Persona : OpenPersona(p) \/ ClosePersona(p) \/ DrainForPersona(p)

Spec == Init /\ [][Next]_vars

-----------------------------------------------------------------------------
(* Properties.                                                             *)

(* An item makes one vault record per persona, however many classifiers    *)
(* worked on it after a lease lapsed, whatever failed and was tried again, *)
(* and however often a persona is unlocked.                                *)
VaultedOnce == \A k \in Source \X Persona : written[k] <= 1

(* No persona that the item was resolved for loses it: the record is in    *)
(* its vault, or something in the inbox waits for it to be unlocked.  The  *)
(* locked targets after the first depend on their copies.                  *)
EveryTargetReached ==
  \A s \in Source : item[s].classified =>
    \A p \in chosen[s] : (written[<<s, p>>] = 0) <=> Pending(s, p)

(* The inbox keeps the promise of StagingPromise.                          *)
Promise == INSTANCE StagingPromise WITH
  settled <- InStatus("stored") \cup InStatus("pending_unlock"),
  owed <- {k \in Source \X Persona :
             item[k[1]].classified /\ Pending(k[1], k[2])},
  kept <- {k \in Source \X Persona : written[k] > 0}

ImplementsPromise == Promise!Spec

(* An item with too many failures is dead: no classifier gets it again, of *)
(* the failures that a late classifier reports included.                   *)
DeadLettersRest ==
  [][\A s \in Source :
       item[s].status = "failed" /\ item[s].retry_count > Max_retries =>
         item'[s] = item[s] \/ item'[s].status = "none"]_item
=============================================================================
