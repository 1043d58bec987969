-------------------------- MODULE DelegationLease --------------------------
(***************************************************************************)
(* What the agent-pull claim of workflow tasks promises, and nothing of    *)
(* how: tasks are open, held by one agent, or done; a hold is live or has  *)
(* lapsed, and only a lapsed hold is taken back.                           *)
(***************************************************************************)
CONSTANTS TaskId, Agent, Null

VARIABLES phase, holder, live

vars == <<phase, holder, live>>

TypeOK ==
  /\ phase \in [TaskId -> {"none", "open", "held", "done"}]
  /\ holder \in [TaskId -> Agent \cup {Null}]
  /\ live \in [TaskId -> BOOLEAN]

Init ==
  /\ phase = [t \in TaskId |-> "none"]
  /\ holder = [t \in TaskId |-> Null]
  /\ live = [t \in TaskId |-> FALSE]

Offer(t) ==
  /\ phase[t] = "none"
  /\ phase' = [phase EXCEPT ![t] = "open"]
  /\ UNCHANGED <<holder, live>>

Take(t, a) ==
  /\ phase[t] = "open"
  /\ phase' = [phase EXCEPT ![t] = "held"]
  /\ holder' = [holder EXCEPT ![t] = a]
  /\ live' = [live EXCEPT ![t] = TRUE]

(* The holder is heard of, in time or just before the hold is taken back.  *)
Renew(t) ==
  /\ phase[t] = "held"
  /\ live' = [live EXCEPT ![t] = TRUE]
  /\ UNCHANGED <<phase, holder>>

Lapse(S) ==
  /\ live' = [t \in TaskId |-> live[t] /\ t \notin S]
  /\ UNCHANGED <<phase, holder>>

(* A sweep takes back any number of lapsed holds at once.                  *)
TakeBack(S) ==
  /\ \A t \in S : phase[t] = "held" /\ ~live[t]
  /\ phase' = [t \in TaskId |-> IF t \in S THEN "open" ELSE phase[t]]
  /\ holder' = [t \in TaskId |-> IF t \in S THEN Null ELSE holder[t]]
  /\ UNCHANGED live

Finish(S) ==
  /\ \A t \in S : phase[t] \in {"open", "held"}
  /\ phase' = [t \in TaskId |-> IF t \in S THEN "done" ELSE phase[t]]
  /\ holder' = [t \in TaskId |-> IF t \in S THEN Null ELSE holder[t]]
  /\ live' = [t \in TaskId |-> live[t] /\ t \notin S]

Next ==
  \/ \E t \in TaskId : Offer(t) \/ Renew(t) \/ \E a \in Agent : Take(t, a)
  \/ \E S \in SUBSET TaskId : Lapse(S) \/ TakeBack(S) \/ Finish(S)

Spec == Init /\ [][Next]_vars

(* A live hold ends only with the task: nobody else gets the task and it   *)
(* does not go back to the queue.                                          *)
LiveHoldIsExclusive ==
  [][\A t \in TaskId : live[t] =>
       \/ phase'[t] = "held" /\ holder'[t] = holder[t]
       \/ phase'[t] = "done"]_vars
=============================================================================
