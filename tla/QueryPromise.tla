---------------------------- MODULE QueryPromise ----------------------------
(***************************************************************************)
(* What the user of a node is promised about the queries the node sends to *)
(* other services: each gets one outcome, and the user is told that        *)
(* outcome and no other.  The user hears it once, and again only when it   *)
(* was in doubt whether the first time had worked.                         *)
(***************************************************************************)
EXTENDS Naturals

CONSTANTS Query, Outcome

VARIABLES
  outcome,   \* "none", "open", or what became of the query
  told,      \* how often the user heard each outcome: 0, 1, or more often
  doubt      \* queries that may be told again

vars == <<outcome, told, doubt>>

Silent(q) == \A k \in Outcome : told[q][k] = 0

Init ==
  /\ outcome = [q \in Query |-> "none"]
  /\ told = [q \in Query |-> [k \in Outcome |-> 0]]
  /\ doubt = {}

(* Queries are asked, and settle; a sweep settles any number at once.      *)
Proceed ==
  /\ DOMAIN outcome' = Query
  /\ \A q \in Query :
       \/ outcome'[q] = outcome[q]
       \/ outcome[q] = "none" /\ outcome'[q] = "open"
       \/ outcome[q] = "open" /\ outcome'[q] \in Outcome
  /\ UNCHANGED <<told, doubt>>

Tell(q) ==
  /\ outcome[q] \in Outcome
  /\ Silent(q)
  /\ told' = [told EXCEPT ![q][outcome[q]] = 1]
  /\ UNCHANGED <<outcome, doubt>>

(* The one who told it dies, or cannot write down that it did.             *)
Doubt(q) ==
  /\ ~Silent(q)
  /\ doubt' = doubt \cup {q}
  /\ UNCHANGED <<outcome, told>>

Repeat(q) ==
  /\ q \in doubt
  /\ told' = [told EXCEPT ![q][outcome[q]] = 2]
  /\ doubt' = doubt \ {q}
  /\ UNCHANGED outcome

Next == Proceed \/ \E q \in Query : Tell(q) \/ Doubt(q) \/ Repeat(q)

(* What may happen, and what must.                                         *)
Safe == Init /\ [][Next]_vars

Spec == Safe /\ \A q \in Query : WF_vars(Tell(q))
=============================================================================
