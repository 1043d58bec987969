-------------------------- MODULE StagingPromise --------------------------
(***************************************************************************)
(* What the staging inbox promises: the personas of an item are decided    *)
(* once.  From then on the item is in each persona's vault, or owed to it  *)
(* until that persona is unlocked; nothing is written for another persona, *)
(* and nothing owed disappears but with its item.                          *)
(***************************************************************************)
CONSTANTS Source, Persona

VARIABLES settled, owed, kept
vars == <<settled, owed, kept>>

Init == settled = {} /\ owed = {} /\ kept = {}

Settle(s) ==
  /\ s \notin settled
  /\ settled' = settled \cup {s}
  /\ \E now, later \in SUBSET Persona :
       /\ now \cap later = {}
       /\ kept' = kept \cup {s} \X now
       /\ owed' = owed \cup {s} \X later

Unlock(p) ==
  /\ kept' = kept \cup {d \in owed : d[2] = p}
  /\ owed' = {d \in owed : d[2] # p}
  /\ UNCHANGED settled

Forget(S) ==
  /\ settled' = settled \ S
  /\ owed' = {d \in owed : d[1] \notin S}
  /\ kept' = {d \in kept : d[1] \notin S}

Next ==
  \/ \E s \in Source : Settle(s)
  \/ \E p \in Persona : Unlock(p)
  \/ \E S \in SUBSET settled : Forget(S)

Spec == Init /\ [][Next]_vars
=============================================================================
