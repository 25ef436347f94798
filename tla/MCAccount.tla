------------------------------ MODULE MCAccount ------------------------------
(***************************************************************************)
(* The account of a tab, and the account's history: one of them moves, the *)
(* other is at rest.                                                       *)
(***************************************************************************)
EXTENDS Account, Activity

VARIABLE part  \* the one that moves

MCInit == Init /\ ActivityInit /\ part \in {"account", "history"}

MCNext ==
  \/ part = "account" /\ Next /\ UNCHANGED <<part, activityVars>>
  \/ part = "history" /\ ActivityNext /\ UNCHANGED <<part, accountVars>>

MCFairness ==
  \/ part = "account" /\ Fairness
  \/ part = "history" /\ ActivityFairness

MCSpec == MCInit /\ [][MCNext]_<<part, accountVars, activityVars>> /\ MCFairness
=============================================================================
